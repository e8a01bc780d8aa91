-------------------------- MODULE AvatarAnimation --------------------------
(***************************************************************************)
(* One avatar of the battle scene, from mounting to unmounting             *)
(* (frontend/src/components/battle/VrmAvatar.tsx): the loads of its model  *)
(* and clips, the effect that turns attacks into requests, and the frame   *)
(* callback that drives the mixer and the OverlayTransition controller.    *)
(*                                                                         *)
(* The browser runs one callback at a time.  A frame is cut into steps     *)
(* that follow one another with nothing between them: frame says which is  *)
(* next.  Time is counted in ticks; a frame advances it by a delta.        *)
(*                                                                         *)
(* getAvatarOverlayPolicy gives the avatars of both profiles the policy    *)
(* Chained, under which a newer attack interrupts the clip of an older     *)
(* one and nothing ever waits.  Policies may hold the controller's other   *)
(* two as well, which the code exports and its tests use.                  *)
(***************************************************************************)
EXTENDS OverlayTransition

CONSTANTS
  Policies,                        \* the policies avatars are made with
  ClipTicks,                       \* duration of the attack clip
  EnterTicks, ExitTicks, InterruptTicks,   \* durations of the fades
  Deltas,                          \* time between two frames
  MaxKey                           \* bound on the ticks attacks happen at

ASSUME AvatarAssumption ==
  /\ Policies \subseteq Policy
  /\ {ClipTicks, EnterTicks, ExitTicks, InterruptTicks} \subseteq Nat \ {0}
  /\ \A p \in Policies : p.interruptOverlay \/ p.queueWhileOverlay
  /\ Deltas # {} /\ Deltas \subseteq Nat \ {0}
  /\ MaxKey \in Nat
  /\ NoKey \notin Nat

VARIABLES
  props,        \* animationProfile, and the policy of the controller
  mounted,
  vrm,          \* the model is loaded and has a mixer
  loads,        \* GLTFLoader.load calls not yet answered
  slot,         \* layerSlotRef, with the state of its actions
  ctl,          \* overlaySystemRef.controller
  listening,    \* onOverlayFinishedRef is on the mixer
  actionKey,    \* the prop: the tick of the last attack seen
  processed,    \* processedActionKeyRef
  due,          \* the effect on actionKey has yet to run
  frame         \* the next step of the frame callback

vars == <<props, mounted, vrm, loads, slot, ctl, listening, actionKey,
          processed, due, frame>>

Keys == 0..MaxKey
Steps == {"idle", "mixer", "layers", "ended", "recovered"}

-----------------------------------------------------------------------------
(* three.js: an AnimationAction, and what its methods do to it.  eff is    *)
(* the effective weight in halves: 0 none, 1 fading, 2 full.               *)

Action == [on: BOOLEAN, enabled: BOOLEAN, paused: BOOLEAN, time: 0..ClipTicks,
           fade: {"none", "in", "out"}, left: Nat, weight: 0..1, eff: 0..2]

clipAction == [on |-> FALSE, enabled |-> TRUE, paused |-> FALSE, time |-> 0,
               fade |-> "none", left |-> 0, weight |-> 1, eff |-> 2]

isRunning(a) == a.on /\ a.enabled /\ ~a.paused

play(a) == [a EXCEPT !.on = TRUE]

setEffectiveWeight(a, w) ==
  [a EXCEPT !.weight = w, !.eff = IF a.enabled THEN 2 * w ELSE 0, !.fade = "none"]

(* Mutant: nothing stops a clip at its end. *)
MovedOn(a, dt) == IF ~isRunning(a) THEN a ELSE [a EXCEPT !.time = @ + dt]

(* One action's part of mixer.update: a clip played once stops at its end  *)
(* (clampWhenFinished), a fade that has run its time ends, and a fade to   *)
(* nothing disables the action.                                            *)
Moved(a, dt) ==
  IF ~isRunning(a) THEN a
  ELSE IF a.time + dt < ClipTicks THEN [a EXCEPT !.time = @ + dt]
  ELSE [a EXCEPT !.time = ClipTicks, !.paused = TRUE]

Weighed(a, dt) ==
  IF ~a.on THEN a
  ELSE IF ~a.enabled THEN [a EXCEPT !.eff = 0]
  ELSE CASE a.fade = "none" -> [a EXCEPT !.eff = 2 * a.weight]
         [] a.fade = "in" /\ a.left > dt ->
              [a EXCEPT !.eff = a.weight, !.left = @ - dt]
         [] a.fade = "in" /\ a.left <= dt ->
              [a EXCEPT !.eff = 2 * a.weight, !.fade = "none", !.left = 0]
         [] a.fade = "out" /\ a.left > dt ->
              [a EXCEPT !.eff = a.weight, !.left = @ - dt]
         [] OTHER ->
              [a EXCEPT !.eff = 0, !.fade = "none", !.left = 0, !.enabled = FALSE]

-----------------------------------------------------------------------------
(* threeAnimationGuard.ts and threeOverlayPlayback.ts: the layers.         *)

Layers == {"base", "A", "B"}       \* overlays[0] is A, overlays[1] is B

Slot == [base: BOOLEAN, overlays: BOOLEAN, active: {"A", "B"}, act: [Layers -> Action]]

EmptySlot == [base |-> FALSE, overlays |-> FALSE, active |-> "A",
              act |-> [l \in Layers |-> clipAction]]

Other(l) == IF l = "A" THEN "B" ELSE "A"

keepActionAlive(a) == [a EXCEPT !.enabled = TRUE, !.on = TRUE]

enforceBaseLayer(s) ==
  LET a == keepActionAlive(s.act["base"])
  IN  IF ~s.base THEN s
      ELSE [s EXCEPT !.act["base"] = IF a.eff < 2 THEN setEffectiveWeight(a, 1) ELSE a]

(* reset().setEffectiveWeight(1).fadeIn(d).play() *)
fadeInOverlayAction(d) == [play(clipAction) EXCEPT !.fade = "in", !.left = d]

fadeOutOverlayAction(a, d) == [keepActionAlive(a) EXCEPT !.fade = "out", !.left = d]

(* The active overlay gives way to the other one, which is another action. *)
transitionOverlayActions(s, d) ==
  [s EXCEPT !.act[s.active] = fadeOutOverlayAction(@, d),
            !.act[Other(s.active)] = fadeInOverlayAction(d)]

(* Mutant: the overlay it tends is the active one. *)
SilenceActive(s) ==
  LET a == keepActionAlive(s.act[s.active])
  IN  IF ~s.overlays THEN s
      ELSE [s EXCEPT !.act[s.active] = IF a.eff = 0 THEN setEffectiveWeight(a, 0) ELSE a]

silenceInactiveOverlays(s) ==
  LET a == keepActionAlive(s.act[Other(s.active)])
  IN  IF ~s.overlays THEN s
      ELSE [s EXCEPT !.act[Other(s.active)] =
              IF a.eff = 0 THEN setEffectiveWeight(a, 0) ELSE a]

reinforceMinimumPoseWeight(s) ==
  LET e        == enforceBaseLayer(s)
      fallback == IF e.base THEN "base" ELSE e.active
      present  == {l \in Layers : IF l = "base" THEN e.base ELSE e.overlays}
  IN  IF present = {} \/ \E l \in present : e.act[l].eff > 0 THEN e
      ELSE [e EXCEPT !.act[fallback] = setEffectiveWeight(keepActionAlive(@), 1)]

playOverlayFromBase(s, d) ==
  IF ~s.overlays THEN s
  ELSE silenceInactiveOverlays(
         [enforceBaseLayer(s) EXCEPT !.act[s.active] = fadeInOverlayAction(d)])

(* Mutant: swapActiveOverlay is forgotten. *)
ChainUnswapped(s, d) ==
  IF ~s.overlays THEN s
  ELSE transitionOverlayActions(enforceBaseLayer(s), d)

playOverlayChain(s, d) ==
  IF ~s.overlays THEN s
  ELSE [transitionOverlayActions(enforceBaseLayer(s), d) EXCEPT !.active = Other(@)]

(* Mutant: the overlay is not faded out on the way back. *)
RecoverUnfaded(s, d) == silenceInactiveOverlays(enforceBaseLayer(s))

recoverBaseFromOverlay(s, d) ==
  IF ~s.overlays THEN s
  ELSE silenceInactiveOverlays(
         [enforceBaseLayer(s) EXCEPT !.act[s.active] = fadeOutOverlayAction(@, d)])

isOverlayClipFullyEnded(s, pending) ==
  LET a == s.act[s.active]
  IN  ~pending /\ ~isRunning(a) /\ a.time = ClipTicks /\ a.eff > 0

(* The lead is never shorter than 1/30 s, one tick. *)
shouldChainOverlayEarly(s) ==
  s.act[s.active].time + EnterTicks >= ClipTicks

-----------------------------------------------------------------------------
(* What a decision of the controller does to the layers; s is the slot as  *)
(* the caller finds it.  A clip that is played gets the finished listener. *)
applyOverlayDecision(d, s) ==
  /\ ctl' = IF d.kind \in {"play_from_base", "play_chain"}
            THEN MarkOverlayStarted(d.ctl, d.key) ELSE d.ctl
  /\ slot' = CASE d.kind = "play_from_base" -> playOverlayFromBase(s, EnterTicks)
               [] d.kind = "play_chain" ->
                    playOverlayChain(s, IF d.hold THEN EnterTicks ELSE InterruptTicks)
               [] d.kind = "start_recover" -> recoverBaseFromOverlay(s, ExitTicks)
               [] OTHER -> s
  /\ listening' = (listening \/ (s.overlays /\ d.kind \in {"play_from_base", "play_chain"}))

resetOverlaySystem ==
  /\ ctl' = Reset
  /\ slot' = EmptySlot
  /\ listening' = FALSE
  /\ processed' = NoKey

-----------------------------------------------------------------------------
Init ==
  /\ props \in [profile: {"combat", "showcase"}, policy: Policies]
  /\ mounted = TRUE
  /\ vrm = FALSE
  /\ loads = {"model"}
  /\ slot = EmptySlot
  /\ ctl = Reset
  /\ listening = FALSE
  /\ actionKey = IF props.profile = "combat" THEN NoKey ELSE 0
  /\ processed = NoKey
  /\ due = FALSE
  /\ frame = "idle"

(* The model arrives; the effects that depend on it start their loads. *)
ModelLoaded ==
  /\ frame = "idle"
  /\ "model" \in loads
  /\ IF mounted
     THEN /\ vrm' = TRUE
          /\ resetOverlaySystem
          /\ loads' = IF props.profile = "combat" THEN {"overlay"} ELSE {"idle", "overlay"}
     ELSE /\ loads' = loads \ {"model"}
          /\ UNCHANGED <<vrm, slot, ctl, listening, processed>>
  /\ UNCHANGED <<props, mounted, actionKey, due, frame>>

(* The idle loop of a showcase becomes the base, unless disposed. *)
IdleLoaded ==
  /\ frame = "idle"
  /\ "idle" \in loads
  /\ loads' = loads \ {"idle"}
  /\ IF mounted
     THEN /\ slot' = [slot EXCEPT !.base = TRUE, !.act["base"] = play(clipAction)]
          /\ due' = TRUE
     ELSE UNCHANGED <<slot, due>>
  /\ UNCHANGED <<props, mounted, vrm, ctl, listening, actionKey, processed, frame>>

(* Mutant: the callback does not look whether it was disposed. *)
OverlayLoadedAnyway ==
  /\ frame = "idle"
  /\ "overlay" \in loads
  /\ loads' = loads \ {"overlay"}
  /\ slot' = [slot EXCEPT !.overlays = TRUE]
  /\ due' = TRUE
  /\ UNCHANGED <<props, mounted, vrm, ctl, listening, actionKey, processed, frame>>

(* The attack clip and its copy become the overlays; in combat its first   *)
(* frames, looped, become the base.                                        *)
OverlayLoaded ==
  /\ frame = "idle"
  /\ "overlay" \in loads
  /\ loads' = loads \ {"overlay"}
  /\ IF mounted
     THEN /\ LET loaded == [slot EXCEPT !.overlays = TRUE, !.active = "A",
                                        !.act["A"] = clipAction, !.act["B"] = clipAction]
             IN  slot' = IF props.profile = "combat"
                         THEN [loaded EXCEPT !.base = TRUE, !.act["base"] = play(clipAction)]
                         ELSE loaded
          /\ due' = TRUE
     ELSE UNCHANGED <<slot, due>>
  /\ UNCHANGED <<props, mounted, vrm, ctl, listening, actionKey, processed, frame>>

(* The loader calls back with an error, or the file has no animation. *)
LoadFails(l) ==
  /\ frame = "idle"
  /\ l \in loads
  /\ loads' = loads \ {l}
  /\ UNCHANGED <<props, mounted, vrm, slot, ctl, listening, actionKey, processed, due, frame>>

(* BattleAvatar: a state in which the player attacks; its tick is the key. *)
Attack(k) ==
  /\ frame = "idle"
  /\ mounted /\ ~due
  /\ props.profile = "combat"
  /\ actionKey # NoKey => k > actionKey
  /\ actionKey' = k
  /\ due' = TRUE
  /\ UNCHANGED <<props, mounted, vrm, loads, slot, ctl, listening, processed, frame>>

(* The effect on actionKey and on what is ready. *)
RequestEffect ==
  /\ frame = "idle"
  /\ mounted /\ due
  /\ due' = FALSE
  /\ IF actionKey = NoKey \/ ~slot.overlays \/ ~slot.base \/ processed = actionKey
     THEN UNCHANGED <<slot, ctl, listening, processed>>
     ELSE /\ processed' = actionKey
          /\ applyOverlayDecision(Request(props.policy, ctl, actionKey), slot)
  /\ UNCHANGED <<props, mounted, vrm, loads, actionKey, frame>>

(* The player falls or the page is left: the effects are cleaned up. *)
Unmount ==
  /\ frame = "idle"
  /\ mounted
  /\ mounted' = FALSE
  /\ vrm' = FALSE
  /\ due' = FALSE
  /\ resetOverlaySystem
  /\ UNCHANGED <<props, loads, actionKey, frame>>

-----------------------------------------------------------------------------
(* The frame callback. Without a model there is nothing for it to move. *)

FrameStart ==
  /\ frame = "idle"
  /\ vrm
  /\ frame' = "mixer"
  /\ IF ctl.phase = "overlay" /\ HasPendingChain(props.policy, ctl) /\ slot.overlays
          /\ shouldChainOverlayEarly(slot)
     THEN applyOverlayDecision(OnOverlayEnded(props.policy, ctl), slot)
     ELSE UNCHANGED <<slot, ctl, listening>>
  /\ UNCHANGED <<props, mounted, vrm, loads, actionKey, processed, due>>

(* mixer.update: the actions move; the listener hears of the clip that     *)
(* ends, and heeds it if it is the active one.                             *)
MixerUpdate(dt) ==
  LET moved == [slot EXCEPT !.act = [l \in Layers |->
                  Weighed(IF l = "base" THEN slot.act[l] ELSE Moved(slot.act[l], dt), dt)]]
      over  == slot.overlays /\ moved.act[slot.active].paused
                 /\ ~slot.act[slot.active].paused
  IN  /\ frame = "mixer"
      /\ frame' = "layers"
      /\ IF over /\ listening
         THEN applyOverlayDecision(OnOverlayEnded(props.policy, ctl), moved)
         ELSE slot' = moved /\ UNCHANGED <<ctl, listening>>
      /\ UNCHANGED <<props, mounted, vrm, loads, actionKey, processed, due>>

TendLayers ==
  /\ frame = "layers"
  /\ frame' = "ended"
  /\ slot' = reinforceMinimumPoseWeight(silenceInactiveOverlays(enforceBaseLayer(slot)))
  /\ UNCHANGED <<props, mounted, vrm, loads, ctl, listening, actionKey, processed, due>>

(* An end the listener missed. *)
CheckEnded ==
  /\ frame = "ended"
  /\ frame' = "recovered"
  /\ IF ctl.phase = "overlay" /\ slot.overlays
          /\ isOverlayClipFullyEnded(slot, HasPendingChain(props.policy, ctl))
     THEN applyOverlayDecision(OnOverlayEnded(props.policy, ctl), slot)
     ELSE UNCHANGED <<slot, ctl, listening>>
  /\ UNCHANGED <<props, mounted, vrm, loads, actionKey, processed, due>>

(* isRecoverComplete, and the base's weight once back at it. *)
CheckRecovered ==
  /\ frame = "recovered"
  /\ frame' = "idle"
  /\ IF ctl.phase = "recovering" /\ slot.base /\ slot.overlays
          /\ slot.act[slot.active].eff = 0 /\ slot.act["base"].eff = 2
     THEN applyOverlayDecision(OnRecoverComplete(ctl), enforceBaseLayer(slot))
     ELSE /\ slot' = IF ctl.phase = "base" THEN enforceBaseLayer(slot) ELSE slot
          /\ UNCHANGED <<ctl, listening>>
  /\ UNCHANGED <<props, mounted, vrm, loads, actionKey, processed, due>>

Frame ==
  \/ FrameStart
  \/ \E dt \in Deltas : MixerUpdate(dt)
  \/ TendLayers
  \/ CheckEnded
  \/ CheckRecovered

Next ==
  \/ ModelLoaded
  \/ IdleLoaded
  \/ OverlayLoaded
  \/ \E l \in loads : LoadFails(l)
  \/ \E k \in Keys : Attack(k)
  \/ RequestEffect
  \/ Unmount
  \/ Frame

Spec == Init /\ [][Next]_vars

(* The browser keeps drawing frames and runs the effects of its commits. *)
FairSpec == Spec /\ WF_vars(Frame) /\ WF_vars(RequestEffect)

-----------------------------------------------------------------------------
TypeOK ==
  /\ props \in [profile: {"combat", "showcase"}, policy: Policies]
  /\ mounted \in BOOLEAN /\ vrm \in BOOLEAN /\ listening \in BOOLEAN /\ due \in BOOLEAN
  /\ loads \subseteq {"model", "idle", "overlay"}
  /\ slot \in Slot
  /\ ctl \in [phase: Phases, last: Keys \cup {NoKey}, pending: Keys \cup {NoKey}]
  /\ {actionKey, processed} \subseteq Keys \cup {NoKey}
  /\ frame \in Steps

(* The clip of the active overlay, and one that has faded out. *)
Top == slot.act[slot.active]

Gone(a) == ~a.enabled /\ a.eff = 0

(* What the controller believes is what the mixer does: in phase overlay   *)
(* the active clip runs towards its end and somebody listens for it, and   *)
(* in phase recovering it fades or is gone, over a base.  Otherwise the    *)
(* event the phase waits for never comes.                                  *)
PhaseFollowsClip ==
  LET a == slot.act[slot.active]
  IN  /\ ctl.phase = "overlay" =>
           slot.overlays /\ slot.base /\ listening /\ isRunning(a) /\ a.fade # "out"
      /\ ctl.phase = "recovering" =>
           slot.overlays /\ slot.base /\ a.on /\ (a.fade = "out" \/ a.eff = 0)

(* The request last handed to the controller has been played or waits (it  *)
(* waits only under a policy that queues).                                 *)
NoRequestLost == processed \in {NoKey, ctl.last, ctl.pending}

(* A load that is answered after the avatar is gone leaves no trace. *)
QuietAfterUnmount ==
  ~mounted => ~slot.base /\ ~slot.overlays /\ ~listening /\ ctl = Reset

(* A clip that plays gets on, and the fade on the way back goes down, by   *)
(* each update of the mixer and by nothing else, and the frame that finds  *)
(* the overlay gone ends the way back: the upkeep of the layers, late      *)
(* loads and requests never set one back, whatever the phase.              *)
ClipGoesOn ==
  ctl.phase = "overlay" /\ ctl'.phase = "overlay" /\ ctl'.last = ctl.last =>
    /\ slot'.active = slot.active
    /\ IF frame = "mixer" THEN \E dt \in Deltas : Top'.time = Top.time + dt ELSE Top' = Top

FadeGoesOn ==
  ctl.phase = "recovering" /\ ctl'.phase = "recovering" =>
    /\ slot'.active = slot.active
    /\ IF frame = "mixer"
       THEN Gone(Top') \/ (~Gone(Top) /\ \E dt \in Deltas : Top'.left = Top.left - dt)
       ELSE Top' = Top

WayBackEnds ==
  ctl.phase = "recovering" /\ frame = "recovered" /\ Gone(Top) => ctl'.phase # "recovering"

NothingSetsBack == [][ClipGoesOn /\ FadeGoesOn /\ WayBackEnds]_vars

(* Every attack animation gives way to the base again (there are finitely  *)
(* many attacks), or the avatar goes.                                      *)
ReturnsToBase == ctl.phase # "base" ~> ctl.phase = "base"

(* The avatar is a one-shot player: no key is played twice or after a      *)
(* newer one, whatever was queued, interrupted or chained.                 *)
OneShot == INSTANCE OneShotOverlay
             WITH phase <- ctl.phase, last <- ctl.last, open <- mounted

PlaysOnce == OneShot!Spec
=============================================================================
