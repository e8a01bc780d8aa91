--------------------------- MODULE AvatarTheorems ---------------------------
(***************************************************************************)
(* What holds of AvatarAnimation for every policy that interrupts a clip   *)
(* or queues what meets it, every length of the clip and of its fades,     *)
(* every rhythm of frames and any number of attacks.                       *)
(***************************************************************************)
EXTENDS AvatarAnimation, TLAPS

-----------------------------------------------------------------------------
(* The layers *)

(* The durations are positive. *)
LEMMA Durations ==
  /\ ClipTicks \in Nat \ {0} /\ EnterTicks \in Nat \ {0} /\ ExitTicks \in Nat \ {0}
  /\ InterruptTicks \in Nat \ {0}
BY AvatarAssumption

(* What the calls on an action leave is an action. *)
LEMMA ActionEdits ==
  ASSUME NEW a \in Action
  PROVE  /\ clipAction \in Action /\ play(clipAction) \in Action
         /\ keepActionAlive(a) \in Action
         /\ \A w \in 0..1 : setEffectiveWeight(a, w) \in Action
         /\ \A d \in Nat : fadeInOverlayAction(d) \in Action /\ fadeOutOverlayAction(a, d) \in Action
<1>0. 0 \in 0..ClipTicks /\ 0 \in Nat /\ 1 \in 0..1 /\ 2 \in 0..2 BY Durations
<1>1. clipAction \in Action /\ play(clipAction) \in Action
  <2>1. clipAction \in Action BY <1>0 DEF clipAction, Action
  <2>2. \A b \in Action : [b EXCEPT !.on = TRUE] \in Action BY DEF Action
  <2> QED BY <2>1, <2>2 DEF play
<1>2. keepActionAlive(a) \in Action BY DEF keepActionAlive, Action
<1>3. ASSUME NEW w \in 0..1 PROVE setEffectiveWeight(a, w) \in Action
  <2>1. 2 * w \in 0..2 /\ 0 \in 0..2 OBVIOUS
  <2>2. \A e \in 0..2 : [a EXCEPT !.weight = w, !.eff = e, !.fade = "none"] \in Action BY DEF Action
  <2> QED BY <2>1, <2>2 DEF setEffectiveWeight
<1>4. ASSUME NEW d \in Nat
      PROVE  fadeInOverlayAction(d) \in Action /\ fadeOutOverlayAction(a, d) \in Action
  <2>1. \A b \in Action : [b EXCEPT !.fade = "in", !.left = d] \in Action
                          /\ [b EXCEPT !.fade = "out", !.left = d] \in Action
    BY DEF Action
  <2> QED BY <1>1, <1>2, <2>1 DEF fadeInOverlayAction, fadeOutOverlayAction
<1> QED BY <1>1, <1>2, <1>3, <1>4

(* mixer.update keeps actions actions.  A clip that runs with no fade to    *)
(* nothing still does so or has come to its end; one that fades to nothing  *)
(* still does, or is gone for good.                                         *)
LEMMA MovedType ==
  ASSUME NEW a \in Action, NEW dt \in Nat \ {0}
  PROVE  /\ Moved(a, dt) \in Action
         /\ Moved(a, dt).on = a.on /\ Moved(a, dt).enabled = a.enabled
         /\ Moved(a, dt).fade = a.fade /\ Moved(a, dt).eff = a.eff
<1>1. \A t \in 0..ClipTicks : [a EXCEPT !.time = t] \in Action /\ [a EXCEPT !.time = t, !.paused = TRUE] \in Action
  BY DEF Action
<1>2. a.time \in Nat BY Durations DEF Action
<1>3. a.time + dt < ClipTicks => a.time + dt \in 0..ClipTicks BY <1>2, Durations
<1>4. ClipTicks \in 0..ClipTicks BY Durations
<1> QED BY <1>1, <1>3, <1>4 DEF Moved, Action

LEMMA WeighedType ==
  ASSUME NEW a \in Action, NEW dt \in Nat \ {0}
  PROVE  /\ Weighed(a, dt) \in Action
         /\ Weighed(a, dt).on = a.on /\ Weighed(a, dt).paused = a.paused
         /\ Weighed(a, dt).time = a.time
         /\ a.fade # "out" => Weighed(a, dt).fade # "out" /\ Weighed(a, dt).enabled = a.enabled
         /\ a.on /\ (a.fade = "out" \/ (~a.enabled /\ a.eff = 0)) =>
              Weighed(a, dt).fade = "out" \/ (~Weighed(a, dt).enabled /\ Weighed(a, dt).eff = 0)
<1> DEFINE Result(t) ==
             /\ t \in Action
             /\ t.on = a.on /\ t.paused = a.paused /\ t.time = a.time
             /\ a.fade # "out" => t.fade # "out" /\ t.enabled = a.enabled
             /\ a.on /\ (a.fade = "out" \/ (~a.enabled /\ a.eff = 0)) =>
                  t.fade = "out" \/ (~t.enabled /\ t.eff = 0)
<1> DEFINE w == Weighed(a, dt)
<1> SUFFICES Result(w) OBVIOUS
<1>1. a.weight \in 0..2 /\ 2 * a.weight \in 0..2 /\ 0 \in 0..2 BY DEF Action
<1>2. a.left > dt => a.left - dt \in Nat BY DEF Action
<1>3. \A e \in 0..2 :
        LET t == [a EXCEPT !.eff = e]
        IN  /\ t \in Action /\ t.on = a.on /\ t.paused = a.paused /\ t.time = a.time
            /\ t.fade = a.fade /\ t.enabled = a.enabled /\ t.eff = e
  BY DEF Action
<1>4. \A e \in 0..2, l \in Nat :
        LET t == [a EXCEPT !.eff = e, !.left = l]
        IN  /\ t \in Action /\ t.on = a.on /\ t.paused = a.paused /\ t.time = a.time
            /\ t.fade = a.fade /\ t.enabled = a.enabled /\ t.eff = e
  BY DEF Action
<1>5. \A e \in 0..2 :
        LET t == [a EXCEPT !.eff = e, !.fade = "none", !.left = 0]
        IN  /\ t \in Action /\ t.on = a.on /\ t.paused = a.paused /\ t.time = a.time
            /\ t.fade = "none" /\ t.enabled = a.enabled /\ t.eff = e
  BY DEF Action
<1>6. \A e \in 0..2 :
        LET t == [a EXCEPT !.eff = e, !.fade = "none", !.left = 0, !.enabled = FALSE]
        IN  /\ t \in Action /\ t.on = a.on /\ t.paused = a.paused /\ t.time = a.time
            /\ t.fade = "none" /\ ~t.enabled /\ t.eff = e
  BY DEF Action
<1>7. a.left \in Nat /\ a.fade \in {"none", "in", "out"} /\ (a.left > dt \/ a.left <= dt) BY DEF Action
<1>8. CASE ~a.on
  <2>1. w = a BY <1>8 DEF Weighed
  <2> QED BY <1>8, <2>1
<1>9. CASE a.on /\ ~a.enabled
  <2>1. w = [a EXCEPT !.eff = 0] BY <1>9 DEF Weighed
  <2> HIDE DEF w
  <2> QED BY <1>1, <1>3, <1>9, <2>1
<1>10. CASE a.on /\ a.enabled /\ a.fade = "none"
  <2>1. w = [a EXCEPT !.eff = 2 * a.weight] BY <1>10 DEF Weighed
  <2> HIDE DEF w
  <2> QED BY <1>1, <1>3, <1>10, <2>1
<1>11. CASE a.on /\ a.enabled /\ a.fade \in {"in", "out"} /\ a.left > dt
  <2>1. CASE a.fade = "in"
    <3>1. a.fade # "none" /\ a.fade # "out" /\ a.left > dt BY <1>11, <2>1
    <3>2. w = [a EXCEPT !.eff = a.weight, !.left = a.left - dt] BY <1>7, <1>11, <2>1, <3>1 DEF Weighed
    <3> HIDE DEF w
    <3> QED BY <1>1, <1>2, <1>4, <1>11, <2>1, <3>2
  <2>2. CASE a.fade = "out"
    <3>1. w = [a EXCEPT !.eff = a.weight, !.left = @ - dt] BY <1>11, <2>2 DEF Weighed
    <3>2. w = [a EXCEPT !.eff = a.weight, !.left = a.left - dt] BY <3>1
    <3> HIDE DEF w
    <3> QED BY <1>1, <1>2, <1>4, <1>11, <2>2, <3>2
  <2> QED BY <1>11, <2>1, <2>2
<1>12. CASE a.on /\ a.enabled /\ a.fade = "in" /\ a.left <= dt
  <2>1. ~(a.left > dt) BY <1>7, <1>12
  <2>2. w = [a EXCEPT !.eff = 2 * a.weight, !.fade = "none", !.left = 0]
    BY <1>12, <2>1 DEF Weighed
  <2> HIDE DEF w
  <2>3. /\ w \in Action /\ w.on = a.on /\ w.paused = a.paused /\ w.time = a.time
        /\ w.fade = "none" /\ w.enabled = a.enabled
    BY <1>1, <1>5, <2>2
  <2> QED BY <1>12, <2>3
<1>13. CASE a.on /\ a.enabled /\ a.fade = "out" /\ a.left <= dt
  <2>1. ~(a.left > dt) BY <1>7, <1>13
  <2>2. w = [a EXCEPT !.eff = 0, !.fade = "none", !.left = 0, !.enabled = FALSE]
    BY <1>13, <2>1 DEF Weighed
  <2> HIDE DEF w
  <2>3. /\ w \in Action /\ w.on = a.on /\ w.paused = a.paused /\ w.time = a.time
        /\ w.fade = "none" /\ ~w.enabled /\ w.eff = 0
    BY <1>1, <1>6, <2>2
  <2> QED BY <1>13, <2>3
<1> QED BY <1>7, <1>8, <1>9, <1>10, <1>11, <1>12, <1>13

(* A slot's active overlay and the other one are two, and neither is the base. *)
LEMMA SlotType ==
  ASSUME NEW s \in Slot
  PROVE  /\ s.base \in BOOLEAN /\ s.overlays \in BOOLEAN /\ s.active \in {"A", "B"}
         /\ Other(s.active) \in {"A", "B"} /\ Other(s.active) # s.active
         /\ s.active # "base" /\ Other(s.active) # "base"
         /\ s.act \in [Layers -> Action]
         /\ \A l \in {"A", "B", "base"} : l \in Layers /\ s.act[l] \in Action
BY DEF Slot, Other, Layers

(* One layer is written, the rest is left. *)
LEMMA SlotEdit ==
  ASSUME NEW s \in Slot, NEW l \in Layers, NEW a \in Action
  PROVE  LET t == [s EXCEPT !.act[l] = a]
         IN  /\ t \in Slot /\ t.base = s.base /\ t.overlays = s.overlays /\ t.active = s.active
             /\ t.act[l] = a /\ \A m \in Layers \ {l} : t.act[m] = s.act[m]
BY DEF Slot

(* t is s but for its base layer, or but for what is not active. *)
SameOverlays(s, t) ==
  /\ t \in Slot /\ t.base = s.base /\ t.overlays = s.overlays /\ t.active = s.active
  /\ \A l \in {"A", "B"} : t.act[l] = s.act[l]

SameActive(s, t) ==
  /\ t \in Slot /\ t.base = s.base /\ t.overlays = s.overlays /\ t.active = s.active
  /\ t.act[t.active] = s.act[s.active]

LEMMA EnforceBase == ASSUME NEW s \in Slot PROVE SameOverlays(s, enforceBaseLayer(s))
<1> DEFINE a == keepActionAlive(s.act["base"])
           b == IF a.eff < 2 THEN setEffectiveWeight(a, 1) ELSE a
<1>1. b \in Action BY SlotType, ActionEdits
<1>2. "base" \in Layers /\ "A" \in Layers /\ "B" \in Layers BY DEF Layers
<1>3. SameOverlays(s, [s EXCEPT !.act["base"] = b])
  <2> HIDE DEF b
  <2> QED BY <1>1, <1>2, SlotEdit DEF SameOverlays
<1>4. enforceBaseLayer(s) = IF s.base THEN [s EXCEPT !.act["base"] = b] ELSE s
  BY SlotType DEF enforceBaseLayer
<1> QED BY <1>3, <1>4 DEF SameOverlays

LEMMA SilenceInactive == ASSUME NEW s \in Slot PROVE SameActive(s, silenceInactiveOverlays(s))
<1> DEFINE o == Other(s.active)
           a == keepActionAlive(s.act[o])
           b == IF a.eff = 0 THEN setEffectiveWeight(a, 0) ELSE a
<1>1. b \in Action BY SlotType, ActionEdits
<1>2. o \in Layers /\ s.active \in Layers /\ s.active # o BY SlotType DEF Layers
<1>3. silenceInactiveOverlays(s) = IF s.overlays THEN [s EXCEPT !.act[o] = b] ELSE s
  BY SlotType DEF silenceInactiveOverlays
<1> HIDE DEF o, b
<1>4. SameActive(s, [s EXCEPT !.act[o] = b]) BY <1>1, <1>2, SlotEdit DEF SameActive
<1> QED BY <1>3, <1>4 DEF SameActive

(* The least pose is the base's, wherever there is a base. *)
LEMMA ReinforceMinimum ==
  ASSUME NEW s \in Slot
  PROVE  LET t == reinforceMinimumPoseWeight(s)
         IN  /\ t \in Slot /\ t.base = s.base /\ t.overlays = s.overlays /\ t.active = s.active
             /\ s.base => SameOverlays(s, t)
<1> DEFINE e == enforceBaseLayer(s)
           l == IF e.base THEN "base" ELSE e.active
           a == setEffectiveWeight(keepActionAlive(e.act[l]), 1)
           t == reinforceMinimumPoseWeight(s)
<1>1. SameOverlays(s, e) BY EnforceBase
<1> HIDE DEF e
<1>2. l \in Layers /\ a \in Action BY <1>1, SlotType, ActionEdits DEF SameOverlays, Layers
<1>3. t = e \/ t = [e EXCEPT !.act[l] = a]
  BY DEF reinforceMinimumPoseWeight, e
<1> HIDE DEF l, a, t
<1>4. e \in Slot /\ e.base = s.base /\ e.overlays = s.overlays /\ e.active = s.active BY <1>1 DEF SameOverlays
<1>5. /\ t \in Slot /\ t.base = s.base /\ t.overlays = s.overlays /\ t.active = s.active
      /\ \A m \in Layers \ {l} : t.act[m] = e.act[m]
  <2>1. CASE t = e BY <1>4, <2>1
  <2>2. CASE t = [e EXCEPT !.act[l] = a] BY <1>2, <1>4, <2>2, SlotEdit
  <2> QED BY <1>3, <2>1, <2>2
<1>6. s.base => l = "base" BY <1>4 DEF l
<1>7. s.base => SameOverlays(s, t) BY <1>1, <1>5, <1>6 DEF SameOverlays, Layers
<1> QED BY <1>5, <1>7 DEF t

-----------------------------------------------------------------------------
(* What the transitions do to the active overlay *)

(* Its clip runs and is not being faded to nothing; or it is on its way to *)
(* nothing, or there.                                                      *)
Running(s) ==
  s.overlays /\ s.base /\ isRunning(s.act[s.active]) /\ s.act[s.active].fade # "out"

Receding(s) ==
  LET a == s.act[s.active]
  IN  s.overlays /\ s.base /\ a.on /\ (a.fade = "out" \/ (~a.enabled /\ a.eff = 0))

LEMMA FadedActions ==
  ASSUME NEW d \in Nat, NEW a \in Action
  PROVE  /\ isRunning(fadeInOverlayAction(d)) /\ fadeInOverlayAction(d).fade = "in"
         /\ fadeOutOverlayAction(a, d).on /\ fadeOutOverlayAction(a, d).fade = "out"
<1>1. \A b \in Action :
        LET t == [b EXCEPT !.fade = "out", !.left = d]
        IN  t.on = b.on /\ t.fade = "out"
  BY DEF Action
<1>2. keepActionAlive(a) \in Action /\ keepActionAlive(a).on
  BY ActionEdits DEF keepActionAlive, Action
<1>3. fadeOutOverlayAction(a, d).on /\ fadeOutOverlayAction(a, d).fade = "out"
  BY <1>1, <1>2 DEF fadeOutOverlayAction
<1>4. LET b == play(clipAction) IN b \in Action /\ b.on /\ b.enabled /\ ~b.paused
  BY ActionEdits DEF play, clipAction
<1>5. \A b \in Action :
        LET t == [b EXCEPT !.fade = "in", !.left = d]
        IN  t.on = b.on /\ t.enabled = b.enabled /\ t.paused = b.paused /\ t.fade = "in"
  BY DEF Action
<1>6. isRunning(fadeInOverlayAction(d)) /\ fadeInOverlayAction(d).fade = "in"
  BY <1>4, <1>5 DEF fadeInOverlayAction, isRunning
<1> QED BY <1>3, <1>6

LEMMA SameOverlaysActive ==
  ASSUME NEW s \in Slot, NEW t, SameOverlays(s, t)
  PROVE  SameActive(s, t)
BY SlotType DEF SameOverlays, SameActive

LEMMA SameActiveChains ==
  ASSUME NEW s, NEW t, NEW u, SameActive(s, t), SameActive(t, u)
  PROVE  SameActive(s, u)
BY DEF SameActive

LEMMA SameActivePhases ==
  ASSUME NEW s, NEW t, SameActive(s, t)
  PROVE  (Running(s) => Running(t)) /\ (Receding(s) => Receding(t))
BY DEF SameActive, Running, Receding

LEMMA PlayFromBaseSlot ==
  ASSUME NEW s \in Slot, NEW d \in Nat
  PROVE  LET t == playOverlayFromBase(s, d)
         IN  /\ t \in Slot /\ t.base = s.base /\ t.overlays = s.overlays
             /\ s.overlays /\ s.base => Running(t)
<1> DEFINE e == enforceBaseLayer(s)
           f == fadeInOverlayAction(d)
           g == [e EXCEPT !.act[s.active] = f]
           t == playOverlayFromBase(s, d)
<1>1. SameActive(s, e) BY EnforceBase, SameOverlaysActive
<1>2. f \in Action /\ isRunning(f) /\ f.fade # "out" BY ActionEdits, FadedActions, SlotType
<1>3. s.active \in Layers BY SlotType DEF Layers
<1>4. t = IF s.overlays THEN silenceInactiveOverlays(g) ELSE s BY SlotType DEF playOverlayFromBase
<1> HIDE DEF e, f, t
<1> SUFFICES /\ t \in Slot /\ t.base = s.base /\ t.overlays = s.overlays
             /\ s.overlays /\ s.base => Running(t)
  BY DEF t
<1>5. /\ g \in Slot /\ g.base = s.base /\ g.overlays = s.overlays /\ g.active = s.active
      /\ g.act[g.active] = f
  BY <1>1, <1>2, <1>3, SlotEdit DEF SameActive
<1> HIDE DEF g
<1>6. SameActive(g, silenceInactiveOverlays(g)) BY <1>5, SilenceInactive
<1>7. s.overlays /\ s.base => Running(g) BY <1>2, <1>5 DEF Running
<1> QED BY <1>4, <1>5, <1>6, <1>7, SameActivePhases DEF SameActive

LEMMA PlayChainSlot ==
  ASSUME NEW s \in Slot, NEW d \in Nat
  PROVE  LET t == playOverlayChain(s, d)
         IN  /\ t \in Slot /\ t.base = s.base /\ t.overlays = s.overlays
             /\ s.overlays /\ s.base => Running(t)
<1> DEFINE e == enforceBaseLayer(s)
           o == Other(s.active)
           f == fadeInOverlayAction(d)
           x == fadeOutOverlayAction(e.act[s.active], d)
           g == [e EXCEPT !.act[s.active] = x]
           h == [g EXCEPT !.act[o] = f]
           u == [h EXCEPT !.active = o]
           t == playOverlayChain(s, d)
<1>1. SameActive(s, e) BY EnforceBase, SameOverlaysActive
<1>2. f \in Action /\ isRunning(f) /\ f.fade # "out" BY ActionEdits, FadedActions, SlotType
<1>3. /\ s.active \in Layers /\ o \in Layers /\ o # s.active /\ o \in {"A", "B"}
  BY SlotType DEF Layers
<1>4. e \in Slot /\ e.active = s.active /\ e.act[s.active] = s.act[s.active] BY <1>1 DEF SameActive
<1>5. x \in Action
  <2>1. s.act[s.active] \in Action BY SlotType
  <2> QED BY <1>4, <2>1, ActionEdits, FadedActions
<1>6. t = IF s.overlays THEN u ELSE s
  <2> HIDE DEF f
  <2>1. transitionOverlayActions(e, d) = [e EXCEPT !.act[s.active] = fadeOutOverlayAction(@, d), !.act[o] = f]
    BY <1>4 DEF transitionOverlayActions, f
  <2>2. e.act \in [Layers -> Action] BY <1>4, SlotType
  <2> HIDE DEF e
  <2>3. h = [e EXCEPT !.act[s.active] = fadeOutOverlayAction(@, d), !.act[o] = f] BY <1>3, <1>4, <2>2 DEF Slot
  <2>4. h.active = s.active BY <1>4 DEF Slot
  <2> HIDE DEF h
  <2>5. playOverlayChain(s, d) = IF ~s.overlays THEN s ELSE [transitionOverlayActions(e, d) EXCEPT !.active = Other(@)]
    BY DEF playOverlayChain, e
  <2> QED BY <2>1, <2>3, <2>4, <2>5, SlotType
<1> HIDE DEF e, f, x, t, o
<1> SUFFICES /\ t \in Slot /\ t.base = s.base /\ t.overlays = s.overlays
             /\ s.overlays /\ s.base => Running(t)
  BY DEF t
<1>7. /\ g \in Slot /\ g.base = s.base /\ g.overlays = s.overlays /\ g.active = s.active
      /\ g.act[s.active] = x
  BY <1>1, <1>3, <1>5, SlotEdit DEF SameActive
<1> HIDE DEF g
<1>8. /\ h \in Slot /\ h.base = s.base /\ h.overlays = s.overlays
      /\ h.act[s.active] = x /\ h.act[o] = f
  BY <1>2, <1>3, <1>7, SlotEdit
<1> HIDE DEF h
<1>9. /\ u \in Slot /\ u.base = s.base /\ u.overlays = s.overlays /\ u.active = o
      /\ u.act = h.act
  BY <1>3, <1>8 DEF Slot
<1> HIDE DEF u
<1>10. CASE s.overlays
  <2>1. t = u BY <1>6, <1>10
  <2> QED BY <1>2, <1>5, <1>8, <1>9, <2>1 DEF Running
<1>11. CASE ~s.overlays BY <1>6, <1>11
<1> QED BY <1>10, <1>11, SlotType

LEMMA RecoverSlot ==
  ASSUME NEW s \in Slot, NEW d \in Nat
  PROVE  LET t == recoverBaseFromOverlay(s, d)
         IN  /\ t \in Slot /\ t.base = s.base /\ t.overlays = s.overlays
             /\ s.overlays /\ s.base => Receding(t)
<1> DEFINE e == enforceBaseLayer(s)
           x == fadeOutOverlayAction(e.act[s.active], d)
           g == [e EXCEPT !.act[s.active] = x]
           t == recoverBaseFromOverlay(s, d)
<1>1. SameActive(s, e) BY EnforceBase, SameOverlaysActive
<1>2. e \in Slot /\ e.active = s.active /\ s.active \in Layers /\ e.act[s.active] \in Action
  BY <1>1, SlotType DEF SameActive, Layers
<1>3. x \in Action /\ x.on /\ x.fade = "out" BY <1>2, ActionEdits, FadedActions
<1>4. t = IF s.overlays THEN silenceInactiveOverlays(g) ELSE s
  <2>1. [e EXCEPT !.act[s.active] = fadeOutOverlayAction(@, d)] = g
    <3>1. e.act \in [Layers -> Action] BY <1>2, SlotType
    <3> HIDE DEF e
    <3> QED BY <1>2, <3>1 DEF Slot
  <2> QED BY <2>1, SlotType DEF recoverBaseFromOverlay
<1> HIDE DEF e, x, t
<1> SUFFICES /\ t \in Slot /\ t.base = s.base /\ t.overlays = s.overlays
             /\ s.overlays /\ s.base => Receding(t)
  BY DEF t
<1>5. /\ g \in Slot /\ g.base = s.base /\ g.overlays = s.overlays /\ g.active = s.active
      /\ g.act[g.active] = x
  BY <1>1, <1>2, <1>3, SlotEdit DEF SameActive
<1> HIDE DEF g
<1>6. SameActive(g, silenceInactiveOverlays(g)) BY <1>5, SilenceInactive
<1>7. s.overlays /\ s.base => Receding(g) BY <1>3, <1>5 DEF Receding
<1> QED BY <1>4, <1>5, <1>6, <1>7, SameActivePhases DEF SameActive

-----------------------------------------------------------------------------
(* The controller *)

Ctl == [phase: Phases, last: Keys \cup {NoKey}, pending: Keys \cup {NoKey}]

LEMMA KeyValues == Keys \subseteq Nat /\ NoKey \notin Keys /\ NoKey \notin Nat
BY AvatarAssumption DEF Keys

LEMMA CtlEdits ==
  ASSUME NEW c \in Ctl
  PROVE  /\ \A k \in Keys \cup {NoKey} :
              LET e == [c EXCEPT !.pending = k]
              IN  e \in Ctl /\ e.phase = c.phase /\ e.last = c.last /\ e.pending = k
         /\ \A k \in Keys :
              LET e == MarkOverlayStarted(c, k)
              IN  e \in Ctl /\ e.phase = "overlay" /\ e.last = k /\ e.pending = c.pending
         /\ Forget(c) \in Ctl /\ Forget(c).phase = c.phase /\ Forget(c).last = c.last
         /\ Forget(c).pending = NoKey
         /\ c.phase \in Phases /\ c.last \in Keys \cup {NoKey} /\ c.pending \in Keys \cup {NoKey}
BY DEF Ctl, MarkOverlayStarted, Forget, Phases

LEMMA PhaseEdits ==
  ASSUME NEW c \in Ctl, NEW h \in Phases
  PROVE  LET e == [c EXCEPT !.phase = h]
         IN  e \in Ctl /\ e.phase = h /\ e.last = c.last /\ e.pending = c.pending
BY DEF Ctl

(* The request last handed over, k, has been played or waits for a clip    *)
(* that is older; nothing else waits.                                      *)
Tracks(c, k) ==
  IF k = NoKey THEN c = Reset
  ELSE \/ c.last = k /\ c.pending = NoKey
       \/ c.pending = k /\ c.phase # "base" /\ c.last # NoKey /\ c.last < k

(* What may become of a controller: nothing; a newer clip is played; the   *)
(* clip ends; the avatar is back at its base.                              *)
CtlStep(c, e) ==
  \/ e.phase = c.phase /\ e.last = c.last
  \/ e.phase = "overlay" /\ e.last \in Keys /\ (c.last # NoKey => c.last < e.last)
  \/ c.phase = "overlay" /\ e.phase = "recovering" /\ e.last = c.last
  \/ c.phase = "recovering" /\ e.phase = "base" /\ e.last = c.last

LEMMA ResetCtl ==
  Reset \in Ctl /\ Reset.phase = "base" /\ Reset.last = NoKey /\ Reset.pending = NoKey
BY DEF Reset, Ctl, Phases

(* A newer request is played at once, or queued while a clip is on.        *)
LEMMA RequestDecides ==
  ASSUME NEW c \in Ctl, NEW p \in Policies, NEW q \in Keys \cup {NoKey}, NEW k \in Keys,
         Tracks(c, q), q # NoKey => q < k
  PROVE  LET d == Request(p, c, k)
         IN  /\ c.last # NoKey => c.last < k
             /\ \/ /\ d.kind \in {"play_from_base", "play_chain"} /\ d.key = k
                   /\ d.ctl \in Ctl /\ d.ctl.pending = NoKey
                \/ /\ d.kind = "queue" /\ d.ctl = [c EXCEPT !.pending = k]
                   /\ c.phase # "base" /\ c.last # NoKey
<1> DEFINE d == Request(p, c, k)
<1>1. c.last # NoKey => c.last < k /\ c.last \in Keys
  BY KeyValues, CtlEdits, ResetCtl DEF Tracks
<1>2. k # c.last BY <1>1, KeyValues
<1>3. p.interruptOverlay \/ p.queueWhileOverlay BY AvatarAssumption
<1>4. c.phase # "base" => c.last # NoKey BY ResetCtl, KeyValues DEF Tracks
<1>5. CASE c.phase = "base"
  <2>1. d = PlayFromBase(c, k) BY <1>2, <1>5 DEF Request
  <2>2. c.pending = NoKey BY <1>5, ResetCtl DEF Tracks
  <2> QED BY <1>1, <1>5, <2>1, <2>2 DEF PlayFromBase
<1>6. CASE c.phase = "overlay"
  <2>1. CASE p.interruptOverlay
    <3>1. d = PlayChain(Forget(c), k, FALSE) BY <1>2, <1>6, <2>1 DEF Request
    <3> QED BY <1>1, <2>1, <3>1, CtlEdits DEF PlayChain
  <2>2. CASE ~p.interruptOverlay
    <3>1. d = Queue(c, k) BY <1>2, <1>3, <1>6, <2>2 DEF Request
    <3> QED BY <1>1, <1>4, <1>6, <3>1 DEF Queue
  <2> QED BY <2>1, <2>2
<1>7. CASE c.phase = "recovering"
  <2>1. CASE p.interruptRecovering
    <3>1. d = PlayChain(Forget(c), k, FALSE) BY <1>2, <1>7, <2>1 DEF Request
    <3> QED BY <1>1, <1>7, <3>1, CtlEdits DEF PlayChain
  <2>2. CASE ~p.interruptRecovering
    <3>1. d = Queue(c, k) BY <1>2, <1>7, <2>2 DEF Request
    <3> QED BY <1>1, <1>4, <1>7, <3>1 DEF Queue
  <2> QED BY <2>1, <2>2
<1> QED BY <1>5, <1>6, <1>7, CtlEdits DEF Phases

(* At the end of a clip the waiting request is played, or the way back     *)
(* begins.                                                                 *)
LEMMA EndDecides ==
  ASSUME NEW c \in Ctl, NEW p \in Policies, NEW q \in Keys \cup {NoKey}, Tracks(c, q),
         c.phase = "overlay"
  PROVE  LET d == OnOverlayEnded(p, c)
         IN  \/ /\ HasPendingChain(p, c)
                /\ d.kind = "play_chain" /\ d.key = q /\ q \in Keys /\ d.ctl = Forget(c)
                /\ c.last \in Keys /\ c.last < q
             \/ /\ ~HasPendingChain(p, c)
                /\ d.kind = "start_recover" /\ d.ctl = [c EXCEPT !.phase = "recovering"]
<1> DEFINE d == OnOverlayEnded(p, c)
<1>1. q # NoKey BY ResetCtl DEF Tracks
<1>2. CASE HasPendingChain(p, c)
  <2>1. d = PlayChain(Forget(c), c.pending, TRUE) BY <1>2 DEF OnOverlayEnded
  <2>2. c.pending # NoKey BY <1>2 DEF HasPendingChain, ResolvePending
  <2>3. c.pending = q /\ c.last # NoKey /\ c.last < q BY <1>1, <2>2 DEF Tracks
  <2> QED BY <1>1, <1>2, <2>1, <2>3, CtlEdits DEF PlayChain
<1>3. CASE ~HasPendingChain(p, c)
  BY <1>3 DEF OnOverlayEnded
<1> QED BY <1>2, <1>3

(* Back at the base, the waiting request is played, or nothing waits.      *)
LEMMA RecoverDecides ==
  ASSUME NEW c \in Ctl, NEW q \in Keys \cup {NoKey}, Tracks(c, q), c.phase = "recovering"
  PROVE  LET d == OnRecoverComplete(c)
             b == [Forget(c) EXCEPT !.phase = "base"]
         IN  /\ d.ctl = b /\ q \in Keys
             /\ \/ d.kind = "play_from_base" /\ d.key = q /\ c.last \in Keys /\ c.last < q
                \/ d.kind = "ignore" /\ c.last = q
<1> DEFINE d == OnRecoverComplete(c)
           b == [Forget(c) EXCEPT !.phase = "base"]
<1> SUFFICES /\ d.ctl = b /\ q \in Keys
             /\ \/ d.kind = "play_from_base" /\ d.key = q /\ c.last \in Keys /\ c.last < q
                \/ d.kind = "ignore" /\ c.last = q
  OBVIOUS
<1>1. q # NoKey BY ResetCtl DEF Tracks
<1>2. CASE ResolvePending(c) = NoKey
  <2>1. d = Ignore(b) BY <1>2 DEF OnRecoverComplete
  <2>2. c.last = q BY <1>1, <1>2, KeyValues DEF ResolvePending, Tracks
  <2> HIDE DEF b, d
  <2> QED BY <1>1, <2>1, <2>2 DEF Ignore
<1>3. CASE ResolvePending(c) # NoKey
  <2>1. d = PlayFromBase(b, c.pending) BY <1>3 DEF OnRecoverComplete
  <2>2. c.pending # NoKey BY <1>3 DEF ResolvePending
  <2>3. c.pending = q /\ c.last # NoKey /\ c.last < q BY <1>1, <2>2 DEF Tracks
  <2> HIDE DEF b, d
  <2> QED BY <1>1, <2>1, <2>3, CtlEdits DEF PlayFromBase
<1> QED BY <1>2, <1>3

-----------------------------------------------------------------------------
(* A decision reaches the layers *)

(* The strengthened PhaseFollowsClip: a clip faded to nothing is disabled,  *)
(* or the next mixer update would give it its weight back.                  *)
Attuned(c, s, l) ==
  /\ c.phase = "overlay" => Running(s) /\ l
  /\ c.phase = "recovering" => Receding(s)

LEMMA DecisionApplied ==
  ASSUME NEW d, NEW s \in Slot, applyOverlayDecision(d, s), listening \in BOOLEAN
  PROVE  /\ slot' \in Slot /\ slot'.base = s.base /\ slot'.overlays = s.overlays
         /\ listening' \in BOOLEAN
         /\ listening' # listening => s.overlays
         /\ d.kind \in {"ignore", "queue"} => slot' = s /\ ctl' = d.ctl /\ listening' = listening
         /\ d.kind \in {"play_from_base", "play_chain"} =>
              /\ ctl' = MarkOverlayStarted(d.ctl, d.key)
              /\ s.overlays /\ s.base => Running(slot') /\ listening'
         /\ d.kind = "start_recover" =>
              /\ ctl' = d.ctl
              /\ listening' = listening
              /\ s.overlays /\ s.base => Receding(slot')
<1>1. EnterTicks \in Nat /\ InterruptTicks \in Nat /\ ExitTicks \in Nat BY Durations
<1>2. /\ ctl' = IF d.kind \in {"play_from_base", "play_chain"}
                THEN MarkOverlayStarted(d.ctl, d.key) ELSE d.ctl
      /\ listening' = (listening \/ (s.overlays /\ d.kind \in {"play_from_base", "play_chain"}))
  BY DEF applyOverlayDecision
<1>3. CASE d.kind = "play_from_base"
  <2>1. slot' = playOverlayFromBase(s, EnterTicks) BY <1>3 DEF applyOverlayDecision
  <2> QED BY <1>1, <1>2, <1>3, <2>1, PlayFromBaseSlot
<1>4. CASE d.kind = "play_chain"
  <2> DEFINE n == IF d.hold THEN EnterTicks ELSE InterruptTicks
  <2>1. slot' = playOverlayChain(s, n) BY <1>4 DEF applyOverlayDecision
  <2>2. n \in Nat BY <1>1
  <2> HIDE DEF n
  <2> QED BY <1>2, <1>4, <2>1, <2>2, PlayChainSlot
<1>5. CASE d.kind = "start_recover"
  <2>1. slot' = recoverBaseFromOverlay(s, ExitTicks) BY <1>5 DEF applyOverlayDecision
  <2> QED BY <1>1, <1>2, <1>5, <2>1, RecoverSlot
<1>6. CASE d.kind \notin {"play_from_base", "play_chain", "start_recover"}
  <2>1. slot' = s BY <1>6 DEF applyOverlayDecision
  <2> QED BY <1>2, <1>6, <2>1, SlotType
<1> QED BY <1>3, <1>4, <1>5, <1>6

(* What is true of the controller, the layers and the listener together.   *)
Consistent(c, s, l, q) ==
  c \in Ctl /\ s \in Slot /\ l \in BOOLEAN /\ Attuned(c, s, l) /\ Tracks(c, q)

LEMMA Requested ==
  ASSUME props.policy \in Policies, Consistent(ctl, slot, listening, processed),
         processed \in Keys \cup {NoKey}, actionKey \in Keys,
         processed # NoKey => processed < actionKey,
         slot.overlays, slot.base,
         applyOverlayDecision(Request(props.policy, ctl, actionKey), slot)
  PROVE  /\ Consistent(ctl', slot', listening', actionKey)
         /\ slot'.base /\ slot'.overlays
         /\ CtlStep(ctl, ctl')
<1> DEFINE d == Request(props.policy, ctl, actionKey)
<1>1. ctl \in Ctl /\ slot \in Slot /\ listening \in BOOLEAN /\ Tracks(ctl, processed)
      /\ Attuned(ctl, slot, listening)
  BY DEF Consistent
<1>2. /\ ctl.last # NoKey => ctl.last < actionKey
      /\ \/ /\ d.kind \in {"play_from_base", "play_chain"} /\ d.key = actionKey
            /\ d.ctl \in Ctl /\ d.ctl.pending = NoKey
         \/ /\ d.kind = "queue" /\ d.ctl = [ctl EXCEPT !.pending = actionKey]
            /\ ctl.phase # "base" /\ ctl.last # NoKey
  BY <1>1, RequestDecides
<1>3. applyOverlayDecision(d, slot) OBVIOUS
<1> HIDE DEF d
<1>4. actionKey # NoKey BY KeyValues
<1>5. CASE d.kind \in {"play_from_base", "play_chain"}
  <2>1. d.key = actionKey /\ d.ctl \in Ctl /\ d.ctl.pending = NoKey BY <1>2, <1>5
  <2>2. /\ slot' \in Slot /\ slot'.base /\ slot'.overlays /\ listening' \in BOOLEAN
        /\ ctl' = MarkOverlayStarted(d.ctl, d.key) /\ Running(slot') /\ listening'
    BY <1>1, <1>3, <1>5, DecisionApplied
  <2>3. ctl' \in Ctl /\ ctl'.phase = "overlay" /\ ctl'.last = actionKey /\ ctl'.pending = NoKey
    BY <2>1, <2>2, CtlEdits
  <2>4. Attuned(ctl', slot', listening') BY <2>2, <2>3 DEF Attuned
  <2>5. Tracks(ctl', actionKey) BY <1>4, <2>3 DEF Tracks
  <2> QED BY <1>2, <2>1, <2>2, <2>3, <2>4, <2>5 DEF Consistent, CtlStep
<1>6. CASE d.kind = "queue"
  <2>1. d.ctl = [ctl EXCEPT !.pending = actionKey] /\ ctl.phase # "base" /\ ctl.last # NoKey
    BY <1>2, <1>6
  <2>2. slot' = slot /\ ctl' = d.ctl /\ listening' = listening
    BY <1>1, <1>3, <1>6, DecisionApplied
  <2>3. ctl' \in Ctl /\ ctl'.phase = ctl.phase /\ ctl'.last = ctl.last /\ ctl'.pending = actionKey
    BY <1>1, <2>1, <2>2, CtlEdits
  <2>4. Attuned(ctl', slot', listening') BY <1>1, <2>2, <2>3 DEF Attuned
  <2>5. Tracks(ctl', actionKey) BY <1>2, <1>4, <2>1, <2>3 DEF Tracks
  <2> QED BY <1>1, <2>2, <2>3, <2>4, <2>5 DEF Consistent, CtlStep
<1> QED BY <1>2, <1>5, <1>6

LEMMA Ended ==
  ASSUME NEW s \in Slot, props.policy \in Policies,
         ctl \in Ctl, listening \in BOOLEAN, Tracks(ctl, processed),
         processed \in Keys \cup {NoKey},
         s.overlays, s.base, ctl.phase = "overlay",
         applyOverlayDecision(OnOverlayEnded(props.policy, ctl), s)
  PROVE  /\ Consistent(ctl', slot', listening', processed)
         /\ slot'.base /\ slot'.overlays
         /\ CtlStep(ctl, ctl')
<1> DEFINE d == OnOverlayEnded(props.policy, ctl)
<1>1. ctl \in Ctl /\ listening \in BOOLEAN /\ Tracks(ctl, processed) OBVIOUS
<1>2. \/ /\ HasPendingChain(props.policy, ctl)
         /\ d.kind = "play_chain" /\ d.key = processed /\ processed \in Keys /\ d.ctl = Forget(ctl)
         /\ ctl.last \in Keys /\ ctl.last < processed
      \/ /\ ~HasPendingChain(props.policy, ctl)
         /\ d.kind = "start_recover" /\ d.ctl = [ctl EXCEPT !.phase = "recovering"]
  BY <1>1, EndDecides
<1>3. applyOverlayDecision(d, s) OBVIOUS
<1> HIDE DEF d
<1>4. CASE HasPendingChain(props.policy, ctl)
  <2>1. /\ d.kind = "play_chain" /\ d.key = processed /\ processed \in Keys /\ d.ctl = Forget(ctl)
        /\ ctl.last \in Keys /\ ctl.last < processed
    BY <1>2, <1>4
  <2>2. /\ slot' \in Slot /\ slot'.base /\ slot'.overlays /\ listening' \in BOOLEAN
        /\ ctl' = MarkOverlayStarted(d.ctl, d.key) /\ Running(slot') /\ listening'
    BY <1>1, <1>3, <2>1, DecisionApplied
  <2>3. d.ctl \in Ctl /\ d.ctl.pending = NoKey BY <1>1, <2>1, CtlEdits
  <2>4. ctl' \in Ctl /\ ctl'.phase = "overlay" /\ ctl'.last = processed /\ ctl'.pending = NoKey
    BY <2>1, <2>2, <2>3, CtlEdits
  <2>5. Attuned(ctl', slot', listening') BY <2>2, <2>4 DEF Attuned
  <2>6. Tracks(ctl', processed) BY <2>1, <2>4, KeyValues DEF Tracks
  <2> QED BY <1>4, <2>1, <2>2, <2>4, <2>5, <2>6 DEF Consistent, CtlStep
<1>5. CASE ~HasPendingChain(props.policy, ctl)
  <2>1. d.kind = "start_recover" /\ d.ctl = [ctl EXCEPT !.phase = "recovering"]
    BY <1>2, <1>5
  <2>9. "recovering" \in Phases BY DEF Phases
  <2>2. /\ slot' \in Slot /\ slot'.base /\ slot'.overlays /\ listening' = listening
        /\ ctl' = d.ctl /\ Receding(slot')
    BY <1>1, <1>3, <2>1, DecisionApplied
  <2>3. /\ ctl' \in Ctl /\ ctl'.phase = "recovering" /\ ctl'.last = ctl.last
        /\ ctl'.pending = ctl.pending
    BY <1>1, <2>1, <2>2, PhaseEdits, <2>9
  <2>4. Attuned(ctl', slot', listening') BY <2>2, <2>3 DEF Attuned
  <2>5. Tracks(ctl', processed) BY <1>1, <2>3, ResetCtl DEF Tracks
  <2> QED BY <1>1, <2>2, <2>3, <2>4, <2>5 DEF Consistent, CtlStep
<1> QED BY <1>4, <1>5

LEMMA Recovered ==
  ASSUME NEW s \in Slot, ctl \in Ctl, listening \in BOOLEAN, Tracks(ctl, processed),
         processed \in Keys \cup {NoKey},
         s.overlays, s.base, ctl.phase = "recovering",
         applyOverlayDecision(OnRecoverComplete(ctl), s)
  PROVE  /\ Consistent(ctl', slot', listening', processed)
         /\ slot'.base /\ slot'.overlays
         /\ CtlStep(ctl, ctl')
<1> DEFINE d == OnRecoverComplete(ctl)
           b == [Forget(ctl) EXCEPT !.phase = "base"]
<1>1. ctl \in Ctl /\ listening \in BOOLEAN /\ Tracks(ctl, processed) OBVIOUS
<1>2. /\ d.ctl = b /\ processed \in Keys
      /\ \/ d.kind = "play_from_base" /\ d.key = processed /\ ctl.last \in Keys /\ ctl.last < processed
         \/ d.kind = "ignore" /\ ctl.last = processed
  BY <1>1, RecoverDecides
<1>3. applyOverlayDecision(d, s) OBVIOUS
<1>4. b \in Ctl /\ b.phase = "base" /\ b.last = ctl.last /\ b.pending = NoKey
  <2> DEFINE f == Forget(ctl)
  <2>1. f \in Ctl /\ f.last = ctl.last /\ f.pending = NoKey BY <1>1, CtlEdits
  <2> HIDE DEF f
  <2>2. b = [f EXCEPT !.phase = "base"] BY DEF f
  <2> HIDE DEF b
  <2>3. "base" \in Phases BY DEF Phases
  <2> QED BY <2>1, <2>2, <2>3, PhaseEdits
<1> HIDE DEF d, b
<1>5. CASE d.kind = "play_from_base"
  <2>1. d.key = processed /\ ctl.last \in Keys /\ ctl.last < processed BY <1>2, <1>5
  <2>2. /\ slot' \in Slot /\ slot'.base /\ slot'.overlays /\ listening' \in BOOLEAN
        /\ ctl' = MarkOverlayStarted(d.ctl, d.key) /\ Running(slot') /\ listening'
    BY <1>1, <1>3, <1>5, DecisionApplied
  <2>3. ctl' \in Ctl /\ ctl'.phase = "overlay" /\ ctl'.last = processed /\ ctl'.pending = NoKey
    BY <1>2, <1>4, <2>1, <2>2, CtlEdits
  <2>4. Attuned(ctl', slot', listening') BY <2>2, <2>3 DEF Attuned
  <2>5. Tracks(ctl', processed) BY <1>2, <2>3, KeyValues DEF Tracks
  <2> QED BY <1>2, <2>1, <2>2, <2>3, <2>4, <2>5 DEF Consistent, CtlStep
<1>6. CASE d.kind = "ignore"
  <2>1. slot' = s /\ ctl' = b /\ listening' = listening
    BY <1>1, <1>2, <1>3, <1>6, DecisionApplied
  <2>2. Attuned(ctl', slot', listening') BY <1>4, <2>1 DEF Attuned
  <2>3. Tracks(ctl', processed) BY <1>2, <1>4, <1>6, <2>1, KeyValues DEF Tracks
  <2> QED BY <1>1, <1>4, <2>1, <2>2, <2>3 DEF Consistent, CtlStep
<1> QED BY <1>2, <1>5, <1>6

-----------------------------------------------------------------------------
(* A frame's steps on the layers *)

(* mixer.update: the active clip goes on as it was, or comes to its end.   *)
LEMMA MixerMoves ==
  ASSUME NEW s \in Slot, NEW dt \in Nat \ {0}
  PROVE  LET m == [s EXCEPT !.act = [l \in Layers |->
                     Weighed(IF l = "base" THEN s.act[l] ELSE Moved(s.act[l], dt), dt)]]
         IN  /\ m \in Slot /\ m.base = s.base /\ m.overlays = s.overlays /\ m.active = s.active
             /\ Receding(s) => Receding(m)
             /\ Running(s) /\ ~m.act[s.active].paused => Running(m)
<1> DEFINE f == [l \in Layers |-> Weighed(IF l = "base" THEN s.act[l] ELSE Moved(s.act[l], dt), dt)]
           m == [s EXCEPT !.act = f]
           a == s.act[s.active]
           b == Moved(a, dt)
           c == Weighed(b, dt)
<1>1. a \in Action /\ s.active \in Layers /\ s.active # "base" BY SlotType
<1>2. /\ b \in Action /\ b.on = a.on /\ b.enabled = a.enabled /\ b.fade = a.fade /\ b.eff = a.eff
  BY <1>1, MovedType
<1>3. f \in [Layers -> Action]
  <2>1. ASSUME NEW l \in Layers
        PROVE  Weighed(IF l = "base" THEN s.act[l] ELSE Moved(s.act[l], dt), dt) \in Action
    <3>1. s.act[l] \in Action /\ Moved(s.act[l], dt) \in Action BY SlotType, MovedType
    <3>2. CASE l = "base" BY <3>1, <3>2, WeighedType
    <3>3. CASE l # "base" BY <3>1, <3>3, WeighedType
    <3> QED BY <3>2, <3>3
  <2> QED BY <2>1
<1>4. f[s.active] = c BY <1>1
<1> HIDE DEF b
<1>5. /\ c.on = b.on /\ c.paused = b.paused /\ c.time = b.time
      /\ b.fade # "out" => c.fade # "out" /\ c.enabled = b.enabled
      /\ b.on /\ (b.fade = "out" \/ (~b.enabled /\ b.eff = 0)) =>
           c.fade = "out" \/ (~c.enabled /\ c.eff = 0)
  BY <1>2, WeighedType
<1> HIDE DEF c, f
<1>6. m \in Slot /\ m.base = s.base /\ m.overlays = s.overlays /\ m.active = s.active /\ m.act = f
  BY <1>3 DEF Slot
<1> HIDE DEF m
<1>7. Receding(s) => Receding(m) BY <1>2, <1>4, <1>5, <1>6 DEF Receding
<1>8. Running(s) /\ ~m.act[s.active].paused => Running(m)
  BY <1>2, <1>4, <1>5, <1>6 DEF Running, isRunning
<1> QED BY <1>6, <1>7, <1>8 DEF m, f

LEMMA LayersTended ==
  ASSUME NEW s \in Slot
  PROVE  LET t == reinforceMinimumPoseWeight(silenceInactiveOverlays(enforceBaseLayer(s)))
         IN  /\ t \in Slot /\ t.base = s.base /\ t.overlays = s.overlays
             /\ s.base => SameActive(s, t)
<1> DEFINE e == enforceBaseLayer(s)
           f == silenceInactiveOverlays(e)
           t == reinforceMinimumPoseWeight(f)
<1>1. SameActive(s, e) BY EnforceBase, SameOverlaysActive
<1>2. SameActive(e, f) BY <1>1, SilenceInactive DEF SameActive
<1> HIDE DEF e
<1>3. f \in Slot /\ f.base = s.base /\ f.overlays = s.overlays BY <1>1, <1>2 DEF SameActive
<1> HIDE DEF f
<1>4. t \in Slot /\ t.base = s.base /\ t.overlays = s.overlays /\ (s.base => SameOverlays(f, t))
  BY <1>3, ReinforceMinimum
<1> HIDE DEF t
<1>5. s.base => SameActive(s, t)
  <2> HAVE s.base
  <2>1. SameActive(f, t) BY <1>3, <1>4, SameOverlaysActive
  <2>2. SameActive(s, f) BY <1>1, <1>2, SameActiveChains
  <2> QED BY <2>1, <2>2, SameActiveChains
<1> QED BY <1>4, <1>5 DEF t, f, e

LEMMA AttunedKept ==
  ASSUME NEW s, NEW t, SameActive(s, t), NEW c, NEW l
  PROVE  Attuned(c, s, l) => Attuned(c, t, l)
BY SameActivePhases DEF Attuned

-----------------------------------------------------------------------------
(* The inductive invariant *)

(* Loads are answered once, for an avatar that is there; until its base and *)
(* its overlays are, nothing has been requested.                           *)
LoadsInOrder ==
  /\ vrm => mounted
  /\ mounted /\ ~vrm => loads \subseteq {"model"}
  /\ "model" \in loads => loads = {"model"} /\ ~vrm
  /\ "overlay" \in loads /\ mounted => ~slot.overlays
  /\ "idle" \in loads => props.profile = "showcase" /\ (mounted => ~slot.base)
  /\ ~vrm => ~slot.base /\ ~slot.overlays /\ ~listening
  /\ (slot.base /\ slot.overlays) \/ processed = NoKey

(* Requests are handed over in the order of the attacks. *)
KeysInOrder == processed # NoKey => actionKey # NoKey /\ processed <= actionKey

AvatarInv ==
  /\ TypeOK
  /\ LoadsInOrder
  /\ KeysInOrder
  /\ Consistent(ctl, slot, listening, processed)

(* What a step may do to the controller. *)
AvatarStep ==
  \/ mounted' = mounted /\ CtlStep(ctl, ctl')
  \/ mounted /\ ~mounted' /\ ctl' = Reset

(* The parts of the invariant, by name. *)
LEMMA InvParts ==
  ASSUME AvatarInv
  PROVE  /\ props.profile \in {"combat", "showcase"} /\ props.policy \in Policies
         /\ mounted \in BOOLEAN /\ vrm \in BOOLEAN /\ listening \in BOOLEAN /\ due \in BOOLEAN
         /\ slot \in Slot /\ ctl \in Ctl /\ processed \in Keys \cup {NoKey}
         /\ actionKey \in Keys \cup {NoKey}
         /\ Tracks(ctl, processed) /\ Attuned(ctl, slot, listening)
BY DEF AvatarInv, TypeOK, Consistent

(* With nothing requested the controller rests, and any layers suit it. *)
LEMMA AtRest ==
  ASSUME NEW s \in Slot, NEW l \in BOOLEAN
  PROVE  Consistent(Reset, s, l, NoKey)
BY ResetCtl DEF Consistent, Attuned, Tracks

LEMMA NothingRequested ==
  ASSUME AvatarInv, ~slot.base \/ ~slot.overlays
  PROVE  processed = NoKey /\ ctl = Reset
BY DEF AvatarInv, LoadsInOrder, Consistent, Tracks

LEMMA EmptySlotType ==
  EmptySlot \in Slot /\ ~EmptySlot.base /\ ~EmptySlot.overlays
<1>1. clipAction \in Action
  <2>1. 0 \in 0..ClipTicks BY Durations
  <2> QED BY <2>1 DEF clipAction, Action
<1>2. [l \in Layers |-> clipAction] \in [Layers -> Action] BY <1>1
<1> QED BY <1>2 DEF EmptySlot, Slot

(* A step of the frame, or of the effect, that keeps them consistent. *)
LEMMA FrameKept ==
  ASSUME AvatarInv, UNCHANGED <<props, mounted, vrm, loads, actionKey>>, due' \in BOOLEAN,
         processed' \in {processed, actionKey}, frame' \in Steps,
         slot'.base = slot.base, slot'.overlays = slot.overlays,
         listening' # listening \/ processed' # processed => slot.overlays /\ slot.base,
         processed' # NoKey => actionKey # NoKey /\ processed' <= actionKey,
         Consistent(ctl', slot', listening', processed')
  PROVE  AvatarInv'
<1>1. TypeOK'
  <2>1. slot' \in Slot /\ ctl' \in Ctl /\ listening' \in BOOLEAN BY DEF Consistent
  <2>2. processed' \in Keys \cup {NoKey} BY InvParts
  <2> QED BY <2>1, <2>2 DEF AvatarInv, TypeOK, Ctl
<1>2. LoadsInOrder' BY DEF AvatarInv, LoadsInOrder
<1>3. KeysInOrder' BY DEF KeysInOrder
<1> QED BY <1>1, <1>2, <1>3 DEF AvatarInv

(* The same for a step that leaves the layers and the controller alone. *)
LEMMA OthersKept ==
  ASSUME AvatarInv, UNCHANGED <<slot, ctl, listening, processed>>
  PROVE  Consistent(ctl', slot', listening', processed')
BY DEF AvatarInv

LEMMA AvatarStarts == ASSUME Init PROVE AvatarInv
<1>1. TypeOK
  <2>1. slot \in Slot BY EmptySlotType DEF Init
  <2>2. actionKey \in Keys \cup {NoKey}
    <3>1. 0 \in Keys BY AvatarAssumption DEF Keys
    <3> QED BY <3>1 DEF Init
  <2>3. ctl \in [phase: Phases, last: Keys \cup {NoKey}, pending: Keys \cup {NoKey}]
    BY ResetCtl DEF Init, Ctl
  <2> QED BY <2>1, <2>2, <2>3 DEF Init, TypeOK, Steps
<1>2. LoadsInOrder BY EmptySlotType DEF Init, LoadsInOrder
<1>3. KeysInOrder BY DEF Init, KeysInOrder
<1>4. Consistent(ctl, slot, listening, processed) BY EmptySlotType, AtRest DEF Init
<1> QED BY <1>1, <1>2, <1>3, <1>4 DEF AvatarInv

-----------------------------------------------------------------------------
(* Every step keeps it *)

LEMMA ModelLoadedKeeps == ASSUME AvatarInv, ModelLoaded PROVE AvatarInv' /\ AvatarStep
<1>1. ctl = Reset /\ processed = NoKey /\ ~vrm /\ loads = {"model"}
  BY NothingRequested DEF AvatarInv, LoadsInOrder, ModelLoaded
<1>2. CASE mounted
  <2>1. /\ vrm' = TRUE /\ ctl' = Reset /\ slot' = EmptySlot /\ listening' = FALSE /\ processed' = NoKey
        /\ loads' = IF props.profile = "combat" THEN {"overlay"} ELSE {"idle", "overlay"}
        /\ UNCHANGED <<props, mounted, actionKey, due, frame>>
    BY <1>2 DEF ModelLoaded, resetOverlaySystem
  <2>2. TypeOK' BY <2>1, EmptySlotType, ResetCtl DEF AvatarInv, TypeOK, Ctl
  <2>3. LoadsInOrder' BY <1>2, <2>1, EmptySlotType, InvParts DEF LoadsInOrder
  <2>4. KeysInOrder' BY <2>1 DEF KeysInOrder
  <2>5. Consistent(ctl', slot', listening', processed')
    BY <2>1, EmptySlotType, AtRest
  <2> QED BY <1>1, <2>1, <2>2, <2>3, <2>4, <2>5 DEF AvatarInv, AvatarStep, CtlStep
<1>3. CASE ~mounted
  <2>1. loads' = {} /\ UNCHANGED <<vrm, slot, ctl, listening, processed, props, mounted, actionKey, due, frame>>
    BY <1>1, <1>3 DEF ModelLoaded
  <2>2. TypeOK' BY <2>1 DEF AvatarInv, TypeOK
  <2>3. LoadsInOrder' BY <1>1, <1>3, <2>1 DEF AvatarInv, LoadsInOrder
  <2>4. KeysInOrder' BY <2>1 DEF AvatarInv, KeysInOrder
  <2>5. Consistent(ctl', slot', listening', processed') BY <2>1, OthersKept
  <2> QED BY <2>1, <2>2, <2>3, <2>4, <2>5 DEF AvatarInv, AvatarStep, CtlStep
<1> QED BY <1>2, <1>3, InvParts

(* A load that answers, whatever it leaves of the layers. *)
LEMMA LoadKeeps ==
  ASSUME AvatarInv, NEW l \in loads, l # "model", loads' = loads \ {l},
         UNCHANGED <<props, mounted, vrm, ctl, listening, actionKey, processed, frame>>,
         due' \in BOOLEAN, slot' \in Slot,
         slot' # slot => mounted /\ (~slot.base \/ ~slot.overlays),
         slot.base => slot'.base, slot.overlays => slot'.overlays,
         slot'.overlays # slot.overlays => l = "overlay",
         slot'.base # slot.base => l = "idle" \/ props.profile = "combat"
  PROVE  AvatarInv' /\ AvatarStep
<1>1. TypeOK' BY DEF AvatarInv, TypeOK
<1>2. "model" \notin loads /\ (mounted => vrm) /\ (vrm => mounted)
  BY InvParts DEF AvatarInv, LoadsInOrder
<1>3. LoadsInOrder'
  BY <1>2, InvParts DEF AvatarInv, LoadsInOrder
<1>4. KeysInOrder' BY DEF AvatarInv, KeysInOrder
<1>5. Consistent(ctl', slot', listening', processed')
  <2>1. CASE slot' = slot BY <2>1, OthersKept
  <2>2. CASE slot' # slot
    <3>1. processed = NoKey /\ ctl = Reset BY <2>2, NothingRequested
    <3> QED BY <3>1, AtRest, InvParts
  <2> QED BY <2>1, <2>2
<1> QED BY <1>1, <1>3, <1>4, <1>5 DEF AvatarInv, AvatarStep, CtlStep

LEMMA LoadsKeep ==
  ASSUME AvatarInv, IdleLoaded \/ OverlayLoaded \/ \E l \in loads : LoadFails(l)
  PROVE  AvatarInv' /\ AvatarStep
<1>1. clipAction \in Action /\ play(clipAction) \in Action /\ Layers = {"base", "A", "B"}
  <2>1. slot.act["base"] \in Action BY InvParts, SlotType
  <2> QED BY <2>1, ActionEdits DEF Layers
<1>2. CASE IdleLoaded
  <2>1. "idle" \in loads /\ loads' = loads \ {"idle"} /\ (mounted => ~slot.base)
        /\ UNCHANGED <<props, mounted, vrm, ctl, listening, actionKey, processed, frame>>
    BY <1>2 DEF AvatarInv, LoadsInOrder, IdleLoaded
  <2>2. CASE mounted
    <3>1. slot' = [slot EXCEPT !.base = TRUE, !.act["base"] = play(clipAction)] /\ due' = TRUE
      BY <1>2, <2>2 DEF IdleLoaded
    <3>2. slot' \in Slot /\ slot'.base /\ slot'.overlays = slot.overlays
      BY <1>1, <3>1, InvParts DEF Slot
    <3> QED BY <2>1, <2>2, <3>1, <3>2, LoadKeeps
  <2>3. CASE ~mounted
    <3>1. slot' = slot /\ due' = due BY <1>2, <2>3 DEF IdleLoaded
    <3> QED BY <2>1, <3>1, LoadKeeps, InvParts
  <2> QED BY <2>2, <2>3, InvParts
<1>3. CASE OverlayLoaded
  <2>1. "overlay" \in loads /\ loads' = loads \ {"overlay"} /\ (mounted => ~slot.overlays)
        /\ UNCHANGED <<props, mounted, vrm, ctl, listening, actionKey, processed, frame>>
    BY <1>3 DEF AvatarInv, LoadsInOrder, OverlayLoaded
  <2>2. CASE mounted
    <3> DEFINE t == [slot EXCEPT !.overlays = TRUE, !.active = "A",
                                 !.act["A"] = clipAction, !.act["B"] = clipAction]
               u == [t EXCEPT !.base = TRUE, !.act["base"] = play(clipAction)]
    <3>1. t \in Slot /\ t.overlays /\ t.base = slot.base
      BY <1>1, InvParts DEF Slot
    <3>2. due' = TRUE /\ slot' = IF props.profile = "combat" THEN u ELSE t
      BY <1>3, <2>2 DEF OverlayLoaded
    <3> HIDE DEF t
    <3>3. u \in Slot /\ u.overlays /\ u.base BY <1>1, <3>1 DEF Slot
    <3> HIDE DEF u
    <3>4. slot' \in Slot /\ slot'.overlays /\ (slot.base => slot'.base)
          /\ (slot'.base # slot.base => props.profile = "combat")
      BY <3>1, <3>2, <3>3
    <3> QED BY <2>1, <2>2, <3>2, <3>4, LoadKeeps
  <2>3. CASE ~mounted
    <3>1. slot' = slot /\ due' = due BY <1>3, <2>3 DEF OverlayLoaded
    <3> QED BY <2>1, <3>1, LoadKeeps, InvParts
  <2> QED BY <2>2, <2>3, InvParts
<1>4. ASSUME NEW l \in loads, LoadFails(l) PROVE AvatarInv' /\ AvatarStep
  <2>1. loads' = loads \ {l}
        /\ UNCHANGED <<props, mounted, vrm, slot, ctl, listening, actionKey, processed, due, frame>>
    BY <1>4 DEF LoadFails
  <2>2. CASE l # "model" BY <2>1, <2>2, LoadKeeps, InvParts
  <2>3. CASE l = "model"
    <3>1. loads' = {} BY <2>1, <2>3 DEF AvatarInv, LoadsInOrder
    <3>2. TypeOK' BY <2>1, <3>1 DEF AvatarInv, TypeOK
    <3>3. LoadsInOrder' BY <2>1, <3>1 DEF AvatarInv, LoadsInOrder
    <3>4. KeysInOrder' BY <2>1 DEF AvatarInv, KeysInOrder
    <3>5. Consistent(ctl', slot', listening', processed') BY <2>1, OthersKept
    <3> QED BY <2>1, <3>2, <3>3, <3>4, <3>5 DEF AvatarInv, AvatarStep, CtlStep
  <2> QED BY <2>2, <2>3
<1> QED BY <1>2, <1>3, <1>4

LEMMA AttackKeeps ==
  ASSUME AvatarInv, NEW k \in Keys, Attack(k)
  PROVE  AvatarInv' /\ AvatarStep
<1>1. /\ UNCHANGED <<props, mounted, vrm, loads, slot, ctl, listening, processed, frame>>
      /\ actionKey' = k /\ due' = TRUE /\ (actionKey # NoKey => k > actionKey)
  BY DEF Attack
<1>2. TypeOK' BY <1>1 DEF AvatarInv, TypeOK
<1>3. LoadsInOrder' BY <1>1 DEF AvatarInv, LoadsInOrder
<1>4. KeysInOrder'
  <2>1. processed # NoKey => processed \in Nat /\ actionKey \in Nat /\ processed <= actionKey /\ k > actionKey
    BY <1>1, InvParts, KeyValues DEF AvatarInv, KeysInOrder
  <2>2. k \in Nat /\ k # NoKey BY KeyValues
  <2> QED BY <1>1, <2>1, <2>2 DEF KeysInOrder
<1>5. Consistent(ctl', slot', listening', processed') BY <1>1, OthersKept
<1> QED BY <1>1, <1>2, <1>3, <1>4, <1>5 DEF AvatarInv, AvatarStep, CtlStep

LEMMA UnmountKeeps == ASSUME AvatarInv, Unmount PROVE AvatarInv' /\ AvatarStep
<1>1. /\ mounted /\ mounted' = FALSE /\ vrm' = FALSE /\ due' = FALSE
      /\ ctl' = Reset /\ slot' = EmptySlot /\ listening' = FALSE /\ processed' = NoKey
      /\ UNCHANGED <<props, loads, actionKey, frame>>
  BY DEF Unmount, resetOverlaySystem
<1>2. TypeOK' BY <1>1, EmptySlotType, ResetCtl DEF AvatarInv, TypeOK, Ctl
<1>3. LoadsInOrder' BY <1>1, EmptySlotType DEF AvatarInv, LoadsInOrder
<1>4. KeysInOrder' BY <1>1 DEF KeysInOrder
<1>5. Consistent(ctl', slot', listening', processed') BY <1>1, EmptySlotType, AtRest
<1> QED BY <1>1, <1>2, <1>3, <1>4, <1>5 DEF AvatarInv, AvatarStep

(* A request is handed over once, and never an older one. *)
LEMMA RequestKeeps == ASSUME AvatarInv, RequestEffect PROVE AvatarInv' /\ AvatarStep
<1>1. UNCHANGED <<props, mounted, vrm, loads, actionKey, frame>> /\ due' = FALSE
  BY DEF RequestEffect
<1>2. frame' \in Steps /\ frame = "idle" BY <1>1 DEF RequestEffect, Steps
<1>3. CASE actionKey = NoKey \/ ~slot.overlays \/ ~slot.base \/ processed = actionKey
  <2>1. UNCHANGED <<slot, ctl, listening, processed>> BY <1>3 DEF RequestEffect
  <2>2. Consistent(ctl', slot', listening', processed') BY <2>1, OthersKept
  <2>3. processed' # NoKey => actionKey # NoKey /\ processed' <= actionKey
    BY <2>1 DEF AvatarInv, KeysInOrder
  <2> QED BY <1>1, <1>2, <2>1, <2>2, <2>3, FrameKept DEF AvatarStep, CtlStep
<1>4. CASE ~(actionKey = NoKey \/ ~slot.overlays \/ ~slot.base \/ processed = actionKey)
  <2>1. processed' = actionKey /\ applyOverlayDecision(Request(props.policy, ctl, actionKey), slot)
    BY <1>4 DEF RequestEffect
  <2>2. actionKey \in Keys /\ processed \in Keys \cup {NoKey} /\ props.policy \in Policies
    BY <1>4, InvParts
  <2>3. processed # NoKey => processed < actionKey
    BY <1>4, <2>2, KeyValues DEF AvatarInv, KeysInOrder
  <2>4. Consistent(ctl, slot, listening, processed) BY DEF AvatarInv
  <2>5. /\ Consistent(ctl', slot', listening', actionKey)
        /\ slot'.base /\ slot'.overlays
        /\ CtlStep(ctl, ctl')
    BY <1>4, <2>1, <2>2, <2>3, <2>4, Requested
  <2>6. AvatarInv'
    <3>1. slot'.base = slot.base /\ slot'.overlays = slot.overlays
      BY <1>4, <2>5, InvParts, SlotType DEF Consistent
    <3>2. actionKey <= actionKey BY <2>2, KeyValues
    <3> QED BY <1>1, <1>2, <1>4, <2>1, <2>5, <3>1, <3>2, FrameKept
  <2> QED BY <1>1, <2>5, <2>6 DEF AvatarStep
<1> QED BY <1>3, <1>4

(* A frame's steps leave these alone. *)
FrameFrame ==
  /\ UNCHANGED <<props, mounted, vrm, loads, actionKey, processed, due>>
  /\ frame' \in Steps

(* The facts every step of a frame needs. *)
LEMMA FrameStep ==
  ASSUME AvatarInv, FrameFrame,
         slot'.base = slot.base, slot'.overlays = slot.overlays,
         listening' # listening => slot.overlays /\ slot.base,
         Consistent(ctl', slot', listening', processed)
  PROVE  AvatarInv'
<1>1. due' \in BOOLEAN /\ processed' = processed BY InvParts DEF FrameFrame
<1>2. processed' # NoKey => actionKey # NoKey /\ processed' <= actionKey
  BY <1>1 DEF AvatarInv, KeysInOrder
<1> QED BY <1>1, <1>2, FrameKept DEF FrameFrame

LEMMA FrameStartKeeps == ASSUME AvatarInv, FrameStart PROVE AvatarInv' /\ AvatarStep
<1>1. FrameFrame BY DEF FrameStart, FrameFrame, Steps
<1> DEFINE early == ctl.phase = "overlay" /\ HasPendingChain(props.policy, ctl) /\ slot.overlays
                      /\ shouldChainOverlayEarly(slot)
<1>2. CASE early
  <2>1. applyOverlayDecision(OnOverlayEnded(props.policy, ctl), slot) BY <1>2 DEF FrameStart
  <2>2. slot.base BY <1>2, InvParts DEF Attuned, Running
  <2>3. /\ Consistent(ctl', slot', listening', processed) /\ slot'.base /\ slot'.overlays
        /\ CtlStep(ctl, ctl')
    BY <1>2, <2>1, <2>2, InvParts, Ended
  <2>4. slot'.base = slot.base /\ slot'.overlays = slot.overlays
    BY <1>2, <2>2, <2>3, InvParts, SlotType DEF Consistent
  <2>5. AvatarInv' BY <1>1, <1>2, <2>2, <2>3, <2>4, FrameStep
  <2> QED BY <1>1, <1>2, <2>3, <2>5 DEF AvatarStep, FrameFrame
<1>3. CASE ~early
  <2>1. UNCHANGED <<slot, ctl, listening>> BY <1>3 DEF FrameStart
  <2>2. Consistent(ctl', slot', listening', processed) BY <2>1 DEF AvatarInv
  <2> QED BY <1>1, <2>1, <2>2, FrameStep DEF AvatarStep, CtlStep, FrameFrame
<1> QED BY <1>2, <1>3

LEMMA MixerKeeps ==
  ASSUME AvatarInv, NEW dt \in Deltas, MixerUpdate(dt)
  PROVE  AvatarInv' /\ AvatarStep
<1> DEFINE m == [slot EXCEPT !.act = [l \in Layers |->
                   Weighed(IF l = "base" THEN slot.act[l] ELSE Moved(slot.act[l], dt), dt)]]
           over == slot.overlays /\ m.act[slot.active].paused /\ ~slot.act[slot.active].paused
<1>1. /\ IF over /\ listening
         THEN applyOverlayDecision(OnOverlayEnded(props.policy, ctl), m)
         ELSE slot' = m /\ UNCHANGED <<ctl, listening>>
      /\ FrameFrame
  BY DEF MixerUpdate, FrameFrame, Steps
<1>2. dt \in Nat \ {0} BY AvatarAssumption
<1>3. /\ m \in Slot /\ m.base = slot.base /\ m.overlays = slot.overlays /\ m.active = slot.active
      /\ Receding(slot) => Receding(m)
      /\ Running(slot) /\ ~m.act[slot.active].paused => Running(m)
  BY <1>2, InvParts, MixerMoves
<1>4. Running(slot) => ~slot.act[slot.active].paused /\ slot.overlays /\ slot.base
  BY DEF Running, isRunning
<1> HIDE DEF m
<1>5. CASE over /\ listening /\ ctl.phase = "overlay"
  <2>1. applyOverlayDecision(OnOverlayEnded(props.policy, ctl), m) BY <1>1, <1>5
  <2>2. m.base /\ m.overlays BY <1>3, <1>4, <1>5, InvParts DEF Attuned
  <2>3. /\ Consistent(ctl', slot', listening', processed) /\ slot'.base /\ slot'.overlays
        /\ CtlStep(ctl, ctl')
    BY <1>3, <1>5, <2>1, <2>2, InvParts, Ended
  <2>4. slot'.base = slot.base /\ slot'.overlays = slot.overlays
    BY <1>3, <2>2, <2>3, InvParts, SlotType DEF Consistent
  <2>5. AvatarInv' BY <1>1, <1>3, <2>2, <2>3, <2>4, FrameStep
  <2> QED BY <1>1, <2>3, <2>5 DEF AvatarStep, FrameFrame
<1>6. CASE ~(over /\ listening /\ ctl.phase = "overlay")
  <2>1. slot' = m /\ ctl' = ctl /\ listening' = listening
    <3>1. CASE over /\ listening
      <4> DEFINE d == OnOverlayEnded(props.policy, ctl)
      <4>1. d = Ignore(ctl) BY <1>6, <3>1 DEF OnOverlayEnded
      <4>2. d.kind = "ignore" /\ d.ctl = ctl BY <4>1 DEF Ignore
      <4>3. applyOverlayDecision(d, m) BY <1>1, <3>1
      <4> HIDE DEF d
      <4> QED BY <1>3, <4>2, <4>3, InvParts, DecisionApplied
    <3>2. CASE ~(over /\ listening) BY <1>1, <3>2
    <3> QED BY <3>1, <3>2
  <2>2. Attuned(ctl, m, listening)
    <3>1. ctl.phase = "overlay" => Running(slot) /\ listening /\ ~m.act[slot.active].paused
      BY <1>4, <1>6, InvParts DEF Attuned
    <3> QED BY <1>3, <3>1, InvParts DEF Attuned
  <2>3. Consistent(ctl', slot', listening', processed) BY <1>3, <2>1, <2>2, InvParts DEF Consistent
  <2> QED BY <1>1, <1>3, <2>1, <2>3, FrameStep DEF AvatarStep, CtlStep, FrameFrame
<1> QED BY <1>5, <1>6

LEMMA TendKeeps == ASSUME AvatarInv, TendLayers PROVE AvatarInv' /\ AvatarStep
<1>1. /\ FrameFrame /\ UNCHANGED <<ctl, listening>>
      /\ slot' = reinforceMinimumPoseWeight(silenceInactiveOverlays(enforceBaseLayer(slot)))
  BY DEF TendLayers, FrameFrame, Steps
<1>2. /\ slot' \in Slot /\ slot'.base = slot.base /\ slot'.overlays = slot.overlays
      /\ slot.base => SameActive(slot, slot')
  BY <1>1, InvParts, LayersTended
<1>3. Attuned(ctl, slot', listening)
  <2>1. CASE slot.base BY <1>2, <2>1, InvParts, AttunedKept
  <2>2. CASE ~slot.base BY <2>2, InvParts DEF Attuned, Running, Receding
  <2> QED BY <2>1, <2>2
<1>4. Consistent(ctl', slot', listening', processed) BY <1>1, <1>2, <1>3, InvParts DEF Consistent
<1> QED BY <1>1, <1>2, <1>4, FrameStep DEF AvatarStep, CtlStep, FrameFrame

LEMMA EndedKeeps == ASSUME AvatarInv, CheckEnded PROVE AvatarInv' /\ AvatarStep
<1>1. FrameFrame BY DEF CheckEnded, FrameFrame, Steps
<1> DEFINE ended == ctl.phase = "overlay" /\ slot.overlays
                      /\ isOverlayClipFullyEnded(slot, HasPendingChain(props.policy, ctl))
<1>2. CASE ended
  <2>1. applyOverlayDecision(OnOverlayEnded(props.policy, ctl), slot) BY <1>2 DEF CheckEnded
  <2>2. slot.base BY <1>2, InvParts DEF Attuned, Running
  <2>3. /\ Consistent(ctl', slot', listening', processed) /\ slot'.base /\ slot'.overlays
        /\ CtlStep(ctl, ctl')
    BY <1>2, <2>1, <2>2, InvParts, Ended
  <2>4. slot'.base = slot.base /\ slot'.overlays = slot.overlays
    BY <1>2, <2>2, <2>3, InvParts, SlotType DEF Consistent
  <2>5. AvatarInv' BY <1>1, <1>2, <2>2, <2>3, <2>4, FrameStep
  <2> QED BY <1>1, <2>3, <2>5 DEF AvatarStep, FrameFrame
<1>3. CASE ~ended
  <2>1. UNCHANGED <<slot, ctl, listening>> BY <1>3 DEF CheckEnded
  <2>2. Consistent(ctl', slot', listening', processed) BY <2>1 DEF AvatarInv
  <2> QED BY <1>1, <2>1, <2>2, FrameStep DEF AvatarStep, CtlStep, FrameFrame
<1> QED BY <1>2, <1>3

LEMMA RecoveredKeeps == ASSUME AvatarInv, CheckRecovered PROVE AvatarInv' /\ AvatarStep
<1>1. FrameFrame BY DEF CheckRecovered, FrameFrame, Steps
<1> DEFINE e == enforceBaseLayer(slot)
           back == ctl.phase = "recovering" /\ slot.base /\ slot.overlays
                     /\ slot.act[slot.active].eff = 0 /\ slot.act["base"].eff = 2
<1>2. /\ e \in Slot /\ e.base = slot.base /\ e.overlays = slot.overlays
  BY InvParts, EnforceBase DEF SameOverlays
<1>3. CASE back
  <2>1. applyOverlayDecision(OnRecoverComplete(ctl), e) BY <1>3 DEF CheckRecovered
  <2> HIDE DEF e
  <2>2. /\ Consistent(ctl', slot', listening', processed) /\ slot'.base /\ slot'.overlays
        /\ CtlStep(ctl, ctl')
    BY <1>2, <1>3, <2>1, InvParts, Recovered
  <2>3. slot'.base = slot.base /\ slot'.overlays = slot.overlays
    BY <1>3, <2>2, InvParts, SlotType DEF Consistent
  <2>4. AvatarInv' BY <1>1, <1>3, <2>2, <2>3, FrameStep
  <2> QED BY <1>1, <1>3, <2>2, <2>4 DEF AvatarStep, FrameFrame
<1>4. CASE ~back
  <2>1. ctl' = ctl /\ listening' = listening /\ slot' = IF ctl.phase = "base" THEN e ELSE slot
    BY <1>4 DEF CheckRecovered
  <2> HIDE DEF e
  <2>2. Consistent(ctl', slot', listening', processed)
    BY <1>2, <2>1, InvParts DEF Consistent, Attuned
  <2> QED BY <1>1, <1>2, <2>1, <2>2, FrameStep DEF AvatarStep, CtlStep, FrameFrame
<1> QED BY <1>3, <1>4

LEMMA AvatarKeeps ==
  ASSUME AvatarInv, [Next]_vars
  PROVE  AvatarInv' /\ AvatarStep
<1>1. CASE UNCHANGED vars
  <2>1. UNCHANGED <<props, mounted, vrm, loads, slot, ctl, listening, actionKey, processed, due, frame>>
    BY <1>1 DEF vars
  <2>2. FrameFrame BY <2>1 DEF FrameFrame, AvatarInv, TypeOK
  <2>3. Consistent(ctl', slot', listening', processed) BY <2>1 DEF AvatarInv
  <2> QED BY <2>1, <2>2, <2>3, FrameStep DEF AvatarStep, CtlStep
<1>2. CASE ModelLoaded BY <1>2, ModelLoadedKeeps
<1>3. CASE IdleLoaded \/ OverlayLoaded \/ \E l \in loads : LoadFails(l) BY <1>3, LoadsKeep
<1>4. CASE \E k \in Keys : Attack(k) BY <1>4, AttackKeeps
<1>5. CASE RequestEffect BY <1>5, RequestKeeps
<1>6. CASE Unmount BY <1>6, UnmountKeeps
<1>7. CASE FrameStart BY <1>7, FrameStartKeeps
<1>8. CASE \E dt \in Deltas : MixerUpdate(dt) BY <1>8, MixerKeeps
<1>9. CASE TendLayers BY <1>9, TendKeeps
<1>10. CASE CheckEnded BY <1>10, EndedKeeps
<1>11. CASE CheckRecovered BY <1>11, RecoveredKeeps
<1> QED
  BY <1>1, <1>2, <1>3, <1>4, <1>5, <1>6, <1>7, <1>8, <1>9, <1>10, <1>11 DEF Next, Frame

LEMMA AvatarAlways == Spec => [](AvatarInv)
<1>1. Init => AvatarInv BY AvatarStarts
<1>2. AvatarInv /\ [Next]_vars => AvatarInv' BY AvatarKeeps
<1> QED BY <1>1, <1>2, PTL DEF Spec

-----------------------------------------------------------------------------
(* Theorems *)

(* The variables keep their types; a clip's time stays within the clip, and *)
(* a phase, a key or a step is one of those the code knows.                *)
THEOREM AvatarTypeCorrect == Spec => []TypeOK
<1>1. AvatarInv => TypeOK BY DEF AvatarInv
<1> QED BY <1>1, AvatarAlways, PTL

(* PhaseFollowsClip: the event the phase of the controller waits for is    *)
(* one that the mixer, or the frame, is going to see.                      *)
THEOREM PhaseAlwaysFollowsClip == Spec => []PhaseFollowsClip
<1>1. AvatarInv => PhaseFollowsClip
  BY InvParts DEF PhaseFollowsClip, Attuned, Running, Receding
<1> QED BY <1>1, AvatarAlways, PTL

(* NoRequestLost: between the effect that hands a request over and the     *)
(* controller that plays, queues and chains, none falls through.           *)
THEOREM NoRequestEverLost == Spec => []NoRequestLost
<1>1. AvatarInv => NoRequestLost BY InvParts DEF NoRequestLost, Tracks
<1> QED BY <1>1, AvatarAlways, PTL

(* QuietAfterUnmount: whatever loads are answered after the avatar has     *)
(* gone, and in whatever order.                                            *)
THEOREM QuietOnceUnmounted == Spec => []QuietAfterUnmount
<1>1. AvatarInv => QuietAfterUnmount
  BY NothingRequested DEF QuietAfterUnmount, AvatarInv, LoadsInOrder
<1> QED BY <1>1, AvatarAlways, PTL

(* PlaysOnce: the loads, the effect, the frames and the mixer implement    *)
(* the one-shot player; a load or a frame that decides nothing stutters.   *)
THEOREM AvatarPlaysOnce == Spec => PlaysOnce
<1>1. Init => OneShot!Init BY ResetCtl DEF Init, OneShot!Init
<1>2. AvatarInv /\ AvatarInv' /\ [Next]_vars => [OneShot!Next]_OneShot!vars
  <2> SUFFICES ASSUME AvatarInv, AvatarInv', [Next]_vars
               PROVE  OneShot!Next \/ UNCHANGED OneShot!vars
    OBVIOUS
  <2>1. AvatarStep BY AvatarKeeps
  <2>2. CASE mounted /\ ~mounted' /\ ctl' = Reset
    <3>1. mounted = TRUE /\ mounted' = FALSE BY <2>2, InvParts DEF AvatarInv, TypeOK
    <3>2. OneShot!Close BY <2>2, <3>1, ResetCtl DEF OneShot!Close
    <3> QED BY <3>2 DEF OneShot!Next
  <2>3. CASE mounted' = mounted /\ ~mounted
    <3>1. ctl = Reset BY <2>3, NothingRequested DEF AvatarInv, LoadsInOrder
    <3>2. ctl' = Reset
      <4>1. (~slot.base)' /\ (processed = NoKey)' BY <2>3 DEF AvatarInv, LoadsInOrder
      <4> QED BY <4>1 DEF AvatarInv, Consistent, Tracks
    <3> QED BY <2>3, <3>1, <3>2 DEF OneShot!vars
  <2>4. CASE mounted' = mounted /\ mounted /\ CtlStep(ctl, ctl')
    <3>1. CASE ctl'.phase = ctl.phase /\ ctl'.last = ctl.last BY <2>4, <3>1 DEF OneShot!vars
    <3>2. CASE ctl'.phase = "overlay" /\ ctl'.last \in Keys /\ (ctl.last # NoKey => ctl.last < ctl'.last)
      <4>1. ctl.last # NoKey => ctl'.last > ctl.last BY <3>2, InvParts, KeyValues, CtlEdits
      <4>2. OneShot!Play(ctl'.last) BY <2>4, <3>2, <4>1 DEF OneShot!Play
      <4> QED BY <3>2, <4>2 DEF OneShot!Next, Keys
    <3>3. CASE ctl.phase = "overlay" /\ ctl'.phase = "recovering" /\ ctl'.last = ctl.last
      BY <2>4, <3>3 DEF OneShot!Next, OneShot!End
    <3>4. CASE ctl.phase = "recovering" /\ ctl'.phase = "base" /\ ctl'.last = ctl.last
      BY <2>4, <3>4 DEF OneShot!Next, OneShot!Settle
    <3> QED BY <2>4, <3>1, <3>2, <3>3, <3>4 DEF CtlStep
  <2> QED BY <2>1, <2>2, <2>3, <2>4 DEF AvatarStep
<1> QED BY <1>1, <1>2, AvatarAlways, PTL DEF Spec, PlaysOnce, OneShot!Spec
-----------------------------------------------------------------------------
(* Nothing holds a clip up *)

(* The phase and its clip are what they were. *)
Stays == ctl.phase # "base" /\ ctl'.phase = ctl.phase /\ ctl'.last = ctl.last

LEMMA MixerAdvances ==
  ASSUME NEW a \in Action, NEW dt \in Nat \ {0}
  PROVE  LET w == Weighed(Moved(a, dt), dt)
         IN  /\ isRunning(a) /\ ~w.paused => w.time = a.time + dt
             /\ a.on /\ (a.fade = "out" \/ Gone(a)) =>
                  Gone(w) \/ (~Gone(a) /\ w.left = a.left - dt)
<1> DEFINE b == Moved(a, dt)
           w == Weighed(b, dt)
<1>1. /\ b \in Action /\ b.on = a.on /\ b.enabled = a.enabled /\ b.fade = a.fade /\ b.eff = a.eff
  BY MovedType
<1>2. isRunning(a) /\ ~b.paused => b.time = a.time + dt BY DEF Moved, Action
<1>3. b.left = a.left BY DEF Moved, Action
<1> HIDE DEF b
<1>4. w.paused = b.paused /\ w.time = b.time BY <1>1, WeighedType
<1>5. ASSUME a.on, a.fade = "out" \/ Gone(a)
      PROVE  Gone(w) \/ (~Gone(a) /\ w.left = a.left - dt)
  <2>1. CASE ~b.enabled
    <3>1. w = [b EXCEPT !.eff = 0] BY <1>1, <1>5, <2>1 DEF Weighed
    <3> HIDE DEF w
    <3> QED BY <1>1, <2>1, <3>1 DEF Gone, Action
  <2>2. CASE b.enabled /\ b.left > dt
    <3>1. a.fade = "out" /\ ~Gone(a) BY <1>1, <1>5, <2>2 DEF Gone
    <3>2. w = [b EXCEPT !.eff = b.weight, !.left = @ - dt] BY <1>1, <1>5, <2>2, <3>1 DEF Weighed
    <3> HIDE DEF w
    <3> QED BY <1>1, <1>3, <3>1, <3>2 DEF Action
  <2>3. CASE b.enabled /\ b.left <= dt
    <3>1. ~(b.left > dt) BY <1>1, <2>3 DEF Action
    <3>2. a.fade = "out" BY <1>1, <1>5, <2>3 DEF Gone
    <3>3. w = [b EXCEPT !.eff = 0, !.fade = "none", !.left = 0, !.enabled = FALSE]
      BY <1>1, <1>5, <2>3, <3>1, <3>2 DEF Weighed
    <3> HIDE DEF w
    <3> QED BY <1>1, <3>3 DEF Gone, Action
  <2> QED BY <1>1, <2>1, <2>2, <2>3 DEF Action
<1> QED BY <1>2, <1>4, <1>5 DEF b

(* A decision at the end of a clip, or of the way back, changes the phase  *)
(* or the clip; a request that does neither leaves the layers alone.       *)
LEMMA EndChanges ==
  ASSUME AvatarInv, NEW s \in Slot, ctl.phase = "overlay",
         applyOverlayDecision(OnOverlayEnded(props.policy, ctl), s)
  PROVE  ~Stays
<1> DEFINE d == OnOverlayEnded(props.policy, ctl)
<1>1. \/ d.kind = "play_chain" /\ d.key = processed /\ d.ctl = Forget(ctl)
         /\ ctl.last \in Keys /\ processed \in Keys /\ ctl.last < processed
      \/ d.kind = "start_recover" /\ d.ctl = [ctl EXCEPT !.phase = "recovering"]
  BY InvParts, EndDecides
<1>2. applyOverlayDecision(d, s) OBVIOUS
<1> HIDE DEF d
<1>3. CASE d.kind = "play_chain"
  <2>1. ctl' = MarkOverlayStarted(Forget(ctl), processed) BY <1>1, <1>2, <1>3, InvParts, DecisionApplied
  <2>2. ctl'.last = processed BY <1>1, <1>3, <2>1, InvParts, CtlEdits
  <2> QED BY <1>1, <1>3, <2>2, KeyValues DEF Stays
<1>4. CASE d.kind = "start_recover"
  <2>1. ctl' = [ctl EXCEPT !.phase = "recovering"] BY <1>1, <1>2, <1>4, InvParts, DecisionApplied
  <2>2. ctl'.phase = "recovering" BY <2>1, InvParts, PhaseEdits DEF Phases
  <2> QED BY <2>2 DEF Stays
<1> QED BY <1>1, <1>3, <1>4

LEMMA WayBackChanges ==
  ASSUME AvatarInv, NEW s \in Slot, ctl.phase = "recovering",
         applyOverlayDecision(OnRecoverComplete(ctl), s)
  PROVE  ctl'.phase # "recovering"
<1> DEFINE d == OnRecoverComplete(ctl)
           b == [Forget(ctl) EXCEPT !.phase = "base"]
<1>1. /\ d.ctl = b /\ processed \in Keys
      /\ (d.kind = "play_from_base" /\ d.key = processed) \/ d.kind = "ignore"
  BY InvParts, RecoverDecides
<1>2. b \in Ctl /\ b.phase = "base"
  <2> DEFINE f == Forget(ctl)
  <2>1. f \in Ctl BY InvParts, CtlEdits
  <2> HIDE DEF f
  <2>2. b = [f EXCEPT !.phase = "base"] BY DEF f
  <2> QED BY <2>1, <2>2, PhaseEdits DEF Phases
<1>3. applyOverlayDecision(d, s) OBVIOUS
<1> HIDE DEF d, b
<1>4. CASE d.kind = "play_from_base"
  <2>1. ctl' = MarkOverlayStarted(b, processed) BY <1>1, <1>3, <1>4, InvParts, DecisionApplied
  <2> QED BY <1>1, <1>2, <2>1, CtlEdits
<1>5. CASE d.kind = "ignore"
  <2>1. ctl' = b BY <1>1, <1>3, <1>5, InvParts, DecisionApplied
  <2> QED BY <1>2, <2>1
<1> QED BY <1>1, <1>4, <1>5

LEMMA RequestLeaves == ASSUME AvatarInv, RequestEffect, Stays PROVE slot' = slot
<1>1. CASE actionKey = NoKey \/ ~slot.overlays \/ ~slot.base \/ processed = actionKey
  BY <1>1 DEF RequestEffect
<1>2. CASE ~(actionKey = NoKey \/ ~slot.overlays \/ ~slot.base \/ processed = actionKey)
  <2> DEFINE d == Request(props.policy, ctl, actionKey)
  <2>1. applyOverlayDecision(d, slot) BY <1>2 DEF RequestEffect
  <2>2. actionKey \in Keys /\ (processed # NoKey => processed < actionKey)
    <3>1. actionKey \in Keys /\ processed \in Keys \cup {NoKey} BY <1>2, InvParts
    <3> QED BY <1>2, <3>1, KeyValues DEF AvatarInv, KeysInOrder
  <2>6. ctl \in Ctl /\ props.policy \in Policies /\ processed \in Keys \cup {NoKey}
    BY InvParts
  <2>7. Tracks(ctl, processed) BY InvParts
  <2>3. /\ ctl.last # NoKey => ctl.last < actionKey
        /\ \/ /\ d.kind \in {"play_from_base", "play_chain"} /\ d.key = actionKey
              /\ d.ctl \in Ctl
           \/ d.kind = "queue" /\ d.ctl = [ctl EXCEPT !.pending = actionKey]
    BY <2>2, <2>6, <2>7, RequestDecides
  <2> HIDE DEF d
  <2>4. CASE d.kind = "queue" BY <2>1, <2>4, InvParts, DecisionApplied
  <2>5. CASE d.kind \in {"play_from_base", "play_chain"} /\ d.key = actionKey /\ d.ctl \in Ctl
    <3>1. ctl' = MarkOverlayStarted(d.ctl, actionKey) BY <2>1, <2>5, InvParts, DecisionApplied
    <3>2. ctl'.last = actionKey BY <2>2, <2>5, <3>1, CtlEdits
    <3>3. ctl.last = actionKey /\ actionKey \in Nat /\ ctl.last # NoKey
      BY <2>2, <3>2, KeyValues DEF Stays
    <3> QED BY <2>3, <3>3
  <2> QED BY <2>3, <2>4, <2>5
<1> QED BY <1>1, <1>2

LEMMA OthersLeaveTop ==
  ASSUME AvatarInv, [Next]_vars, Stays, frame # "mixer"
  PROVE  slot'.active = slot.active /\ Top' = Top
<1>1. slot' = slot => slot'.active = slot.active /\ Top' = Top BY DEF Top
<1>2. CASE UNCHANGED vars BY <1>1, <1>2 DEF vars
<1>3. CASE ModelLoaded \/ Unmount
  <2>1. ctl' = Reset \/ slot' = slot BY <1>3 DEF ModelLoaded, Unmount, resetOverlaySystem
  <2> QED BY <1>1, <2>1, ResetCtl DEF Stays
<1>4. CASE IdleLoaded \/ OverlayLoaded
  <2>1. slot' = slot \/ ~slot.base \/ ~slot.overlays
    BY <1>4 DEF AvatarInv, LoadsInOrder, IdleLoaded, OverlayLoaded
  <2>2. slot.base /\ slot.overlays BY NothingRequested, ResetCtl DEF Stays
  <2> QED BY <1>1, <2>1, <2>2
<1>5. CASE (\E l \in loads : LoadFails(l)) \/ (\E k \in Keys : Attack(k))
  BY <1>1, <1>5 DEF LoadFails, Attack
<1>6. CASE RequestEffect BY <1>1, <1>6, RequestLeaves
<1>7. CASE FrameStart BY <1>1, <1>7, InvParts, EndChanges DEF FrameStart
<1>8. CASE TendLayers
  <2>1. slot.base BY NothingRequested, ResetCtl DEF Stays
  <2>2. SameActive(slot, slot') BY <1>8, <2>1, InvParts, LayersTended DEF TendLayers
  <2> QED BY <2>2 DEF SameActive, Top
<1>9. CASE CheckEnded BY <1>1, <1>9, InvParts, EndChanges DEF CheckEnded
<1>10. CASE CheckRecovered
  <2> DEFINE e == enforceBaseLayer(slot)
  <2>1. e \in Slot BY InvParts, EnforceBase DEF SameOverlays
  <2>2. ctl.phase # "base" BY DEF Stays
  <2>3. \/ ctl.phase = "recovering" /\ applyOverlayDecision(OnRecoverComplete(ctl), e)
        \/ slot' = slot
    BY <1>10, <2>2 DEF CheckRecovered
  <2> HIDE DEF e
  <2>4. CASE ctl.phase = "recovering" /\ applyOverlayDecision(OnRecoverComplete(ctl), e)
    BY <2>1, <2>4, WayBackChanges DEF Stays
  <2> QED BY <1>1, <2>3, <2>4
<1>11. CASE \E dt \in Deltas : MixerUpdate(dt) BY <1>11 DEF MixerUpdate
<1> QED
  BY <1>2, <1>3, <1>4, <1>5, <1>6, <1>7, <1>8, <1>9, <1>10, <1>11 DEF Next, Frame

LEMMA OnlyMixer ==
  ASSUME Next, frame = "mixer"
  PROVE  \E dt \in Deltas : MixerUpdate(dt)
BY DEF Next, Frame, ModelLoaded, IdleLoaded, OverlayLoaded, LoadFails, Attack, RequestEffect,
       Unmount, FrameStart, TendLayers, CheckEnded, CheckRecovered

LEMMA MixerTakesOn ==
  ASSUME AvatarInv, NEW dt \in Deltas, MixerUpdate(dt), Stays
  PROVE  /\ slot'.active = slot.active
         /\ ctl.phase = "overlay" => Top'.time = Top.time + dt
         /\ ctl.phase = "recovering" =>
              Gone(Top') \/ (~Gone(Top) /\ Top'.left = Top.left - dt)
<1> DEFINE f == [l \in Layers |->
                   Weighed(IF l = "base" THEN slot.act[l] ELSE Moved(slot.act[l], dt), dt)]
           m == [slot EXCEPT !.act = f]
           over == slot.overlays /\ m.act[slot.active].paused /\ ~slot.act[slot.active].paused
           w == Weighed(Moved(Top, dt), dt)
<1>1. IF over /\ listening
      THEN applyOverlayDecision(OnOverlayEnded(props.policy, ctl), m)
      ELSE slot' = m /\ UNCHANGED <<ctl, listening>>
  BY DEF MixerUpdate
<1>2. dt \in Nat \ {0} BY AvatarAssumption
<1>3. m \in Slot /\ m.active = slot.active BY <1>2, InvParts, MixerMoves
<1>4. m.act[slot.active] = w
  <2>1. slot.active \in Layers /\ slot.active # "base" BY InvParts, SlotType
  <2>2. m.act = f BY InvParts DEF Slot
  <2>3. f[slot.active] = w BY <2>1 DEF Top
  <2> QED BY <2>2, <2>3
<1>5. Top \in Action BY InvParts, SlotType DEF Top
<1>6. /\ isRunning(Top) /\ ~w.paused => w.time = Top.time + dt
      /\ Top.on /\ (Top.fade = "out" \/ Gone(Top)) =>
           Gone(w) \/ (~Gone(Top) /\ w.left = Top.left - dt)
  BY <1>2, <1>5, MixerAdvances
<1> HIDE DEF m, w
<1>7. slot' = m
  <2>1. CASE over /\ listening
    <3> DEFINE d == OnOverlayEnded(props.policy, ctl)
    <3>1. applyOverlayDecision(d, m) BY <1>1, <2>1
    <3>2. ctl.phase # "overlay" BY <1>3, <3>1, EndChanges
    <3>3. d.kind = "ignore" BY <3>2 DEF OnOverlayEnded, Ignore
    <3> HIDE DEF d
    <3> QED BY <1>3, <3>1, <3>3, InvParts, DecisionApplied
  <2>2. CASE ~(over /\ listening) BY <1>1, <2>2
  <2> QED BY <2>1, <2>2
<1>8. slot'.active = slot.active /\ Top' = w BY <1>3, <1>4, <1>7 DEF Top
<1>9. ASSUME ctl.phase = "overlay" PROVE Top'.time = Top.time + dt
  <2>1. Running(slot) /\ listening BY <1>9, InvParts DEF Attuned
  <2>2. isRunning(Top) /\ slot.overlays /\ ~slot.act[slot.active].paused
    BY <2>1 DEF Running, isRunning, Top
  <2>3. ~over
    <3>1. over => applyOverlayDecision(OnOverlayEnded(props.policy, ctl), m) BY <1>1, <2>1
    <3> QED BY <1>3, <1>9, <3>1, EndChanges
  <2>4. ~w.paused BY <1>4, <2>2, <2>3
  <2> QED BY <1>6, <1>8, <2>2, <2>4
<1>10. ASSUME ctl.phase = "recovering"
       PROVE  Gone(Top') \/ (~Gone(Top) /\ Top'.left = Top.left - dt)
  <2>1. Top.on /\ (Top.fade = "out" \/ Gone(Top))
    BY <1>10, InvParts DEF Attuned, Receding, Top, Gone
  <2> QED BY <1>6, <1>8, <2>1
<1> QED BY <1>8, <1>9, <1>10

(* The base has its full weight once a frame has tended the layers. *)
BaseUp == frame \in {"ended", "recovered"} /\ slot.base => slot.act["base"].eff = 2

LEMMA FullWeight ==
  ASSUME NEW a \in Action
  PROVE  LET k == keepActionAlive(a)
             b == setEffectiveWeight(k, 1)
         IN  k \in Action /\ k.enabled /\ b \in Action /\ b.eff = 2
<1> DEFINE k == keepActionAlive(a)
           b == setEffectiveWeight(k, 1)
<1>1. k \in Action /\ b \in Action
  <2>1. k \in Action BY ActionEdits
  <2> HIDE DEF k
  <2> QED BY <2>1, ActionEdits
<1>2. k.enabled BY DEF keepActionAlive, Action
<1> HIDE DEF k
<1>3. b = [k EXCEPT !.weight = 1, !.eff = 2, !.fade = "none"] BY <1>2 DEF setEffectiveWeight
<1>4. \A c \in Action : [c EXCEPT !.weight = 1, !.eff = 2, !.fade = "none"].eff = 2
  BY DEF Action
<1>5. b.eff = 2 BY <1>1, <1>3, <1>4
<1> QED BY <1>1, <1>2, <1>5 DEF k

LEMMA EnforcedWeight ==
  ASSUME NEW s \in Slot, s.base
  PROVE  enforceBaseLayer(s).act["base"].eff = 2
<1> DEFINE a == keepActionAlive(s.act["base"])
           b == IF a.eff < 2 THEN setEffectiveWeight(a, 1) ELSE a
<1>1. /\ a \in Action
      /\ setEffectiveWeight(a, 1) \in Action /\ setEffectiveWeight(a, 1).eff = 2
  <2>1. s.act["base"] \in Action BY SlotType
  <2> QED BY <2>1, FullWeight
<1> HIDE DEF a
<1>2. b \in Action /\ b.eff = 2
  <2>1. CASE a.eff < 2 BY <1>1, <2>1
  <2>2. CASE ~(a.eff < 2) BY <1>1, <2>2 DEF Action
  <2> QED BY <2>1, <2>2
<1> HIDE DEF b
<1>3. enforceBaseLayer(s) = [s EXCEPT !.act["base"] = b]
  BY SlotType DEF enforceBaseLayer, b, a
<1> QED BY <1>2, <1>3, SlotEdit DEF Layers

LEMMA SilenceBase ==
  ASSUME NEW s \in Slot
  PROVE  silenceInactiveOverlays(s).act["base"] = s.act["base"]
<1> DEFINE o == Other(s.active)
           a == keepActionAlive(s.act[o])
           b == IF a.eff = 0 THEN setEffectiveWeight(a, 0) ELSE a
<1>1. b \in Action BY SlotType, ActionEdits
<1>2. o \in Layers /\ o # "base" /\ "base" \in Layers BY SlotType DEF Layers
<1>3. silenceInactiveOverlays(s) = IF s.overlays THEN [s EXCEPT !.act[o] = b] ELSE s
  BY SlotType DEF silenceInactiveOverlays
<1> HIDE DEF o, b
<1> QED BY <1>1, <1>2, <1>3, SlotEdit

LEMMA TendedWeight ==
  ASSUME NEW s \in Slot, s.base
  PROVE  reinforceMinimumPoseWeight(s).act["base"].eff = 2
<1> DEFINE e == enforceBaseLayer(s)
           b == setEffectiveWeight(keepActionAlive(e.act["base"]), 1)
           t == reinforceMinimumPoseWeight(s)
<1>1. e \in Slot /\ e.base /\ e.act["base"].eff = 2
  BY EnforceBase, EnforcedWeight DEF SameOverlays
<1> HIDE DEF e
<1>2. t = e \/ t = [e EXCEPT !.act["base"] = b]
  BY <1>1 DEF reinforceMinimumPoseWeight, e
<1>3. b \in Action /\ b.eff = 2
  <2>1. e.act["base"] \in Action BY <1>1, SlotType
  <2> QED BY <2>1, FullWeight
<1> HIDE DEF b, t
<1>4. "base" \in Layers BY DEF Layers
<1>5. t.act["base"].eff = 2
  <2>1. CASE t = e BY <1>1, <2>1
  <2>2. CASE t = [e EXCEPT !.act["base"] = b] BY <1>1, <1>3, <1>4, <2>2, SlotEdit
  <2> QED BY <1>2, <2>1, <2>2
<1> QED BY <1>5 DEF t

LEMMA RecoverWeight ==
  ASSUME NEW s \in Slot, s.base, s.overlays, NEW d \in Nat
  PROVE  recoverBaseFromOverlay(s, d).act["base"].eff = 2
<1> DEFINE e == enforceBaseLayer(s)
           x == fadeOutOverlayAction(e.act[s.active], d)
           g == [e EXCEPT !.act[s.active] = x]
<1>1. e \in Slot /\ e.act["base"].eff = 2 BY EnforceBase, EnforcedWeight DEF SameOverlays
<1>2. s.active \in Layers /\ s.active # "base" /\ "base" \in Layers BY SlotType DEF Layers
<1>3. x \in Action
  <2>1. e.act[s.active] \in Action BY <1>1, <1>2, SlotType DEF Layers
  <2> QED BY <2>1, ActionEdits
<1>4. recoverBaseFromOverlay(s, d) = silenceInactiveOverlays(g)
  BY SlotType DEF recoverBaseFromOverlay
<1> HIDE DEF e, x
<1>5. g \in Slot /\ g.act["base"].eff = 2 BY <1>1, <1>2, <1>3, SlotEdit
<1> HIDE DEF g
<1> QED BY <1>4, <1>5, SilenceBase

LEMMA BaseUpStep == ASSUME AvatarInv, BaseUp, [Next]_vars PROVE BaseUp'
<1>1. CASE UNCHANGED vars BY <1>1 DEF vars, BaseUp
<1>2. CASE frame' \notin {"ended", "recovered"} BY <1>2 DEF BaseUp
<1>3. CASE TendLayers
  <2> DEFINE e == enforceBaseLayer(slot)
             f == silenceInactiveOverlays(e)
  <2>1. e \in Slot /\ e.base = slot.base BY InvParts, EnforceBase DEF SameOverlays
  <2>2. f \in Slot /\ f.base = e.base BY <2>1, SilenceInactive DEF SameActive
  <2>3. slot' = reinforceMinimumPoseWeight(f) BY <1>3 DEF TendLayers
  <2> HIDE DEF e, f
  <2>4. slot'.base = f.base BY <2>2, <2>3, ReinforceMinimum
  <2> QED BY <2>2, <2>3, <2>4, TendedWeight, SlotType DEF BaseUp
<1>4. CASE CheckEnded
  <2> DEFINE d == OnOverlayEnded(props.policy, ctl)
  <2>1. frame = "ended" BY <1>4 DEF CheckEnded
  <2>2. CASE slot' = slot BY <2>1, <2>2 DEF BaseUp
  <2>3. CASE slot' # slot
    <3>1. /\ ctl.phase = "overlay" /\ ~HasPendingChain(props.policy, ctl)
          /\ applyOverlayDecision(d, slot)
      BY <1>4, <2>3 DEF CheckEnded, isOverlayClipFullyEnded
    <3>2. d.kind = "start_recover" BY <3>1 DEF OnOverlayEnded
    <3>3. slot.base /\ slot.overlays BY <3>1, InvParts DEF Attuned, Running
    <3> HIDE DEF d
    <3>4. slot' = recoverBaseFromOverlay(slot, ExitTicks)
      BY <3>1, <3>2 DEF applyOverlayDecision
    <3> QED BY <3>3, <3>4, InvParts, Durations, RecoverWeight DEF BaseUp
  <2> QED BY <2>2, <2>3
<1>5. ASSUME Next, ~TendLayers, ~CheckEnded PROVE frame' \notin {"ended", "recovered"}
  BY <1>5 DEF Next, Frame, ModelLoaded, IdleLoaded, OverlayLoaded, LoadFails, Attack,
       RequestEffect, Unmount, FrameStart, MixerUpdate, CheckRecovered
<1> QED BY <1>1, <1>2, <1>3, <1>4, <1>5

LEMMA WayBackStep ==
  ASSUME AvatarInv, BaseUp, Next, ctl.phase = "recovering", frame = "recovered", Gone(Top)
  PROVE  ctl'.phase # "recovering"
<1>1. CheckRecovered
  BY DEF Next, Frame, ModelLoaded, IdleLoaded, OverlayLoaded, LoadFails, Attack,
       RequestEffect, Unmount, FrameStart, MixerUpdate, TendLayers, CheckEnded
<1>2. slot.base /\ slot.overlays BY InvParts DEF Attuned, Receding
<1>3. slot.act[slot.active].eff = 0 /\ slot.act["base"].eff = 2
  BY <1>2 DEF BaseUp, Gone, Top
<1>4. applyOverlayDecision(OnRecoverComplete(ctl), enforceBaseLayer(slot))
  BY <1>1, <1>2, <1>3 DEF CheckRecovered
<1>5. enforceBaseLayer(slot) \in Slot BY InvParts, EnforceBase DEF SameOverlays
<1> QED BY <1>4, <1>5, WayBackChanges

(* NothingSetsBack: what ReturnsToBase rests on besides the frames going   *)
(* on.  A clip that is not replaced plays, and fades, for as many updates  *)
(* as it has time.                                                         *)
THEOREM NothingHoldsItUp == Spec => NothingSetsBack
<1>1. Init => BaseUp BY DEF Init, BaseUp
<1>2. AvatarInv /\ BaseUp /\ [Next]_vars => BaseUp' BY BaseUpStep
<1>3. AvatarInv /\ BaseUp /\ [Next]_vars => [ClipGoesOn /\ FadeGoesOn /\ WayBackEnds]_vars
  <2> SUFFICES ASSUME AvatarInv, BaseUp, Next
               PROVE  ClipGoesOn /\ FadeGoesOn /\ WayBackEnds
    OBVIOUS
  <2>1. ctl.phase = "recovering" /\ ctl'.phase = "recovering" => ctl'.last = ctl.last
    BY AvatarKeeps, ResetCtl DEF AvatarStep, CtlStep
  <2>2. ASSUME Stays, frame # "mixer" PROVE slot'.active = slot.active /\ Top' = Top
    BY <2>2, OthersLeaveTop
  <2>3. ASSUME Stays, frame = "mixer"
        PROVE  \E dt \in Deltas :
                 /\ slot'.active = slot.active
                 /\ ctl.phase = "overlay" => Top'.time = Top.time + dt
                 /\ ctl.phase = "recovering" =>
                      Gone(Top') \/ (~Gone(Top) /\ Top'.left = Top.left - dt)
    BY <2>3, OnlyMixer, MixerTakesOn
  <2>4. ClipGoesOn BY <2>2, <2>3 DEF ClipGoesOn, Stays
  <2>5. FadeGoesOn BY <2>1, <2>2, <2>3 DEF FadeGoesOn, Stays
  <2>6. WayBackEnds BY WayBackStep DEF WayBackEnds
  <2> QED BY <2>4, <2>5, <2>6
<1> QED BY <1>1, <1>2, <1>3, AvatarAlways, PTL DEF Spec, NothingSetsBack
=============================================================================
