--------------------------- MODULE MonobarProofs ---------------------------
(***************************************************************************)
(* Theorems about Monobar, for any displays and messages: its types, and   *)
(* its three safety properties.  They are proved together: besides them    *)
(* the inductive invariant says when the event loop is there, and that a   *)
(* display without a view is clean unless it was taken away while the      *)
(* splash was on it.                                                       *)
(***************************************************************************)
EXTENDS Monobar, TLAPS

View == [screen : SUBSET Things, bar : BOOLEAN, cursor : BOOLEAN,
         themed : BOOLEAN]

\* The plugin has an event loop only while the splash is shown, and only a
\* running animation can miss a change of the mode.
LoopInv ==
  /\ loop = "attached" => shown
  /\ switched => animating

Clean(v) == v.cursor /\ ~v.themed /\ v.screen = {}

\* A display without a view has nothing of the splash on it, unless the splash
\* was on it when its view was freed.
OutsideClean == \A d \in Displays \ (views \cup leftover) : Clean(tty[d])

IInv == TypeOK /\ LoopInv /\ OutsideClean /\ PromptStays /\ BarFollows /\ Released

-----------------------------------------------------------------------------
\* What the handlers of a view do to what its display shows.
LEMMA ViewFacts ==
  ASSUME NEW v \in View, NEW m \in Modes
  PROVE  /\ OnDraw(v) \in View /\ OnDraw(v).screen = {}
         /\ OnDraw(v).bar = v.bar
         /\ ViewShowMessage(v) \in View /\ ViewShowMessage(v).bar = v.bar
         /\ ViewShowPrompt(v) \in View /\ ViewShowPrompt(v).bar = v.bar
         /\ ViewShowPrompt(v).screen = {"prompt"} /\ ViewShowPrompt(v).cursor
         /\ ViewStartAnimation(v, m) \in View
         /\ ViewStartAnimation(v, m).bar = HasBar(m)
         /\ ViewHide(v) \in View /\ ViewHide(v).bar = v.bar
         /\ Clean(ViewHide(v))
  BY DEF View, Things, OnDraw, ViewShowMessage, ViewShowPrompt,
         ViewStartAnimation, ViewHide, HasBar, Clean

\* What the loops over the views do: displays without a view are left alone.
LEMMA LoopFacts ==
  ASSUME NEW t \in [Displays -> View], views \subseteq Displays
  PROVE  /\ RedrawViews(t) \in [Displays -> View]
         /\ ShowMessage(t) \in [Displays -> View]
         /\ HideViews(t) \in [Displays -> View]
         /\ ShowPrompt(t) \in [Displays -> View]
         /\ \A d \in Displays \ views :
              /\ RedrawViews(t)[d] = t[d] /\ ShowMessage(t)[d] = t[d]
              /\ HideViews(t)[d] = t[d] /\ ShowPrompt(t)[d] = t[d]
         /\ \A d \in views :
              /\ RedrawViews(t)[d].bar = t[d].bar
              /\ RedrawViews(t)[d].screen = {}
              /\ ShowMessage(t)[d].bar = t[d].bar
              /\ HideViews(t)[d].bar = t[d].bar /\ Clean(HideViews(t)[d])
              /\ ShowPrompt(t)[d].bar = t[d].bar
              /\ ShowPrompt(t)[d].screen = {"prompt"}
              /\ ShowPrompt(t)[d].cursor
<1>1. "boot" \in Modes BY DEF Modes
<1>2. \A d \in Displays : t[d] \in View OBVIOUS
<1> QED BY <1>1, <1>2, ViewFacts DEF RedrawViews, ShowMessage, HideViews, ShowPrompt

\* start_animation: where it was not running before, each view gets its bar.
LEMMA AnimatedFacts ==
  ASSUME tty \in [Displays -> View], views \subseteq Displays,
         animating \in BOOLEAN, NEW m \in Modes, NEW s
  PROVE  /\ Animated(m, s) \in [Displays -> View]
         /\ \A d \in Displays \ views : Animated(m, s)[d] = tty[d]
         /\ \A d \in views :
              Animated(m, s)[d].bar = IF animating THEN tty[d].bar ELSE HasBar(m)
<1> DEFINE drawn == RedrawViews(tty)
           told == IF s = NoMessage THEN drawn ELSE ShowMessage(drawn)
<1>1. /\ drawn \in [Displays -> View]
      /\ \A d \in Displays \ views : drawn[d] = tty[d]
      /\ \A d \in views : drawn[d].bar = tty[d].bar
  BY LoopFacts
<1>2. /\ told \in [Displays -> View]
      /\ \A d \in Displays \ views : told[d] = tty[d]
      /\ \A d \in views : told[d].bar = tty[d].bar
  <2>1. CASE s = NoMessage BY <1>1, <2>1
  <2>2. CASE s # NoMessage
    <3> HIDE DEF drawn
    <3> QED BY <1>1, <2>2, LoopFacts
  <2> QED BY <2>1, <2>2
<1>3. Animated(m, s) = IF animating THEN told
        ELSE [d \in Displays |-> IF d \in views THEN ViewStartAnimation(told[d], m)
                                 ELSE told[d]]
  BY DEF Animated
<1> HIDE DEF told
<1>4. CASE animating
  <2>1. Animated(m, s) = told BY <1>3, <1>4
  <2> QED BY <1>2, <1>4, <2>1
<1>5. CASE ~animating
  <2>1. \A d \in Displays : told[d] \in View BY <1>2
  <2>2. \A d \in views : /\ ViewStartAnimation(told[d], m) \in View
                         /\ ViewStartAnimation(told[d], m).bar = HasBar(m)
    BY <2>1, ViewFacts
  <2>3. Animated(m, s) = [d \in Displays |->
          IF d \in views THEN ViewStartAnimation(told[d], m) ELSE told[d]]
    BY <1>3, <1>5
  <2> QED BY <1>2, <1>5, <2>1, <2>2, <2>3
<1> QED BY <1>4, <1>5

\* stop_animation: no view keeps its bar.
LEMMA StoppedFacts ==
  ASSUME tty \in [Displays -> View], views \subseteq Displays,
         animating \in BOOLEAN
  PROVE  /\ Stopped \in [Displays -> View]
         /\ \A d \in Displays \ views : Stopped[d] = tty[d]
         /\ \A d \in views :
              Stopped[d].bar = IF animating THEN FALSE ELSE tty[d].bar
<1> DEFINE t == [d \in Displays |->
                   IF d \in views THEN [tty[d] EXCEPT !.bar = FALSE] ELSE tty[d]]
<1>1. /\ t \in [Displays -> View]
      /\ \A d \in Displays \ views : t[d] = tty[d]
      /\ \A d \in views : t[d].bar = FALSE
  BY DEF View
<1>2. Stopped = IF ~animating THEN tty ELSE RedrawViews(t)
  BY DEF Stopped
<1> HIDE DEF t
<1>3. CASE animating
  <2>1. Stopped = RedrawViews(t) BY <1>2, <1>3
  <2>2. /\ RedrawViews(t) \in [Displays -> View]
        /\ \A d \in Displays \ views : RedrawViews(t)[d] = t[d]
        /\ \A d \in views : RedrawViews(t)[d].bar = t[d].bar
    BY <1>1, LoopFacts
  <2> QED BY <1>1, <1>3, <2>1, <2>2
<1>4. CASE ~animating
  <2>1. Stopped = tty BY <1>2, <1>4
  <2> QED BY <1>4, <2>1
<1> QED BY <1>3, <1>4

-----------------------------------------------------------------------------
LEMMA InitIInv == Init => IInv
<1> SUFFICES ASSUME Init PROVE IInv OBVIOUS
<1>1. Fresh \in View /\ Clean(Fresh) BY DEF Fresh, View, Clean
<1>2. TypeOK BY <1>1 DEF Init, TypeOK, Modes, View
<1>3. \A d \in Displays : Clean(tty[d]) BY <1>1 DEF Init
<1> QED BY <1>2, <1>3 DEF Init, IInv, LoopInv, OutsideClean, PromptStays, BarFollows,
                        Released, Clean

\* Every handler keeps the invariant.
LEMMA StepIInv == IInv /\ [Next]_vars => IInv'
<1> SUFFICES ASSUME IInv, [Next]_vars PROVE IInv' OBVIOUS
<1> USE DEF IInv
<1>0. /\ tty \in [Displays -> View] /\ views \subseteq Displays
      /\ \A d \in Displays : tty[d] \in View
      /\ mode \in Modes /\ animating \in BOOLEAN
  BY DEF TypeOK, View
<1>1. CASE CreatePlugin
  <2>1. views = {} /\ asked = {} BY <1>1 DEF TypeOK, CreatePlugin
  <2>2. TypeOK' BY <1>1 DEF TypeOK, CreatePlugin, Modes
  <2>3. OutsideClean' BY <1>1, <2>1 DEF OutsideClean, CreatePlugin
  <2>4. Released' BY <1>1 DEF Released, CreatePlugin
  <2> QED BY <1>1, <2>1, <2>2, <2>3, <2>4
          DEF CreatePlugin, LoopInv, PromptStays, BarFollows
<1>2. ASSUME NEW d \in Displays, AddTextDisplay(d) PROVE IInv'
  <2>1. /\ tty' \in [Displays -> View]
        /\ \A e \in Displays \ {d} : tty'[e] = tty[e]
        /\ tty'[d].bar = (animating /\ HasBar(mode))
        /\ ~animating => /\ tty'[d].screen = tty[d].screen
                         /\ tty'[d].cursor = tty[d].cursor
                         /\ tty'[d].themed = tty[d].themed
    <3>1. CASE animating
      <4> DEFINE v == ViewStartAnimation(tty[d], mode)
      <4>1. v \in View /\ v.bar = HasBar(mode) BY <1>0, ViewFacts
      <4>2. tty' = [tty EXCEPT ![d] = v] BY <1>2, <3>1 DEF AddTextDisplay
      <4> HIDE DEF v
      <4> QED BY <1>0, <3>1, <4>1, <4>2 DEF HasBar
    <3>2. CASE ~animating
      <4>1. tty' = [tty EXCEPT ![d].bar = FALSE] BY <1>2, <3>2 DEF AddTextDisplay
      <4>2. tty[d] \in View BY <1>0
      <4> QED BY <1>0, <3>2, <4>1, <4>2 DEF View, HasBar
    <3> QED BY <3>1, <3>2
  <2>8. leftover' = IF animating /\ ~shown THEN leftover \cup {d} ELSE leftover
    BY <1>2 DEF AddTextDisplay, DrawnOn
  <2>2. TypeOK' BY <1>2, <2>1, <2>8 DEF TypeOK, AddTextDisplay, View
  <2>3. d \notin leftover => Clean(tty[d])
    BY <1>2 DEF AddTextDisplay, OutsideClean
  <2>4. OutsideClean' BY <1>2, <2>1, <2>8 DEF AddTextDisplay, OutsideClean, Clean
  <2>5. PromptStays'
    BY <1>0, <1>2, <2>1, <2>3, <2>8 DEF AddTextDisplay, PromptStays, TypeOK, Clean
  <2>6. BarFollows' BY <1>0, <1>2, <2>1 DEF AddTextDisplay, BarFollows
  <2>7. Released' BY <1>2, <2>1, <2>3, <2>8 DEF AddTextDisplay, Released, Clean
  <2> QED BY <1>2, <2>2, <2>4, <2>5, <2>6, <2>7 DEF AddTextDisplay, LoopInv
<1>3. ASSUME NEW d \in Displays, RemoveTextDisplay(d) PROVE IInv'
  <2>1. tty[d] \in View BY <1>0
  <2>2. /\ tty' \in [Displays -> View]
        /\ \A e \in Displays \ {d} : tty'[e] = tty[e]
        /\ tty'[d].screen = tty[d].screen /\ tty'[d].cursor = tty[d].cursor
        /\ tty'[d].themed = tty[d].themed
    BY <1>0, <1>3, <2>1 DEF RemoveTextDisplay, View
  <2>3. TypeOK' BY <1>3, <2>2 DEF TypeOK, RemoveTextDisplay, View
  <2>8. ~shown /\ d \notin leftover => Clean(tty[d])
    BY DEF Released, Clean
  <2>4. OutsideClean' BY <1>3, <2>2, <2>8 DEF RemoveTextDisplay, OutsideClean, Clean
  <2>5. PromptStays' BY <1>0, <1>3, <2>2 DEF RemoveTextDisplay, PromptStays, TypeOK
  <2>6. BarFollows' BY <1>0, <1>3, <2>2 DEF RemoveTextDisplay, BarFollows
  <2>7. Released' BY <1>3, <2>2 DEF RemoveTextDisplay, Released
  <2> QED BY <1>3, <2>3, <2>4, <2>5, <2>6, <2>7 DEF RemoveTextDisplay, LoopInv
<1>14. ASSUME NEW d \in Displays, NewTerminal(d) PROVE IInv'
  <2>1. Fresh \in View /\ Clean(Fresh) BY DEF Fresh, View, Clean
  <2>2. /\ tty' \in [Displays -> View]
        /\ \A e \in Displays \ {d} : tty'[e] = tty[e]
        /\ Clean(tty'[d])
    BY <1>0, <1>14, <2>1 DEF NewTerminal
  <2>3. TypeOK' BY <1>14, <2>2 DEF TypeOK, NewTerminal, View
  <2>4. OutsideClean' BY <1>14, <2>2 DEF NewTerminal, OutsideClean
  <2>5. PromptStays' BY <1>0, <1>14, <2>2 DEF NewTerminal, PromptStays, TypeOK
  <2>6. BarFollows' BY <1>0, <1>14, <2>2 DEF NewTerminal, BarFollows
  <2>7. Released' BY <1>14, <2>2 DEF NewTerminal, Released, Clean
  <2> QED BY <1>14, <2>3, <2>4, <2>5, <2>6, <2>7 DEF NewTerminal, LoopInv
<1>4. ASSUME NEW m \in Modes, ShowSplashScreen(m) PROVE IInv'
  <2>1. /\ tty' \in [Displays -> View]
        /\ \A d \in Displays \ views : tty'[d] = tty[d]
        /\ \A d \in views :
             tty'[d].bar = IF animating THEN tty[d].bar ELSE HasBar(m)
    BY <1>0, <1>4, AnimatedFacts DEF ShowSplashScreen
  <2>2. TypeOK' BY <1>4, <2>1 DEF TypeOK, ShowSplashScreen, View
  <2>3. OutsideClean' BY <1>4, <2>1 DEF ShowSplashScreen, OutsideClean
  <2>4. BarFollows' BY <1>0, <1>4, <2>1 DEF ShowSplashScreen, BarFollows
  <2> QED BY <1>4, <2>2, <2>3, <2>4 DEF ShowSplashScreen, LoopInv, PromptStays, Released
<1>5. CASE OnBootProgress
  <2>1. /\ tty' \in [Displays -> View]
        /\ \A d \in Displays : /\ tty'[d].bar = tty[d].bar
                               /\ tty'[d].cursor = tty[d].cursor
                               /\ tty[d].screen \subseteq tty'[d].screen
        /\ \A d \in Displays : ~animating \/ d \notin views \/ ~tty[d].bar
                                 => tty'[d] = tty[d]
    BY <1>0, <1>5 DEF OnBootProgress, View, Things
  <2>6. leftover' = IF animating /\ ~shown THEN leftover \cup {d \in views : tty[d].bar}
                    ELSE leftover
    BY <1>5 DEF OnBootProgress, DrawnOn
  <2>2. TypeOK' BY <1>5, <2>1, <2>6 DEF TypeOK, OnBootProgress, View
  <2>3. OutsideClean' BY <1>0, <1>5, <2>1, <2>6 DEF OnBootProgress, OutsideClean
  <2>4. PromptStays'
    BY <1>0, <1>5, <2>1, <2>6 DEF OnBootProgress, PromptStays, TypeOK
  <2>5. BarFollows' BY <1>0, <1>5, <2>1 DEF OnBootProgress, BarFollows
  <2>7. Released' BY <1>5, <2>1, <2>6 DEF OnBootProgress, Released
  <2> QED BY <1>5, <2>2, <2>3, <2>4, <2>5, <2>7 DEF OnBootProgress, LoopInv
<1>6. CASE LoopExits
  BY <1>6 DEF LoopExits, TypeOK, LoopInv, OutsideClean, PromptStays, BarFollows,
              Released, historyVars
<1>7. ASSUME Hide
      PROVE  /\ tty' \in [Displays -> View]
             /\ \A d \in Displays \ leftover' : Clean(tty'[d])
             /\ \A d \in views : Clean(tty'[d])
             /\ leftover' \subseteq leftover
             /\ \A d \in views : tty'[d].bar =
                  IF loop = "attached" /\ animating THEN FALSE ELSE tty[d].bar
  <2> DEFINE t == IF loop = "attached" THEN Stopped ELSE tty
  <2>1. /\ t \in [Displays -> View]
        /\ \A d \in Displays \ views : t[d] = tty[d]
        /\ \A d \in views : t[d].bar =
             IF loop = "attached" /\ animating THEN FALSE ELSE tty[d].bar
    BY <1>0, StoppedFacts
  <2>2. tty' = HideViews(t) BY <1>7 DEF Hide
  <2> HIDE DEF t
  <2>3. /\ tty' \in [Displays -> View]
        /\ \A d \in Displays \ views : tty'[d] = t[d]
        /\ \A d \in views : tty'[d].bar = t[d].bar /\ Clean(tty'[d])
    BY <1>0, <2>1, <2>2, LoopFacts
  <2>4. leftover' = leftover \ views BY <1>7 DEF Hide
  <2> QED BY <2>1, <2>3, <2>4 DEF OutsideClean
<1>8. CASE HideSplashScreen
  <2>1. Hide BY <1>8 DEF HideSplashScreen
  <2>2. TypeOK' BY <1>7, <1>8, <2>1 DEF TypeOK, HideSplashScreen, Hide, View
  <2>3. OutsideClean' /\ Released'
    BY <1>7, <1>8, <2>1 DEF HideSplashScreen, Hide, OutsideClean, Released, Clean
  <2>4. PromptStays'
    BY <1>0, <1>7, <1>8, <2>1 DEF HideSplashScreen, Hide, PromptStays, Clean
  <2>5. BarFollows'
    BY <1>0, <1>7, <1>8, <2>1 DEF HideSplashScreen, BarFollows, LoopInv, TypeOK
  <2> QED BY <1>8, <2>2, <2>3, <2>4, <2>5 DEF HideSplashScreen, Hide, LoopInv, TypeOK
<1>9. CASE DestroyPlugin
  <2>1. Hide BY <1>9 DEF DestroyPlugin
  <2>2. TypeOK' BY <1>7, <1>9, <2>1 DEF TypeOK, DestroyPlugin, Hide, View, Modes
  <2>3. OutsideClean' /\ Released'
    BY <1>7, <1>9, <2>1 DEF DestroyPlugin, Hide, OutsideClean, Released, Clean
  <2> QED BY <1>9, <2>2, <2>3 DEF DestroyPlugin, Hide, LoopInv, PromptStays, BarFollows
<1>10. CASE DisplayNormal
  <2>1. CASE state = "normal"
    BY <1>10, <2>1 DEF DisplayNormal, TypeOK, LoopInv, OutsideClean, PromptStays,
                       BarFollows, Released
  <2>2. CASE state # "normal"
    <3> DEFINE t == Animated(mode, message)
    <3>1. /\ t \in [Displays -> View]
          /\ \A d \in Displays \ views : t[d] = tty[d]
          /\ \A d \in views :
               t[d].bar = IF animating THEN tty[d].bar ELSE HasBar(mode)
      BY <1>0, AnimatedFacts
    <3>2. tty' = RedrawViews(t) BY <1>10, <2>2 DEF DisplayNormal
    <3> HIDE DEF t
    <3>3. /\ tty' \in [Displays -> View]
          /\ \A d \in Displays \ views : tty'[d] = tty[d]
          /\ \A d \in views :
               tty'[d].bar = IF animating THEN tty[d].bar ELSE HasBar(mode)
      BY <1>0, <3>1, <3>2, LoopFacts
    <3>4. TypeOK' BY <1>10, <2>2, <3>3 DEF TypeOK, DisplayNormal, View
    <3>5. OutsideClean' BY <1>10, <3>3 DEF DisplayNormal, OutsideClean
    <3>6. BarFollows' BY <1>0, <1>10, <2>2, <3>3 DEF DisplayNormal, BarFollows
    <3> QED BY <1>10, <2>2, <3>4, <3>5, <3>6
            DEF DisplayNormal, LoopInv, PromptStays, Released
  <2> QED BY <2>1, <2>2
<1>11. ASSUME NEW s \in Messages, DisplayMessage(s) PROVE IInv'
  <2>1. /\ tty' \in [Displays -> View]
        /\ \A d \in Displays \ views : tty'[d] = tty[d]
        /\ \A d \in views :
             tty'[d].bar = IF animating THEN tty[d].bar ELSE HasBar(mode)
    BY <1>0, <1>11, AnimatedFacts DEF DisplayMessage
  <2>2. TypeOK' BY <1>11, <2>1 DEF TypeOK, DisplayMessage, View
  <2>3. OutsideClean' BY <1>11, <2>1 DEF DisplayMessage, OutsideClean
  <2>4. BarFollows' BY <1>0, <1>11, <2>1 DEF DisplayMessage, BarFollows
  <2> QED BY <1>11, <2>2, <2>3, <2>4 DEF DisplayMessage, LoopInv, PromptStays, Released
<1>12. CASE DisplayPrompt
  <2> DEFINE t == IF state = "normal" THEN Stopped ELSE tty
  <2>1. /\ t \in [Displays -> View]
        /\ \A d \in Displays \ views : t[d] = tty[d]
        /\ \A d \in views : t[d].bar =
             IF state = "normal" /\ animating THEN FALSE ELSE tty[d].bar
    BY <1>0, StoppedFacts
  <2>2. tty' = ShowPrompt(t) BY <1>12 DEF DisplayPrompt
  <2> HIDE DEF t
  <2>3. /\ tty' \in [Displays -> View]
        /\ \A d \in Displays \ views : tty'[d] = tty[d]
        /\ \A d \in views : /\ tty'[d].bar = t[d].bar
                            /\ tty'[d].screen = {"prompt"} /\ tty'[d].cursor
    BY <1>0, <2>1, <2>2, LoopFacts
  <2>4. TypeOK' BY <1>12, <2>3 DEF TypeOK, DisplayPrompt, View
  <2>5. OutsideClean' BY <1>12, <2>3 DEF DisplayPrompt, OutsideClean
  <2>6. PromptStays'
    <3>1. /\ asked' = views /\ views' = views /\ state' = "prompt"
          /\ calm' = (calm \/ state = "normal")
          /\ animating' = (animating /\ state # "normal")
      BY <1>12 DEF DisplayPrompt
    <3>2. \A d \in views : "prompt" \in tty'[d].screen /\ tty'[d].cursor
      BY <2>3
    <3>3. \A d \in views : "bar" \notin tty'[d].screen
      BY <2>3
    <3>4. state = "prompt" /\ calm => ~animating
      BY DEF PromptStays
    <3>5. state \in {"normal", "prompt"} BY DEF TypeOK
    <3>6. calm' => ~animating' BY <3>1, <3>4, <3>5
    <3> QED BY <3>1, <3>2, <3>3, <3>6 DEF PromptStays
  <2>7. BarFollows' BY <1>0, <1>12, <2>1, <2>3 DEF DisplayPrompt, BarFollows, LoopInv
  <2> QED BY <1>12, <2>4, <2>5, <2>6, <2>7 DEF DisplayPrompt, LoopInv, Released
<1>13. CASE UNCHANGED vars
  BY <1>13 DEF vars, TypeOK, LoopInv, OutsideClean, PromptStays, BarFollows, Released
<1> QED
  BY <1>1, <1>2, <1>3, <1>4, <1>5, <1>6, <1>8, <1>9, <1>10, <1>11, <1>12, <1>13,
     <1>14 DEF Next

-----------------------------------------------------------------------------
\* The inductive invariant holds in every state of the boot screen.
THEOREM Invariant == Spec => []IInv
BY InitIInv, StepIInv, PTL DEF Spec

\* Types: the plugin never holds a view of a display that it does not know, nor
\* any view or event loop when it is not alive.
THEOREM TypeCorrect == Spec => []TypeOK
BY Invariant, PTL DEF IInv

\* A prompt stays on every display that was given it, for any number of
\* displays that come and go: show_prompt and the handlers between two keys.
THEOREM PromptKept == Spec => []PromptStays
BY Invariant, PTL DEF IInv

\* All displays agree on the bar: start_animation, stop_animation and
\* add_text_display, for any number of displays.
THEOREM BarsAgree == Spec => []BarFollows
BY Invariant, PTL DEF IInv

\* Displays and console are given back by hide_splash_screen and
\* destroy_plugin, with and without an event loop, except the displays that are
\* taken away under the splash or drawn on after a hide (leftover).
THEOREM GivenBack == Spec => []Released
BY Invariant, PTL DEF IInv
=============================================================================
