------------------------------ MODULE Monobar ------------------------------
(***************************************************************************)
(* plymouth/monobar.c: the boot screen, a plugin that plymouth (external)  *)
(* calls from one event loop.  A handler runs to its end, so what is hard  *)
(* is the order of the calls: messages and new displays come while a       *)
(* passphrase is asked for, the mode changes while the bar is shown, the   *)
(* event loop ends before the splash is hidden.  What a display shows is   *)
(* the set of things drawn since it was cleared; rows, columns and colours *)
(* are left out.  Plymouth is assumed to call the handlers that assert an  *)
(* event loop only while the plugin has one: from show_splash_screen to    *)
(* the exit of the loop or hide_splash_screen.                             *)
(***************************************************************************)
EXTENDS FiniteSets

CONSTANTS
  Displays,    \* text displays that plymouth may add
  Messages,    \* messages it may ask for
  NoMessage    \* plugin->message is NULL

ASSUME MonobarAssumption == NoMessage \notin Messages

VARIABLES
  alive,       \* the plugin is created and not destroyed
  loop,        \* plugin->loop: attached, or "none" for NULL
  mode,        \* plugin->mode
  state,       \* plugin->state
  message,     \* plugin->message
  animating,   \* plugin->is_animating
  views,       \* plugin->views: the displays with a view
  tty,         \* per display: what it shows, its bar, cursor and colours
  kernel,      \* new kernel messages are shown on the console
  shown,       \* history: between show_splash_screen and hide_splash_screen
  asked,       \* history: displays that must still show the prompt
  calm,        \* history: no message and no show since the question began
  switched,    \* history: the mode changed while the animation ran
  leftover     \* history: displays removed while the splash was shown, or drawn
               \* on while it was hidden, and not hidden since

historyVars == <<shown, asked, calm, switched, leftover>>
vars == <<alive, loop, mode, state, message, animating, views, tty, kernel,
          shown, asked, calm, switched, leftover>>

Modes == {"boot", "shutdown", "reboot"}
HasBar(m) == m \notin {"shutdown", "reboot"}
Things == {"message", "prompt", "bar"}

\* External: a terminal nobody has drawn on.
Fresh == [screen |-> {}, bar |-> FALSE, cursor |-> TRUE, themed |-> FALSE]

-----------------------------------------------------------------------------
\* What is done to one view (a record of tty).

\* The draw handler, which draw_area calls: clear the screen.
OnDraw(v) == [v EXCEPT !.screen = {}]

\* One line is cleared, the one the prompt is on, and written.
ViewShowMessage(v) == [v EXCEPT !.screen = (@ \ {"prompt"}) \cup {"message"}]

ViewShowPrompt(v) == [v EXCEPT !.screen = {"prompt"}, !.cursor = TRUE]

\* Colours, a clear screen without cursor, and the bar, which is drawn at once.
ViewStartAnimation(v, m) ==
  [screen |-> IF HasBar(m) THEN {"bar"} ELSE {},
   bar |-> HasBar(m), cursor |-> FALSE, themed |-> TRUE]

\* Mutant of ViewHide: the colours are not reset.
ViewHideThemed(v) == [v EXCEPT !.screen = {}, !.cursor = TRUE]

ViewHide(v) == [v EXCEPT !.screen = {}, !.cursor = TRUE, !.themed = FALSE]

\* The loops over the views, from the displays t.
RedrawViews(t) == [d \in Displays |-> IF d \in views THEN OnDraw(t[d]) ELSE t[d]]

ShowMessage(t) ==
  [d \in Displays |-> IF d \in views THEN ViewShowMessage(t[d]) ELSE t[d]]

HideViews(t) ==
  [d \in Displays |-> IF d \in views THEN ViewHide(t[d]) ELSE t[d]]

ShowPrompt(t) ==
  [d \in Displays |-> IF d \in views THEN ViewShowPrompt(t[d]) ELSE t[d]]

\* The displays after start_animation in mode m with message s.  A message
\* drawn before the animation starts is cleared by its start.
Animated(m, s) ==
  LET drawn == RedrawViews(tty)
      told == IF s = NoMessage THEN drawn ELSE ShowMessage(drawn)
  IN  IF animating THEN told
      ELSE [d \in Displays |-> IF d \in views THEN ViewStartAnimation(told[d], m)
                               ELSE told[d]]

\* The displays after stop_animation.
Stopped ==
  IF ~animating THEN tty
  ELSE RedrawViews([d \in Displays |->
         IF d \in views THEN [tty[d] EXCEPT !.bar = FALSE] ELSE tty[d]])

-----------------------------------------------------------------------------
Init ==
  /\ alive = FALSE
  /\ loop = "none" /\ mode = "boot" /\ state = "normal" /\ message = NoMessage
  /\ animating = FALSE
  /\ views = {}
  /\ tty = [d \in Displays |-> Fresh]
  /\ kernel = TRUE
  /\ shown = FALSE /\ asked = {} /\ calm = TRUE /\ switched = FALSE
  /\ leftover = {}

CreatePlugin ==
  /\ ~alive
  /\ alive' = TRUE
  /\ loop' = "none" /\ mode' = "boot" /\ state' = "normal"
  /\ message' = NoMessage /\ animating' = FALSE /\ views' = {}
  /\ asked' = {} /\ calm' = TRUE /\ switched' = FALSE
  /\ UNCHANGED <<tty, kernel, shown, leftover>>

\* External: a display without a view is given a new terminal.
NewTerminal(d) ==
  /\ d \notin views
  /\ tty' = [tty EXCEPT ![d] = Fresh]
  /\ leftover' = leftover \ {d}
  /\ UNCHANGED <<alive, loop, mode, state, message, animating, views, kernel,
                 shown, asked, calm, switched>>

\* What the animation draws while the splash is hidden no hide takes away.
DrawnOn(ds) == leftover' = IF animating /\ ~shown THEN leftover \cup ds ELSE leftover

\* Mutant of AddTextDisplay: a display added during the animation stays dark.
AddTextDisplayDark(d) ==
  /\ alive /\ d \notin views
  /\ views' = views \cup {d}
  /\ tty' = [tty EXCEPT ![d].bar = FALSE]
  /\ DrawnOn({d})
  /\ UNCHANGED <<alive, loop, mode, state, message, animating, kernel,
                 shown, asked, calm, switched>>

\* A new view has a new progress bar, which is not shown yet.  Whether there is
\* an event loop is not looked at.
AddTextDisplay(d) ==
  /\ alive /\ d \notin views
  /\ views' = views \cup {d}
  /\ tty' = IF animating
            THEN [tty EXCEPT ![d] = ViewStartAnimation(@, mode)]
            ELSE [tty EXCEPT ![d].bar = FALSE]
  /\ DrawnOn({d})
  /\ UNCHANGED <<alive, loop, mode, state, message, animating, kernel,
                 shown, asked, calm, switched>>

\* The view is freed with its bar; what is on the display stays on it.
RemoveTextDisplay(d) ==
  /\ d \in views
  /\ views' = views \ {d}
  /\ tty' = [tty EXCEPT ![d].bar = FALSE]
  /\ asked' = asked \ {d}
  /\ leftover' = IF shown THEN leftover \cup {d} ELSE leftover
  /\ UNCHANGED <<alive, loop, mode, state, message, animating, kernel, shown,
                 calm, switched>>

\* Also called again for another mode, without a hide_splash_screen between.
ShowSplashScreen(m) ==
  /\ alive
  /\ loop' = "attached" /\ mode' = m
  /\ kernel' = FALSE
  /\ tty' = Animated(m, message)
  /\ animating' = TRUE
  /\ shown' = TRUE /\ asked' = {}
  /\ calm' = FALSE
  /\ switched' = (animating /\ (switched \/ m # mode))
  /\ UNCHANGED <<alive, state, message, views, leftover>>

OnBootProgress ==
  /\ alive
  /\ tty' = [d \in Displays |->
       IF animating /\ d \in views /\ tty[d].bar
       THEN [tty[d] EXCEPT !.screen = @ \cup {"bar"}] ELSE tty[d]]
  /\ DrawnOn({d \in views : tty[d].bar})
  /\ UNCHANGED <<alive, loop, mode, state, message, animating, views, kernel,
                 shown, asked, calm, switched>>

\* detach_from_event_loop as the exit handler of the event loop.
LoopExits ==
  /\ loop = "attached"
  /\ loop' = "none"
  /\ UNCHANGED <<alive, mode, state, message, animating, views, tty, kernel,
                 historyVars>>

\* What hide_splash_screen does: without an event loop the animation is not
\* stopped, but the views are hidden all the same.
Hide ==
  /\ tty' = HideViews(IF loop = "attached" THEN Stopped ELSE tty)
  /\ kernel' = TRUE
  /\ shown' = FALSE /\ asked' = {}
  /\ leftover' = leftover \ views

HideSplashScreen ==
  /\ alive
  /\ Hide
  /\ loop' = "none"
  /\ animating' = (animating /\ loop # "attached")
  /\ switched' = (animating' /\ switched)
  /\ UNCHANGED <<alive, mode, state, message, views, calm>>

\* Mutant of DestroyPlugin: the views are not freed.
DestroyPluginLeaks ==
  /\ alive
  /\ Hide
  /\ alive' = FALSE
  /\ loop' = "none" /\ mode' = "boot" /\ state' = "normal"
  /\ message' = NoMessage /\ animating' = FALSE
  /\ calm' = TRUE /\ switched' = FALSE
  /\ UNCHANGED views

\* Hides the screen and frees views and message.
DestroyPlugin ==
  /\ alive
  /\ Hide
  /\ alive' = FALSE
  /\ loop' = "none" /\ mode' = "boot" /\ state' = "normal"
  /\ message' = NoMessage /\ animating' = FALSE /\ views' = {}
  /\ calm' = TRUE /\ switched' = FALSE

\* The question is answered: the animation starts again, and what it (or the
\* message) has drawn is cleared by the second redraw.
DisplayNormal ==
  /\ loop = "attached"
  /\ IF state = "normal" THEN UNCHANGED <<state, tty, animating>>
     ELSE /\ state' = "normal"
          /\ tty' = RedrawViews(Animated(mode, message))
          /\ animating' = TRUE
  /\ asked' = {}
  /\ switched' = (animating /\ switched)
  /\ UNCHANGED <<alive, loop, mode, message, views, kernel, shown, calm, leftover>>

\* A message starts the animation, also over a prompt.
DisplayMessage(s) ==
  /\ loop = "attached"
  /\ message' = s
  /\ tty' = Animated(mode, s)
  /\ animating' = TRUE
  /\ asked' = {}
  /\ calm' = FALSE
  /\ switched' = (animating /\ switched)
  /\ UNCHANGED <<alive, loop, mode, state, views, kernel, shown, leftover>>

\* Mutant of DisplayPrompt: the prompt is drawn before the animation stops.
DisplayPromptEarly ==
  /\ loop = "attached"
  /\ tty' = IF state = "normal" /\ animating
            THEN RedrawViews([d \in Displays |->
                   [ShowPrompt(tty)[d] EXCEPT !.bar = FALSE]])
            ELSE ShowPrompt(tty)
  /\ animating' = (animating /\ state # "normal")
  /\ state' = "prompt"
  /\ asked' = views
  /\ calm' = (calm \/ state = "normal")
  /\ switched' = (animating' /\ switched)
  /\ UNCHANGED <<alive, loop, mode, message, views, kernel, shown, leftover>>

\* display_password and display_question, once more for every key: both set
\* the state of a passphrase, and only the first of a question stops the
\* animation.
DisplayPrompt ==
  /\ loop = "attached"
  /\ tty' = ShowPrompt(IF state = "normal" THEN Stopped ELSE tty)
  /\ animating' = (animating /\ state # "normal")
  /\ state' = "prompt"
  /\ asked' = views
  /\ calm' = (calm \/ state = "normal")
  /\ switched' = (animating' /\ switched)
  /\ UNCHANGED <<alive, loop, mode, message, views, kernel, shown, leftover>>

Next ==
  \/ CreatePlugin
  \/ \E d \in Displays : AddTextDisplay(d) \/ RemoveTextDisplay(d) \/ NewTerminal(d)
  \/ \E m \in Modes : ShowSplashScreen(m)
  \/ OnBootProgress \/ LoopExits \/ HideSplashScreen \/ DestroyPlugin
  \/ DisplayNormal \/ DisplayPrompt
  \/ \E s \in Messages : DisplayMessage(s)

Spec == Init /\ [][Next]_vars

-----------------------------------------------------------------------------
\* Types of all variables; a plugin that is not alive has no view.
TypeOK ==
  /\ alive \in BOOLEAN
  /\ loop \in {"none", "attached"}
  /\ mode \in Modes /\ state \in {"normal", "prompt"}
  /\ message \in Messages \cup {NoMessage}
  /\ animating \in BOOLEAN
  /\ views \subseteq Displays /\ (~alive => views = {} /\ loop = "none")
  /\ tty \in [Displays -> [screen : SUBSET Things, bar : BOOLEAN,
                           cursor : BOOLEAN, themed : BOOLEAN]]
  /\ kernel \in BOOLEAN /\ shown \in BOOLEAN
  /\ asked \subseteq views /\ calm \in BOOLEAN /\ switched \in BOOLEAN
  /\ leftover \subseteq Displays

\* Every display that was given the prompt (of a passphrase or a question)
\* shows it, with a cursor, until the next message, display_normal, show or
\* hide: neither progress nor displays that come and go draw over it.  And
\* unless a message or another show came in between, no bar runs behind it, nor
\* does one stand on a display that had none on it when it was added.
PromptStays ==
  /\ \A d \in asked : "prompt" \in tty[d].screen /\ tty[d].cursor
  /\ state = "prompt" /\ calm =>
       ~animating /\ \A d \in (views \ leftover) \cup asked : "bar" \notin tty[d].screen

\* All displays agree: each shows a bar exactly while the animation runs in a
\* mode that has one, also those added later, unless the mode changed under a
\* running animation (start_animation returns before the views learn of it).
BarFollows ==
  ~switched => \A d \in views : tty[d].bar <=> (animating /\ HasBar(mode))

\* While the splash is hidden or its plugin destroyed, even after the exit of
\* the event loop, the console shows kernel messages, and the displays have
\* their cursors and colours and nothing of the splash on them, whichever came,
\* went or were shown again.  The exceptions are a display taken away while the
\* splash was on it, which the plugin does not clean, and one that the animation
\* is drawn on after a hide that did not stop it, because the loop had exited.
Released ==
  ~shown =>
    /\ kernel
    /\ \A d \in Displays \ leftover :
         tty[d].cursor /\ ~tty[d].themed /\ tty[d].screen = {}
=============================================================================
