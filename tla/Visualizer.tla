----------------------------- MODULE Visualizer -----------------------------
(***************************************************************************)
(* The two threads of the Python visualizer                                *)
(* (src/visualizer/visualizer/core.py): the simulation thread, which runs  *)
(* the simulator one sample period at a time, and the view thread, which   *)
(* serves the GTK main loop.                                               *)
(*                                                                         *)
(* They share ns-3's state, guarded by SimulationThread.lock, the event    *)
(* `go' by which the view asks for one more period, and the list of the    *)
(* messages of PyViz::Pause.  The handler of the update timer serves the   *)
(* main loop itself while the lock is taken, so that handlers nest: the    *)
(* handlers below the top one are all inside that inner loop, hence the    *)
(* stack of timers and ONE program counter describe the view thread.       *)
(*                                                                         *)
(* GTK and GLib are external: they dispatch the ready source of the        *)
(* highest priority (update_model, -100, before the user's events, 0, and  *)
(* the update timers, 200), never a source that is already being           *)
(* dispatched, and never one that was removed.                             *)
(***************************************************************************)
EXTENDS Integers, Sequences, SequencesExt, FiniteSets

CONSTANTS
    MaxTimers,  \* bound: identifiers of timers in use at one time
    MaxPauses   \* bound: calls of PyViz::Pause in one behaviour

ASSUME VisualizerBounds == MaxTimers \in Nat \ {0} /\ MaxPauses \in Nat

Timers == 1 .. MaxTimers
None == 0       \* _update_timeout_id before any timer and after the last

VARIABLES
    lock,       \* who holds SimulationThread.lock
    go,         \* the Event `go' is set
    quit,       \* SimulationThread.quit
    spc,        \* where the simulation thread is in run()
    ahead,      \* simulated time since the last update of the view (periods)
    target,     \* target_time, from the same origin
    helper,     \* m_pauseMessages: messages of the last SimulatorRunUntil
    pending,    \* SimulationThread.pause_messages
    taken,      \* the local pause_messages of the handler being executed
    shown,      \* messages shown in a dialog
    raised,     \* messages ever given to PyViz::Pause
    idles,      \* update_model sources not yet dispatched
    active,     \* the play button is pressed
    live,       \* update timers known to GLib
    timeoutId,  \* _update_timeout_id
    stack,      \* timers whose handler is being executed, the innermost last
    vpc,        \* where the view thread is
    ended       \* gtk.main_quit has been called

simVars  == <<spc, helper, raised>>
msgVars  == <<helper, pending, taken, shown, raised>>
timeVars == <<ahead, target>>
loopVars == <<active, live, timeoutId, stack, ended>>
vars == <<lock, go, quit, spc, ahead, target, helper, pending, taken, shown,
          raised, idles, active, live, timeoutId, stack, vpc, ended>>

Init ==
    /\ lock = "free" /\ go = FALSE /\ quit = FALSE /\ spc = "test"
    /\ ahead = 0 /\ target = 0
    /\ helper = 0 /\ pending = 0 /\ taken = 0 /\ shown = 0 /\ raised = 0
    /\ idles = 0 /\ active = FALSE
    \* The speed control starts the timer once while the window is built.
    /\ live = {1} /\ timeoutId = 1
    /\ stack = <<>> /\ vpc = "loop" /\ ended = FALSE

-----------------------------------------------------------------------------
(* The simulation thread: SimulationThread.run *)

(* while not self.quit *)
SimTest ==
    /\ spc = "test"
    /\ spc' = IF quit THEN "done" ELSE "wait"
    /\ UNCHANGED <<lock, go, quit, timeVars, msgVars, idles, loopVars, vpc>>

(* self.go.wait() *)
SimWake ==
    /\ spc = "wait" /\ go
    /\ spc' = "clear"
    /\ UNCHANGED <<lock, go, quit, timeVars, msgVars, idles, loopVars, vpc>>

(* self.go.clear() *)
SimClear ==
    /\ spc = "clear"
    /\ go' = FALSE
    /\ spc' = "check"
    /\ UNCHANGED <<lock, quit, timeVars, msgVars, idles, loopVars, vpc>>

(* if self.quit: break *)
SimCheck ==
    /\ spc = "check"
    /\ spc' = IF quit THEN "done" ELSE "acquire"
    /\ UNCHANGED <<lock, go, quit, timeVars, msgVars, idles, loopVars, vpc>>

SimAcquire ==
    /\ spc = "acquire" /\ lock = "free"
    /\ lock' = "sim"
    /\ spc' = "run"
    /\ UNCHANGED <<go, quit, timeVars, msgVars, idles, loopVars, vpc>>

(* A mutant: the old messages are cleared only if there is something to run. *)
MessagesKept(m) ==
    helper' = IF ahead < target THEN m ELSE helper

(* What SimulatorRunUntil leaves in m_pauseMessages: the old messages are
   cleared first, and a target that is not in the future runs no event. *)
Messages(m) ==
    helper' = IF ahead < target THEN m ELSE 0

(* PyViz::SimulatorRunUntil (target_time): the simulation may call
   PyViz::Pause, which does not stop it before the target. *)
SimRun ==
    /\ spc = "run"
    /\ \E m \in 0 .. MaxPauses - raised :
          /\ ahead >= target => m = 0
          /\ Messages(m)
          /\ raised' = raised + m
    /\ ahead' = IF ahead < target THEN target ELSE ahead
    /\ spc' = "extend"
    /\ UNCHANGED <<lock, go, quit, target, pending, taken, shown, idles,
                   loopVars, vpc>>

(* A mutant: the list is assigned, not extended. *)
SimExtendAssigns ==
    /\ spc = "extend"
    /\ pending' = helper
    /\ idles' = idles + 1
    /\ spc' = "release"
    /\ UNCHANGED <<lock, go, quit, timeVars, helper, taken, shown, raised,
                   loopVars, vpc>>

(* self.pause_messages.extend(...) and gobject.idle_add(update_model) *)
SimExtend ==
    /\ spc = "extend"
    /\ pending' = pending + helper
    /\ idles' = idles + 1
    /\ spc' = "release"
    /\ UNCHANGED <<lock, go, quit, timeVars, helper, taken, shown, raised,
                   loopVars, vpc>>

SimRelease ==
    /\ spc = "release"
    /\ lock' = "free"
    /\ spc' = "test"
    /\ UNCHANGED <<go, quit, timeVars, msgVars, idles, loopVars, vpc>>

Sim == SimTest \/ SimWake \/ SimClear \/ SimCheck \/ SimAcquire \/ SimRun
       \/ SimExtend \/ SimRelease

-----------------------------------------------------------------------------
(* The main loop and the sources it dispatches *)

(* The view thread is inside gtk.main() or, below a handler, inside the
   loop of update_view_timeout that serves the events. *)
Serving == vpc = "loop" /\ (stack = <<>> => ~ended)

(* A source of a lower priority than update_model can be dispatched. *)
Ready == Serving /\ idles = 0

(* An event of the user: the window is destroyed once it is closed. *)
UserReady == Ready /\ ~quit

(* A timer identifier GLib may return: not one it still knows, nor one a
   running handler or the visualizer remembers. *)
Fresh == Timers \ (live \cup ToSet(stack) \cup {timeoutId})

(* gobject.source_remove(self._update_timeout_id) when it is not None *)
Removed(timers) == timers \ {timeoutId}

(* A mutant: the old timer is removed after the new one was stored. *)
StartUpdateTimerSwapped ==
    \E t \in Fresh : live' = live /\ timeoutId' = t

(* _start_update_timer; MaxTimers bounds it. *)
StartUpdateTimer ==
    \E t \in Fresh : live' = Removed(live) \cup {t} /\ timeoutId' = t

(* The user presses the play button: _on_play_button_toggled. *)
Play ==
    /\ UserReady /\ ~active
    /\ active' = TRUE
    /\ StartUpdateTimer
    /\ UNCHANGED <<lock, go, quit, spc, timeVars, msgVars, idles, stack, vpc,
                   ended>>

(* ... and releases it: the timer is removed but still remembered. *)
Pause ==
    /\ UserReady /\ active
    /\ active' = FALSE
    /\ live' = Removed(live)
    /\ UNCHANGED <<lock, go, quit, spc, timeVars, msgVars, idles, timeoutId,
                   stack, vpc, ended>>

(* _speed_changed restarts the timer, whether or not the simulation plays. *)
SpeedChanged ==
    /\ UserReady
    /\ StartUpdateTimer
    /\ UNCHANGED <<lock, go, quit, spc, timeVars, msgVars, idles, active,
                   stack, vpc, ended>>

(* A timer expires: update_view_timeout is called. *)
Expire(t) ==
    /\ Ready
    /\ t \in live \ ToSet(stack)
    /\ stack' = Append(stack, t)
    /\ vpc' = "try"
    /\ UNCHANGED <<lock, go, quit, spc, timeVars, msgVars, idles, active, live,
                   timeoutId, ended>>

(* while not self.simulation.lock.acquire(False): the lock is busy ... *)
TryFails ==
    /\ vpc = "try" /\ lock # "free"
    /\ vpc' = "loop"
    /\ UNCHANGED <<lock, go, quit, spc, timeVars, msgVars, idles, loopVars>>

(* ... while gtk.events_pending() is over: try again *)
TryAgain ==
    /\ vpc = "loop" /\ stack # <<>> /\ idles = 0
    /\ vpc' = "try"
    /\ UNCHANGED <<lock, go, quit, spc, timeVars, msgVars, idles, loopVars>>

(* A mutant: the result of lock.acquire(False) is ignored. *)
UpdateViewUnlocked ==
    /\ vpc = "try"
    /\ lock' = "view"
    /\ taken' = pending /\ pending' = 0
    /\ ahead' = 0 /\ target' = 1
    /\ vpc' = "held"
    /\ UNCHANGED <<go, quit, spc, helper, shown, raised, idles, loopVars>>

(* ... or the lock is taken: the messages are taken, the view is updated
   and the next target is one sample period ahead of it. *)
UpdateView ==
    /\ vpc = "try" /\ lock = "free"
    /\ lock' = "view"
    /\ taken' = pending /\ pending' = 0
    /\ ahead' = 0 /\ target' = 1
    /\ vpc' = "held"
    /\ UNCHANGED <<go, quit, spc, helper, shown, raised, idles, loopVars>>

ViewRelease ==
    /\ vpc = "held"
    /\ lock' = "free"
    /\ vpc' = "settle"
    /\ UNCHANGED <<go, quit, spc, timeVars, msgVars, idles, loopVars>>

(* The dialog, play_button.set_active(False) and what its handler removes *)
Dialog ==
    /\ shown' = shown + taken /\ taken' = 0
    /\ active' = (active /\ taken = 0)

(* A mutant: `return True' is forgotten, so that GLib removes the timer. *)
SettleNoReturn ==
    /\ vpc = "settle"
    /\ Dialog
    /\ go' = (go \/ active')
    /\ timeoutId' = IF active' THEN timeoutId ELSE None
    /\ live' = live \ {Last(stack)}
    /\ stack' = Front(stack)
    /\ vpc' = "loop"
    /\ UNCHANGED <<lock, quit, spc, timeVars, helper, pending, raised, idles,
                   ended>>

(* A mutant: the handler does not look whether the view was paused. *)
SettleUnpaused ==
    /\ vpc = "settle"
    /\ Dialog
    /\ go' = TRUE
    /\ live' = IF active /\ taken > 0 THEN Removed(live) ELSE live
    /\ stack' = Front(stack)
    /\ vpc' = "loop"
    /\ UNCHANGED <<lock, quit, spc, timeVars, helper, pending, raised, idles,
                   timeoutId, ended>>

(* The rest of update_view_timeout: a paused view drops its timer (it is
   returned False), any other asks for one more period. *)
Settle ==
    /\ vpc = "settle"
    /\ Dialog
    /\ LET known == IF active /\ taken > 0 THEN Removed(live) ELSE live
       IN  IF active'
           THEN /\ go' = TRUE
                /\ UNCHANGED <<timeoutId, live>>
           ELSE /\ timeoutId' = None
                /\ live' = known \ {Last(stack)}
                /\ go' = go
    /\ stack' = Front(stack)
    /\ vpc' = "loop"
    /\ UNCHANGED <<lock, quit, spc, timeVars, helper, pending, raised, idles,
                   ended>>

(* update_model is dispatched and waits for the lock. *)
UpdateModel ==
    /\ Serving /\ idles > 0
    /\ idles' = idles - 1
    /\ vpc' = "model"
    /\ UNCHANGED <<lock, go, quit, spc, timeVars, msgVars, loopVars>>

(* The other handlers that take the lock: tooltips, dragging a node, the
   information windows, capture options and the nodes of interest. *)
Touch ==
    /\ UserReady
    /\ vpc' = "touch"
    /\ UNCHANGED <<lock, go, quit, spc, timeVars, msgVars, idles, loopVars>>

Acquire ==
    /\ vpc \in {"model", "touch"} /\ lock = "free"
    /\ lock' = "view"
    /\ vpc' = "using"
    /\ UNCHANGED <<go, quit, spc, timeVars, msgVars, idles, loopVars>>

Release ==
    /\ vpc = "using"
    /\ lock' = "free"
    /\ vpc' = "loop"
    /\ UNCHANGED <<go, quit, spc, timeVars, msgVars, idles, loopVars>>

(* The window is closed: _quit, up to self.simulation.quit = True. *)
Quit ==
    /\ UserReady
    /\ live' = Removed(live) /\ timeoutId' = None
    /\ quit' = TRUE
    /\ vpc' = "go"
    /\ UNCHANGED <<lock, go, spc, timeVars, msgVars, idles, active, stack,
                   ended>>

(* A mutant: the simulation thread is not woken to see that it must quit. *)
QuitNoGo ==
    /\ vpc = "go"
    /\ vpc' = "join"
    /\ UNCHANGED <<lock, go, quit, spc, timeVars, msgVars, idles, loopVars>>

(* self.simulation.go.set() *)
QuitGo ==
    /\ vpc = "go"
    /\ go' = TRUE
    /\ vpc' = "join"
    /\ UNCHANGED <<lock, quit, spc, timeVars, msgVars, idles, loopVars>>

(* self.simulation.join() returns; gtk.main_quit() *)
QuitJoin ==
    /\ vpc = "join" /\ spc = "done"
    /\ ended' = TRUE
    /\ vpc' = "loop"
    /\ UNCHANGED <<lock, go, quit, spc, timeVars, msgVars, idles, active, live,
                   timeoutId, stack>>

(* gtk.main() has returned: nothing is left to do. *)
Over == ended /\ stack = <<>>

Finished == Over /\ vpc = "loop" /\ UNCHANGED vars

User == Play \/ Pause \/ SpeedChanged \/ Touch \/ Quit

Handler == TryFails \/ TryAgain \/ UpdateView \/ ViewRelease \/ Settle
           \/ UpdateModel \/ Acquire \/ Release \/ QuitGo \/ QuitJoin

Next == Sim \/ User \/ Handler \/ (\E t \in Timers : Expire(t)) \/ Finished

Spec == Init /\ [][Next]_vars

(* Both threads are scheduled; the lock, which is free again and again, is
   not given to the other thread for ever; between two events of the user
   the inner loop of a handler runs out of events, and the main loop has the
   time for every timer that is due.  Nothing makes the user do anything. *)
Fairness ==
    /\ WF_vars(SimTest \/ SimWake \/ SimClear \/ SimCheck \/ SimRun \/ SimExtend
               \/ SimRelease)
    /\ SF_vars(SimAcquire)
    /\ WF_vars(TryFails \/ UpdateView \/ ViewRelease \/ Settle \/ UpdateModel
               \/ Release \/ QuitGo \/ QuitJoin)
    /\ SF_vars(Acquire)
    /\ SF_vars(TryAgain)
    /\ \A t \in Timers : SF_vars(Expire(t))

FairSpec == Spec /\ Fairness

-----------------------------------------------------------------------------
(* Safety *)

TypeOK ==
    /\ lock \in {"free", "sim", "view"}
    /\ go \in BOOLEAN /\ quit \in BOOLEAN
    /\ active \in BOOLEAN /\ ended \in BOOLEAN
    /\ spc \in {"test", "wait", "clear", "check", "acquire", "run", "extend",
                "release", "done"}
    /\ vpc \in {"loop", "try", "held", "settle", "model", "touch", "using",
                "go", "join"}
    /\ ahead \in {0, 1} /\ target \in {0, 1}
    /\ helper \in Nat /\ pending \in Nat /\ taken \in Nat /\ shown \in Nat
    /\ raised \in 0 .. MaxPauses
    /\ idles \in Nat
    /\ live \subseteq Timers /\ timeoutId \in Timers \cup {None}
    /\ stack \in Seq(Timers)

(* The lock is held exactly by the thread that uses ns-3's state: no handler
   returns, serves events, blocks on the lock again or joins the simulation
   thread with the lock in its hand. *)
Exclusive ==
    /\ lock = "sim" <=> spc \in {"run", "extend", "release"}
    /\ lock = "view" <=> vpc \in {"held", "using"}

(* A handler of the timer is being executed where its code says so, and the
   messages are in its hands only then. *)
Nested ==
    /\ vpc \in {"try", "held", "settle"} => stack # <<>>
    /\ vpc \notin {"held", "settle"} => taken = 0

(* The threads tell each other to stop in the right order: the simulation
   thread ends only after quit, and the main loop only after that thread. *)
StopsInOrder ==
    /\ spc = "done" => quit
    /\ ended => spc = "done"
    /\ vpc \in {"go", "join"} => quit
    /\ quit /\ vpc # "go" /\ spc = "wait" => go

(* While the play button is pressed the timer that _update_timeout_id names
   is known to GLib: no order of plays, pauses, changes of the speed and
   nested handlers leaves a view that plays without its timer. *)
PlayRuns == active /\ ~quit => timeoutId \in live

(* Every message of PyViz::Pause is in one place, once, from the call to the
   dialog: in the helper, in the list, in the hands of a handler, or shown. *)
MessagesOnce ==
    raised = shown + taken + pending + (IF spc = "extend" THEN helper ELSE 0)

IInv == TypeOK /\ Exclusive /\ Nested /\ StopsInOrder

-----------------------------------------------------------------------------
(* Liveness *)

(* Once the window is closed both threads end: the simulation thread does not
   miss the signal, and nobody waits for a lock that is never released. *)
QuitEnds == quit ~> Over /\ spc = "done"

(* A visualizer that goes on playing goes on simulating, whatever signals are
   lost between go.wait and go.clear and whatever handlers are nested. *)
Advances == []<>(spc = "run" \/ ~active \/ quit)

(* A paused simulation comes to rest: what was already asked for is simulated,
   and in the end the thread waits, with no signal set. *)
PauseHolds == ~active ~> (spc = "wait" /\ ~go) \/ active \/ quit

(* While the visualizer plays every message is shown in the end. *)
MessagesShown ==
    \A n \in 1 .. MaxPauses : raised >= n ~> shown >= n \/ ~active \/ quit

=============================================================================
