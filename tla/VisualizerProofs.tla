-------------------------- MODULE VisualizerProofs --------------------------
(***************************************************************************)
(* What holds of the visualizer for any number of timers and of messages.  *)
(*                                                                         *)
(* IInv is inductive by itself: the lock and the two program counters      *)
(* determine each other.  PlayRuns and MessagesOnce are then preserved by  *)
(* every step from states that satisfy it.                                 *)
(***************************************************************************)
EXTENDS Visualizer, TLAPS

LEMMA InitIInv == Init => IInv /\ PlayRuns /\ MessagesOnce
<1> SUFFICES ASSUME Init PROVE IInv /\ PlayRuns /\ MessagesOnce
  OBVIOUS
<1>1. 1 \in Timers
  BY VisualizerBounds DEF Timers
<1>2. TypeOK
  <2>1. stack \in Seq(Timers)
    BY DEF Init
  <2>2. live \subseteq Timers /\ timeoutId \in Timers
    BY <1>1 DEF Init
  <2>3. raised \in 0 .. MaxPauses
    BY VisualizerBounds DEF Init
  <2>4. go \in BOOLEAN /\ quit \in BOOLEAN /\ active \in BOOLEAN /\ ended \in BOOLEAN
    BY DEF Init
  <2> QED
    BY <2>1, <2>2, <2>3, <2>4 DEF Init, TypeOK
<1>3. Exclusive /\ Nested /\ StopsInOrder
  BY DEF Init, Exclusive, Nested, StopsInOrder
<1>4. PlayRuns /\ MessagesOnce
  BY DEF Init, PlayRuns, MessagesOnce
<1> QED
  BY <1>2, <1>3, <1>4 DEF IInv

(* The steps of the simulation thread preserve the invariant. *)
LEMMA SimIInv == IInv /\ Sim => IInv'
<1> SUFFICES ASSUME IInv, Sim PROVE IInv'
  OBVIOUS
<1> USE VisualizerBounds
        DEF IInv, TypeOK, Exclusive, Nested, StopsInOrder, simVars, msgVars, timeVars, loopVars
<1>1. CASE SimTest
  BY <1>1 DEF SimTest
<1>2. CASE SimWake
  BY <1>2 DEF SimWake
<1>3. CASE SimClear
  BY <1>3 DEF SimClear
<1>4. CASE SimCheck
  BY <1>4 DEF SimCheck
<1>5. CASE SimAcquire
  BY <1>5 DEF SimAcquire
<1>6. CASE SimRun
  BY <1>6 DEF SimRun, Messages
<1>7. CASE SimExtend
  BY <1>7 DEF SimExtend
<1>8. CASE SimRelease
  BY <1>8 DEF SimRelease
<1> QED
  BY <1>1, <1>2, <1>3, <1>4, <1>5, <1>6, <1>7, <1>8 DEF Sim

(* A handler that ends leaves a stack of timers. *)
LEMMA Popped ==
  ASSUME stack \in Seq(Timers), stack # <<>>
  PROVE  Front(stack) \in Seq(Timers) /\ Last(stack) \in Timers
  BY DEF Front, Last

(* The steps of the view thread preserve the invariant. *)
LEMMA ViewIInv ==
  ASSUME IInv, User \/ Handler \/ \E t \in Timers : Expire(t)
  PROVE  IInv'
<1> USE VisualizerBounds
        DEF IInv, TypeOK, Exclusive, Nested, StopsInOrder, msgVars, timeVars, loopVars,
            Serving, Ready, UserReady, Removed
<1>1. Fresh \subseteq Timers
  BY DEF Fresh
<1>2. CASE Play
  BY <1>1, <1>2 DEF Play, StartUpdateTimer
<1>3. CASE Pause
  BY <1>3 DEF Pause
<1>4. CASE SpeedChanged
  BY <1>1, <1>4 DEF SpeedChanged, StartUpdateTimer
<1>5. CASE Touch
  BY <1>5 DEF Touch
<1>6. CASE Quit
  BY <1>6 DEF Quit
<1>7. CASE TryFails
  BY <1>7 DEF TryFails
<1>8. CASE TryAgain
  BY <1>8 DEF TryAgain
<1>9. CASE UpdateView
  BY <1>9 DEF UpdateView
<1>10. CASE ViewRelease
  BY <1>10 DEF ViewRelease
<1>11. CASE Settle
  <2>1. Front(stack) \in Seq(Timers)
    BY <1>11, Popped DEF Settle
  <2>2. stack' \in Seq(Timers) /\ shown' \in Nat /\ taken' = 0
    BY <1>11, <2>1 DEF Settle, Dialog
  <2>3. active' \in BOOLEAN
    BY <1>11 DEF Settle, Dialog
  <2>4. live' \subseteq Timers /\ timeoutId' \in Timers \cup {None} /\ go' \in BOOLEAN
    <3>1. CASE active'
      BY <1>11, <3>1 DEF Settle
    <3>2. CASE ~active'
      BY <1>11, <3>2 DEF Settle
    <3> QED
      BY <3>1, <3>2
  <2>5. TypeOK'
    BY <1>11, <2>2, <2>3, <2>4 DEF Settle, Dialog
  <2>6. quit /\ spc = "wait" => go'
    <3>1. CASE active'
      BY <1>11, <3>1 DEF Settle
    <3>2. CASE ~active'
      BY <1>11, <3>2 DEF Settle
    <3> QED
      BY <3>1, <3>2
  <2>7. Exclusive' /\ Nested' /\ StopsInOrder'
    BY <1>11, <2>2, <2>6 DEF Settle
  <2> QED
    BY <2>5, <2>7
<1>12. CASE UpdateModel
  BY <1>12 DEF UpdateModel
<1>13. CASE Acquire
  BY <1>13 DEF Acquire
<1>14. CASE Release
  BY <1>14 DEF Release
<1>15. CASE QuitGo
  BY <1>15 DEF QuitGo
<1>16. CASE QuitJoin
  BY <1>16 DEF QuitJoin
<1>17. ASSUME NEW t \in Timers, Expire(t)
       PROVE  IInv'
  BY <1>17 DEF Expire
<1> QED
  BY <1>2, <1>3, <1>4, <1>5, <1>6, <1>7, <1>8, <1>9, <1>10, <1>11, <1>12,
     <1>13, <1>14, <1>15, <1>16, <1>17 DEF User, Handler

(* A step in which nothing happens. *)
LEMMA StutterIInv == IInv /\ UNCHANGED vars => IInv'
  BY DEF vars, IInv, TypeOK, Exclusive, Nested, StopsInOrder, Timers

LEMMA NextIInv == IInv /\ [Next]_vars => IInv'
  BY SimIInv, ViewIInv, StutterIInv DEF Next, Finished

(* Types, the lock and the order of the end: whatever the timers, handlers
   and messages, ns-3's state is used by the thread that holds the lock, and
   by one thread at a time. *)
THEOREM InvariantHolds == Spec => []IInv
  BY InitIInv, NextIInv, PTL DEF Spec

-----------------------------------------------------------------------------
(* The play button and its timer *)

LEMMA NextPlayRuns == IInv /\ PlayRuns /\ [Next]_vars => PlayRuns'
<1> SUFFICES ASSUME IInv, PlayRuns, [Next]_vars PROVE PlayRuns'
  OBVIOUS
<1> USE DEF PlayRuns, msgVars, timeVars, loopVars, Removed
<1> DEFINE Same == UNCHANGED <<active, quit, live, timeoutId>>
<1>0. Same => PlayRuns'
  OBVIOUS
<1>1. CASE Sim
  <2>1. Same
    BY <1>1 DEF Sim, SimTest, SimWake, SimClear, SimCheck, SimAcquire, SimRun,
                SimExtend, SimRelease
  <2> QED
    BY <2>1, <1>0
<1>2. CASE Play \/ SpeedChanged
  <2>1. timeoutId' \in live'
    BY <1>2 DEF Play, SpeedChanged, StartUpdateTimer
  <2> QED
    BY <2>1
<1>3. CASE Pause \/ Quit
  <2>1. ~active' \/ quit'
    BY <1>3 DEF Pause, Quit
  <2> QED
    BY <2>1
<1>4. CASE Settle
  <2>1. CASE active'
    <3>1. active
      BY <1>4, <2>1 DEF Settle, Dialog
    <3>2. timeoutId' = timeoutId /\ live' = live /\ quit' = quit
      BY <1>4, <2>1 DEF Settle
    <3> QED
      BY <3>1, <3>2
  <2>2. CASE ~active'
    BY <2>2
  <2> QED
    BY <2>1, <2>2
<1>5. CASE Touch \/ (Handler /\ ~Settle)
  <2>1. Same
    BY <1>5 DEF Touch, Handler, TryFails, TryAgain, UpdateView, ViewRelease,
                UpdateModel, Acquire, Release, QuitGo, QuitJoin
  <2> QED
    BY <2>1, <1>0
<1>6. ASSUME NEW t \in Timers, Expire(t)
      PROVE  PlayRuns'
  BY <1>6 DEF Expire
<1>7. CASE UNCHANGED vars
  BY <1>7 DEF vars
<1> QED
  BY <1>1, <1>2, <1>3, <1>4, <1>5, <1>6, <1>7 DEF Next, User, Finished

(* A view that plays has its timer: the timer _update_timeout_id names is
   known to GLib whenever the play button is pressed. *)
THEOREM PlayingHasTimer == Spec => []PlayRuns
<1>1. Init => PlayRuns
  BY InitIInv
<1> QED
  BY <1>1, InvariantHolds, NextPlayRuns, PTL DEF Spec

-----------------------------------------------------------------------------
(* The pause messages *)

LEMMA NextMessagesOnce == IInv /\ MessagesOnce /\ [Next]_vars => MessagesOnce'
<1> SUFFICES ASSUME IInv, MessagesOnce, [Next]_vars PROVE MessagesOnce'
  OBVIOUS
<1> USE DEF MessagesOnce, IInv, TypeOK, Nested, msgVars, timeVars, loopVars
<1>1. CASE SimTest \/ SimWake \/ SimClear \/ SimCheck \/ SimAcquire \/ SimRelease
  BY <1>1 DEF SimTest, SimWake, SimClear, SimCheck, SimAcquire, SimRelease
<1>2. CASE SimRun
  BY <1>2 DEF SimRun, Messages
<1>3. CASE SimExtend
  BY <1>3 DEF SimExtend
<1>4. CASE UpdateView
  BY <1>4 DEF UpdateView
<1>5. CASE Settle
  BY <1>5 DEF Settle, Dialog
<1>6. CASE (User \/ Handler) /\ ~UpdateView /\ ~Settle
  BY <1>6 DEF User, Play, Pause, SpeedChanged, Touch, Quit, Handler, TryFails,
              TryAgain, ViewRelease, UpdateModel, Acquire, Release, QuitGo, QuitJoin
<1>7. ASSUME NEW t \in Timers, Expire(t)
      PROVE  MessagesOnce'
  BY <1>7 DEF Expire
<1>8. CASE UNCHANGED vars
  BY <1>8 DEF vars
<1> QED
  BY <1>1, <1>2, <1>3, <1>4, <1>5, <1>6, <1>7, <1>8 DEF Next, Sim, Finished

(* No message of PyViz::Pause is lost and none is shown twice, however the
   signals of the threads and the handlers interleave. *)
THEOREM EachMessageOnce == Spec => []MessagesOnce
<1>1. Init => MessagesOnce
  BY InitIInv
<1> QED
  BY <1>1, InvariantHolds, NextMessagesOnce, PTL DEF Spec
=============================================================================
