--------------------------- MODULE Termination_proofs ---------------------------
(***************************************************************************)
(* Theorems about Termination, for any children and any number of signals. *)
(*                                                                         *)
(* After one signal, what was sent is in exactly one place on its way to   *)
(* akm and through it: with the launcher, with akm, in the guard, or in    *)
(* the abort of a command that handles signals.  The invariant says so,    *)
(* and what the listeners of akm know of its children at each place.       *)
(***************************************************************************)
EXTENDS Termination, TLAPS

\* A child that no call of akm waits for.
Apart(c) == leader[c] \in {"none", "back"}

\* Before akm is started there is nothing of it.
Fresh == akm = "none" =>
  /\ pending = {} /\ own = {} /\ ~aborted /\ guard = {} /\ raise = {}
  /\ \A c \in Children : leader[c] = "none"

\* While the launcher is up, akm has what came through it and nothing else.
Through == launcher = "up" =>
  /\ pending \cap once = {} /\ akm \notin once
  /\ \A r \in raise : r[1] \notin once

\* Either kind of command has a listener while a child of it lives, or a signal
\* that is held back until that child is gone.
OwnListens == handles =>
  /\ guard = {} /\ raise = {}
  /\ ~aborted => own \in {{}, Guarded}
  /\ own = {} /\ ~aborted => \A c \in Children : Apart(c)
GuardListens == ~handles =>
  /\ own = {} /\ ~aborted /\ guard \in {{}, Guarded}
  /\ guard = {} => Live = {} \/ \E r \in raise : Live \subseteq r[2]
Listening == akm = "running" => OwnListens /\ GuardListens

\* The places of the first signal.
One(P) == \E s \in Guarded : P = {s}
Untold == pending = {} /\ raise = {} /\ ~aborted
Waits == One(pending) /\ raise = {} /\ ~aborted
Held == pending = {} /\ ~aborted /\ \E s \in Guarded, K \in SUBSET Children : raise = {<<s, K>>}
Taken == pending = {} /\ raise = {} /\ aborted
Arriving == (launcher = "up" /\ inbox # {}) \/ (launcher = "crashed" /\ watching = "on")
Forwards == \E s \in Guarded : once = Forwarded \ {s}

NoSignal == signals = 0 => inbox = {} /\ once = Forwarded /\ launcher # "crashed" /\ Untold
OneSignal == signals <= 1 =>
  /\ inbox # {} => once = Forwarded /\ launcher # "crashed" /\ One(inbox)
  /\ once # Forwarded => inbox = {} /\ launcher # "crashed" /\ Forwards
  /\ launcher = "crashed" => inbox = {} /\ once = Forwarded
  /\ akm = "running" => launcher \in {"up", "crashed"}
OnePlace == signals <= 1 =>
  /\ Arriving => Untold
  /\ akm = "running" => Untold \/ Waits \/ Held \/ Taken

IInv == TypeOK /\ Fresh /\ Through /\ Listening /\ NoSignal /\ OneSignal /\ OnePlace
        /\ ChildrenFirst /\ LauncherReflects

\* A step of the launcher or of what surrounds it.
Front == LauncherStep \/ (\E s \in Sent : SendLauncher(s)) \/ CrashLauncher
\* A child's step that leaves signals and listeners alone.
Quiet(c) == Timeout(c) \/ Terminate(c) \/ Kill(c) \/ Return(c) \/ LeaderExits(c) \/ MemberExits(c)

-----------------------------------------------------------------------------
LEMMA TypeInit == ASSUME Init PROVE TypeOK
<1>1. raise \in SUBSET (Guarded \X SUBSET Children) /\ handles \in BOOLEAN /\ aborted \in BOOLEAN
  BY DEF Init
<1>2. QED  BY <1>1, SignalsAssumption DEF Init, TypeOK

LEMMA FrontType == ASSUME TypeOK, Front PROVE TypeOK'
<1> USE SignalsAssumption DEF TypeOK, front, kids, listeners, Signal, Reached
<1>1. CASE StartAkm
  BY <1>1 DEF StartAkm, Forwarded
<1>2. CASE EndLauncher
  BY <1>2 DEF EndLauncher, Ended, Forwarded
<1>3. CASE \E s \in Forwarded : Forward(s)
  BY <1>3 DEF Forward, AfterForward, Forwarded
<1>4. CASE \E s \in Sent : SendLauncher(s)
  BY <1>4 DEF SendLauncher, Forwarded, Guarded
<1>5. CASE CrashLauncher
  BY <1>5 DEF CrashLauncher
<1>6. QED  BY <1>1, <1>2, <1>3, <1>4, <1>5 DEF Front, LauncherStep

LEMMA AkmType == ASSUME TypeOK, AkmStep PROVE TypeOK'
<1> USE DEF TypeOK, front, kids, listeners, Running
<1>1. CASE StartWatchdog
  BY <1>1 DEF StartWatchdog
<1>2. CASE Watchdog
  BY <1>2 DEF Watchdog, Forwarded
<1>3. CASE Listen
  BY <1>3 DEF Listen
<1>4. CASE Unlisten
  BY <1>4 DEF Unlisten
<1>5. CASE Exit
  BY <1>5 DEF Exit
<1>6. ASSUME NEW s \in Forwarded, Handle(s) PROVE TypeOK'
  <2>1. /\ pending' \subseteq Forwarded
        /\ own' \subseteq Guarded /\ aborted' \in BOOLEAN /\ guard' \subseteq Guarded
        /\ akm' \in {"none", "running", "exited"} \cup Forwarded
    BY <1>6 DEF Handle
  <2>2. raise' \subseteq Guarded \X SUBSET Children
    <3>1. Live \in SUBSET Children
      BY DEF Live
    <3>2. CASE UNCHANGED raise
      BY <3>2
    <3>3. CASE s \in guard /\ raise' = raise \cup {<<s, Awaited>>}
      BY <3>1, <3>3 DEF Awaited
    <3>4. QED  BY <1>6, <3>2, <3>3 DEF Handle
  <2>3. ladder' \in [Children -> {"off", "int", "term"}]
    BY <1>6 DEF Handle, StartLadder
  <2>4. QED  BY <1>6, <2>1, <2>2, <2>3 DEF Handle
<1>7. ASSUME NEW r \in raise, Raise(r) PROVE TypeOK'
  <2>1. r[1] \in Forwarded
    BY DEF Forwarded, Guarded
  <2>2. QED  BY <1>7, <2>1 DEF Raise, Raised
<1>8. QED  BY <1>1, <1>2, <1>3, <1>4, <1>5, <1>6, <1>7 DEF AkmStep

LEMMA ChildType == ASSUME TypeOK, NEW c \in Children, ChildStep(c) PROVE TypeOK'
<1> USE DEF TypeOK, front, kids, listeners, Running
<1>1. CASE Spawn(c)
  BY <1>1 DEF Spawn, Installed
<1>2. CASE Timeout(c)
  BY <1>2 DEF Timeout, StartLadder
<1>3. CASE Terminate(c)
  BY <1>3 DEF Terminate
<1>4. CASE Kill(c)
  BY <1>4 DEF Kill
<1>5. CASE Notice(c)
  BY <1>5 DEF Notice
<1>6. CASE Return(c)
  BY <1>6 DEF Return
<1>7. CASE LeaderExits(c)
  BY <1>7 DEF LeaderExits
<1>8. CASE MemberExits(c)
  BY <1>8 DEF MemberExits
<1>9. QED  BY ChildStep(c), <1>1, <1>2, <1>3, <1>4, <1>5, <1>6, <1>7, <1>8 DEF ChildStep

LEMMA TypeStep == TypeOK /\ [Next]_vars => TypeOK'
<1>1. ASSUME TypeOK, UNCHANGED vars PROVE TypeOK'
  BY <1>1 DEF TypeOK, vars, front, kids, listeners
<1>2. QED  BY <1>1, FrontType, AkmType, ChildType DEF Next, Front

\* Every variable keeps its type, for any children and any number of signals.
THEOREM TypeCorrect == Spec => []TypeOK
BY TypeInit, TypeStep, PTL DEF Spec
-----------------------------------------------------------------------------
LEMMA InvInit == ASSUME Init PROVE IInv
<1>1. TypeOK
  BY TypeInit
<1>2. Fresh /\ Through /\ Listening /\ NoSignal /\ OneSignal /\ OnePlace
  BY DEF Init, Fresh, Through, Listening, NoSignal, OneSignal, OnePlace, Arriving, Untold, Forwarded
<1>3. ChildrenFirst /\ LauncherReflects
  BY DEF Init, ChildrenFirst, LauncherReflects, Ended, Forwarded
<1>4. QED  BY <1>1, <1>2, <1>3 DEF IInv

\* What the steps of a child that are quiet leave alone, and what they do to it.
LEMMA QuietKeeps == ASSUME TypeOK, NEW c \in Children, Quiet(c)
  PROVE /\ UNCHANGED <<launcher, once, inbox, akm, pending, own, guard, raise, watching, signals>>
        /\ handles' = handles /\ aborted' = aborted
        /\ Live' = Live
        /\ \A d \in Children : Apart(d) => Apart(d)'
        /\ \A d \in Children : leader[d] # "running" => leader'[d] # "running"
        /\ \A d \in Children : leader[d] = "none" => leader'[d] = "none"
<1> USE DEF TypeOK, Live, Apart, kids, listeners, front
<1>1. CASE UNCHANGED leader
  BY <1>1, Quiet(c) DEF Quiet, Timeout, Terminate, Kill, Return, LeaderExits, MemberExits
<1>2. CASE Return(c)
  BY <1>2 DEF Return
<1>3. CASE LeaderExits(c)
  BY <1>3 DEF LeaderExits
<1>4. QED  BY Quiet(c), <1>1, <1>2, <1>3 DEF Quiet, Timeout, Terminate, Kill, MemberExits

\* Steps of the launcher and around it: of akm they change at most that it is
\* there, and what waits for it.
LEMMA FrontKeeps == ASSUME TypeOK, Front
  PROVE /\ handles' = handles /\ aborted' = aborted
        /\ UNCHANGED <<own, guard, raise, leader, watching>>
        /\ akm' = akm \/ (akm = "none" /\ akm' = "running")
<1> USE DEF TypeOK, kids, listeners, front
<1>1. CASE StartAkm \/ EndLauncher
  BY <1>1 DEF StartAkm, EndLauncher
<1>2. CASE (\E s \in Forwarded : Forward(s)) \/ CrashLauncher
  BY <1>2 DEF Forward, CrashLauncher
<1>3. CASE \E s \in Sent : SendLauncher(s)
  BY <1>3 DEF SendLauncher
<1>4. QED  BY Front, <1>1, <1>2, <1>3 DEF Front, LauncherStep

LEMMA FreshStep == ASSUME TypeOK, Fresh, Next PROVE Fresh'
<1> USE DEF Fresh
<1>1. CASE Front
  <2>1. CASE StartAkm
    BY <2>1, FrontKeeps, <1>1 DEF StartAkm
  <2>2. CASE EndLauncher \/ (\E s \in Forwarded : Forward(s)) \/ (\E s \in Sent : SendLauncher(s)) \/ CrashLauncher
    <3>1. akm = "none" => pending' = pending
      BY <2>2 DEF EndLauncher, Forward, SendLauncher, Reached, CrashLauncher
    <3>2. QED  BY <2>2, <3>1, FrontKeeps, <1>1 DEF StartAkm, EndLauncher, Forward, SendLauncher, CrashLauncher
  <2>3. QED  BY <1>1, <2>1, <2>2 DEF Front, LauncherStep
<1>2. CASE AkmStep
  BY <1>2 DEF AkmStep, StartWatchdog, Watchdog, Listen, Unlisten, Exit, Handle, Raise, Running, TypeOK, Forwarded
<1>3. ASSUME NEW c \in Children, ChildStep(c) PROVE Fresh'
  <2>1. CASE Quiet(c)
    BY <2>1, QuietKeeps
  <2>2. CASE Spawn(c) \/ Notice(c)
    BY <2>2 DEF Spawn, MayStart, Notice, Running
  <2>3. QED  BY <1>3, <2>1, <2>2 DEF ChildStep, Quiet
<1>4. QED  BY <1>1, <1>2, <1>3 DEF Next, Front

LEMMA ThroughStep == ASSUME TypeOK, Fresh, Through, Next PROVE Through'
<1> USE DEF Through
<1>1. CASE Front
  <2>1. CASE StartAkm
    BY <2>1 DEF StartAkm, listeners, Fresh, TypeOK, Forwarded
  <2>2. CASE EndLauncher \/ CrashLauncher
    BY <2>2, <1>1 DEF EndLauncher, CrashLauncher, TypeOK, Forwarded
  <2>3. CASE \E s \in Forwarded : Forward(s)
    BY <2>3 DEF Forward, AfterForward, listeners
  <2>4. CASE \E s \in Sent : SendLauncher(s)
    BY <2>4 DEF SendLauncher, Reached, listeners
  <2>5. QED  BY <1>1, <2>1, <2>2, <2>3, <2>4 DEF Front, LauncherStep
<1>2. CASE AkmStep
  <2>1. CASE Watchdog
    BY <2>1 DEF Watchdog, Orphaned, front
  <2>2. CASE StartWatchdog \/ Listen \/ Unlisten \/ Exit
    <3>1. UNCHANGED <<launcher, once, pending, raise>> /\ akm' \in {akm, "exited"}
      BY <2>2 DEF StartWatchdog, Listen, Unlisten, Exit, front, listeners
    <3>2. QED  BY <3>1 DEF TypeOK, Forwarded
  <2>3. ASSUME NEW s \in Forwarded, Handle(s), launcher = "up" PROVE Through'
    <3>1. s \notin once
      BY <2>3 DEF Handle
    <3>2. \A r \in raise' : r \in raise \/ r[1] = s
      BY <2>3 DEF Handle
    <3>3. QED  BY <2>3, <3>1, <3>2 DEF Handle, Fatal, front
  <2>4. ASSUME NEW r \in raise, Raise(r) PROVE Through'
    BY <2>4 DEF Raise, Raised, front
  <2>5. QED
    BY <1>2, <2>1, <2>2, <2>3, <2>4 DEF AkmStep, Handle, front
<1>3. ASSUME NEW c \in Children, ChildStep(c) PROVE Through'
  <2>1. CASE Quiet(c)
    BY <2>1, QuietKeeps
  <2>2. CASE Spawn(c) \/ Notice(c)
    BY <2>2 DEF Spawn, Notice, front
  <2>3. QED  BY <1>3, <2>1, <2>2 DEF ChildStep, Quiet
<1>4. QED  BY <1>1, <1>2, <1>3 DEF Next, Front
-----------------------------------------------------------------------------
(* Listeners and children.                                                 *)

LEMMA ListeningAkm == ASSUME TypeOK, Listening, AkmStep PROVE Listening'
<1> USE DEF Listening, OwnListens, GuardListens
<1>1. CASE StartWatchdog \/ Watchdog
  BY <1>1 DEF StartWatchdog, Watchdog, kids, listeners, Running, Live, Apart
<1>2. CASE Listen
  BY <1>2 DEF Listen, kids, Running, Live, Apart
<1>3. CASE Unlisten
  BY <1>3 DEF Unlisten, kids, Running, Live, Apart
<1>4. CASE Exit
  BY <1>4 DEF Exit
<1>5. ASSUME NEW s \in Forwarded, Handle(s), akm' = "running" PROVE Listening'
  <2>1. /\ akm = "running" /\ handles' = handles /\ leader' = leader /\ Live' = Live
        /\ Live \subseteq Children
    BY <1>5 DEF Handle, Live
  <2>2. CASE s \in own /\ own' = own \ {s} /\ aborted' = TRUE /\ UNCHANGED <<guard, raise>>
    BY <2>1, <2>2
  <2>3. CASE s \in guard /\ guard' = {} /\ raise' = raise \cup {<<s, Live>>}
             /\ own' = own /\ aborted' = aborted
    <3>1. ~handles
      BY <2>1, <2>3
    <3>2. <<s, Live>> \in raise' /\ <<s, Live>>[2] = Live
      BY <2>3
    <3>3. \E r \in raise' : Live' \subseteq r[2]
      BY <2>1, <3>2
    <3>4. OwnListens' /\ own' = {} /\ ~aborted' /\ guard' = {}
      BY <2>1, <2>3, <3>1
    <3>5. QED  BY <3>3, <3>4
  <2>4. QED  BY <1>5, <2>1, <2>2, <2>3 DEF Handle, Awaited, Forwarded
<1>6. ASSUME NEW r \in raise, Raise(r) PROVE Listening'
  <2>1. /\ akm = "running" /\ handles' = handles /\ aborted' = aborted /\ leader' = leader
        /\ own' = own /\ guard' = guard /\ raise' = raise \ {r} /\ Live' = Live
        /\ r[2] \cap Live = {}
    BY <1>6 DEF Raise, Running, kids, Live
  <2>2. ~handles
    BY <2>1
  <2>3. Live \subseteq r[2] => Live = {}
    BY <2>1
  <2>4. QED  BY <2>1, <2>2, <2>3
<1>7. QED  BY AkmStep, <1>1, <1>2, <1>3, <1>4, <1>5, <1>6 DEF AkmStep

LEMMA ListeningChild == ASSUME TypeOK, Listening, NEW c \in Children, ChildStep(c) PROVE Listening'
<1> USE DEF Listening, OwnListens, GuardListens
<1>1. CASE Quiet(c)
  BY <1>1, QuietKeeps
<1>2. CASE Spawn(c)
  <2>1. /\ akm = "running" /\ akm' = akm /\ handles' = handles /\ aborted' = aborted
        /\ own' = own /\ raise' = raise /\ (handles => own # {} /\ ~aborted)
    BY <1>2 DEF Spawn, MayStart, Running
  <2>2. handles => guard' = guard
    BY <1>2, <2>1 DEF Spawn, Installed
  <2>3. ~handles => guard' \in {{}, Guarded} /\ (guard' = {} => Live' = {})
    BY <1>2, <2>1 DEF Spawn, Installed, Live, TypeOK, Guarded
  <2>4. QED  BY <2>1, <2>2, <2>3
<1>3. CASE Notice(c)
  <2>1. /\ akm = "running" /\ akm' = akm /\ handles' = handles /\ aborted' = aborted
        /\ own' = own /\ raise' = raise /\ guard' \in {guard, {}}
    BY <1>3 DEF Notice, Running
  <2>2. Live' = Live \ {c} /\ (guard' = guard \/ Live' = {})
    BY <1>3 DEF Notice, Live, TypeOK
  <2>3. \A d \in Children : Apart(d) => Apart(d)'
    BY <1>3 DEF Notice, Apart, TypeOK
  <2>4. QED  BY <2>1, <2>2, <2>3
<1>4. QED  BY ChildStep(c), <1>1, <1>2, <1>3 DEF ChildStep, Quiet

LEMMA ListeningStep == ASSUME TypeOK, Fresh, Listening, Next PROVE Listening'
<1>1. CASE Front
  <2>1. /\ handles' = handles /\ aborted' = aborted
        /\ UNCHANGED <<own, guard, raise, leader, watching>>
        /\ akm' = akm \/ (akm = "none" /\ akm' = "running")
    BY <1>1, FrontKeeps
  <2>2. Live' = Live /\ \A c \in Children : Apart(c)' = Apart(c)
    BY <2>1 DEF Live, Apart
  <2>3. CASE akm = "none"
    BY <2>1, <2>3 DEF Fresh, Listening, OwnListens, GuardListens, Live, Apart
  <2>4. CASE akm' = akm
    BY <2>1, <2>2, <2>4 DEF Listening, OwnListens, GuardListens
  <2>5. QED  BY <2>1, <2>3, <2>4
<1>2. QED  BY <1>1, ListeningAkm, ListeningChild DEF Next, Front
-----------------------------------------------------------------------------
(* The first signal.                                                       *)

Signals == NoSignal /\ OneSignal /\ OnePlace

\* No step of a child moves a signal.
LEMMA ChildKeeps == ASSUME TypeOK, NEW c \in Children, ChildStep(c)
  PROVE /\ UNCHANGED <<launcher, once, inbox, akm, pending, raise, watching, signals>>
        /\ aborted' = aborted /\ handles' = handles
<1>1. CASE Quiet(c)
  BY <1>1, QuietKeeps
<1>2. CASE Spawn(c) \/ Notice(c)
  BY <1>2 DEF Spawn, Notice, front, TypeOK
<1>3. QED  BY ChildStep(c), <1>1, <1>2 DEF ChildStep, Quiet

LEMMA SignalsChild == ASSUME TypeOK, Signals, NEW c \in Children, ChildStep(c) PROVE Signals'
BY ChildKeeps DEF Signals, NoSignal, OneSignal, OnePlace, Arriving, Untold, Waits, Held, Taken, One, Forwards

LEMMA SignalsFront == ASSUME TypeOK, Fresh, Signals, Front PROVE Signals'
<1> USE DEF Signals, NoSignal, OneSignal, OnePlace
<1>0. /\ handles' = handles /\ aborted' = aborted
      /\ UNCHANGED <<own, guard, raise, leader, watching>>
      /\ akm' = akm \/ (akm = "none" /\ akm' = "running")
  BY FrontKeeps
<1>a. signals \in Nat
  BY SignalsAssumption DEF TypeOK
<1>1. CASE StartAkm
  <2>1. launcher = "up" /\ akm = "none" /\ Untold /\ UNCHANGED <<once, inbox, signals>>
    BY <1>1 DEF StartAkm, Fresh, Untold
  <2>2. CASE launcher' = "failed" /\ UNCHANGED <<akm, pending>>
    <3>1. Untold' /\ One(inbox)' = One(inbox) /\ Forwards' = Forwards /\ ~Arriving'
      BY <1>0, <2>1, <2>2 DEF Arriving, Untold, One, Forwards
    <3>2. QED  BY <2>1, <2>2, <3>1
  <2>3. CASE akm' = "running" /\ pending' = Forwarded \ once /\ launcher' = launcher
    <3>1. signals <= 1 => (once = Forwarded /\ Untold') \/ (inbox = {} /\ Waits')
      <4>1. CASE once = Forwarded
        BY <1>0, <2>1, <2>3, <4>1 DEF Untold
      <4>2. CASE signals <= 1 /\ once # Forwarded
        <5>1. inbox = {} /\ Forwards
          BY <4>2
        <5>2. One(pending')
          BY <2>3, <5>1 DEF Forwards, One, Forwarded, Guarded
        <5>3. QED  BY <1>0, <2>1, <5>1, <5>2 DEF Waits, Untold, One
      <4>3. QED  BY <4>1, <4>2
    <3>2. NoSignal'
      BY <1>0, <2>1, <2>3 DEF Untold
    <3>3. OneSignal'
      BY <2>1, <2>3 DEF Forwards
    <3>4. OnePlace'
      BY <2>1, <2>3, <3>1 DEF Arriving
    <3>5. QED  BY <3>2, <3>3, <3>4
  <2>4. QED  BY <1>1, <2>2, <2>3 DEF StartAkm
<1>2. CASE EndLauncher
  <2>1. akm \notin {"none", "running"} /\ akm' = akm /\ launcher' # "up" /\ launcher' # "crashed"
        /\ UNCHANGED <<once, inbox, pending, signals>>
    BY <1>2 DEF EndLauncher, Ended, TypeOK, Forwarded
  <2>2. Untold' = Untold /\ One(inbox)' = One(inbox) /\ Forwards' = Forwards /\ ~Arriving'
    BY <1>0, <2>1 DEF Arriving, Untold, One, Forwards
  <2>3. QED  BY <1>0, <2>1, <2>2
<1>3. ASSUME NEW s \in Forwarded, Forward(s) PROVE Signals'
  <2>1. launcher = "up" /\ s \in inbox /\ inbox' = inbox \ {s} /\ akm' = akm /\ signals' = signals
    BY <1>3 DEF Forward
  <2>2. CASE signals <= 1
    <3>1. s \in Guarded /\ inbox' = {} /\ once = Forwarded /\ Untold /\ signals # 0
      BY <2>1, <2>2 DEF One, Arriving
    <3>2. once' = once \ {s} /\ launcher' = launcher
          /\ pending' = IF akm = "running" THEN pending \cup {s} ELSE pending
      BY <1>3, <3>1 DEF Forward, AfterForward
    <3>3. Forwards'
      BY <3>1, <3>2 DEF Forwards
    <3>4. NoSignal' /\ OneSignal'
      BY <2>1, <2>2, <3>1, <3>2, <3>3
    <3>5. ~Arriving'
      BY <2>1, <3>1, <3>2 DEF Arriving
    <3>6. akm = "running" => One(pending') /\ raise' = {} /\ ~aborted'
      BY <1>0, <3>1, <3>2 DEF Untold, One
    <3>7. OnePlace'
      BY <2>1, <3>5, <3>6 DEF Waits, One
    <3>8. QED  BY <3>4, <3>7
  <2>3. QED  BY <1>a, <2>1, <2>2
<1>4. ASSUME NEW s \in Sent, SendLauncher(s) PROVE Signals'
  <2>1. signals' = signals + 1 /\ inbox' = inbox \cup {s} /\ launcher = "up"
        /\ UNCHANGED <<launcher, once, akm, pending>>
    BY <1>4 DEF SendLauncher, Signal, Reached
  <2>2. CASE signals = 0
    <3>1. inbox' = {s} /\ s \in Guarded /\ once = Forwarded /\ Untold
      BY <2>1, <2>2, SignalsAssumption
    <3>2. Untold' /\ One(inbox')
      BY <1>0, <2>1, <3>1 DEF Untold, One
    <3>3. QED  BY <2>1, <2>2, <3>1, <3>2
  <2>3. QED  BY <1>a, <2>1, <2>2
<1>5. CASE CrashLauncher
  <2>1. signals' = signals + 1 /\ launcher' = "crashed" /\ UNCHANGED <<once, inbox, akm, pending>>
    BY <1>5 DEF CrashLauncher, Signal
  <2>2. CASE signals = 0
    <3>1. Untold'
      BY <1>0, <2>1, <2>2 DEF Untold
    <3>2. QED  BY <2>1, <2>2, <3>1
  <2>3. QED  BY <1>a, <2>1, <2>2
<1>6. QED  BY Front, <1>1, <1>2, <1>3, <1>4, <1>5 DEF Front, LauncherStep

LEMMA SignalsAkm == ASSUME TypeOK, Listening, Signals, AkmStep PROVE Signals'
<1> USE DEF Signals, NoSignal, OneSignal, OnePlace
<1>0. UNCHANGED <<launcher, once, inbox, signals>> /\ akm = "running" /\ Forwards' = Forwards
  BY DEF AkmStep, StartWatchdog, Watchdog, Listen, Unlisten, Exit, Handle, Raise, Running, front, Forwards
<1>1. CASE StartWatchdog
  <2>1. UNCHANGED <<akm, pending, raise>> /\ aborted' = aborted
        /\ watching' = IF launcher = "up" THEN "on" ELSE "blind"
    BY <1>1 DEF StartWatchdog, listeners, TypeOK
  <2>2. Arriving' => Arriving
    BY <1>0, <2>1 DEF Arriving
  <2>3. QED  BY <1>0, <2>1, <2>2 DEF Untold, Waits, Held, Taken, One
<1>2. CASE Watchdog
  <2>1. watching = "on" /\ launcher # "up" /\ UNCHANGED <<akm, raise>> /\ aborted' = aborted
        /\ watching' = "fired" /\ pending' = pending \cup {"SIGTERM"}
    BY <1>2 DEF Watchdog, listeners, TypeOK, Orphaned
  <2>2. signals <= 1 => launcher = "crashed" /\ Untold
    BY <1>0, <2>1 DEF Arriving
  <2>3. signals <= 1 => Waits'
    BY <2>1, <2>2 DEF Untold, Waits, One, Guarded
  <2>4. signals # 0 /\ ~Arriving'
    BY <1>0, <2>1, <2>2 DEF Arriving
  <2>5. QED  BY <1>0, <2>1, <2>3, <2>4 DEF One
<1>3. CASE Listen \/ Unlisten \/ Exit
  <2>1. UNCHANGED <<pending, raise, watching>> /\ aborted' = aborted /\ akm' \in {akm, "exited"}
    BY <1>3 DEF Listen, Unlisten, Exit, listeners, TypeOK
  <2>2. QED  BY <1>0, <2>1 DEF Arriving, Untold, Waits, Held, Taken, One
<1>4. ASSUME NEW s \in Forwarded, Handle(s) PROVE Signals'
  <2>1. s \in pending /\ watching' = watching
    BY <1>4 DEF Handle
  <2>2. CASE signals <= 1
    <3>1. Waits /\ pending = {s} /\ s \in Guarded /\ ~Arriving /\ signals # 0
      BY <1>0, <2>1, <2>2 DEF Untold, Waits, Held, Taken, One
    <3>2. pending' = {}
      BY <1>4, <3>1 DEF Handle
    <3>3. akm' = "running" => Held' \/ Taken'
      <4>1. CASE aborted' = TRUE /\ UNCHANGED raise
        BY <3>1, <3>2, <4>1 DEF Waits, Taken
      <4>2. CASE aborted' = aborted /\ raise' = raise \cup {<<s, Live>>}
        <5>1. Live \in SUBSET Children /\ raise' = {<<s, Live>>}
          BY <3>1, <4>2 DEF Live, Waits
        <5>2. QED  BY <3>1, <3>2, <4>2, <5>1 DEF Waits, Held
      <4>3. QED  BY <1>4, <4>1, <4>2 DEF Handle, Awaited, Forwarded
    <3>4. ~Arriving'
      BY <1>0, <2>1, <3>1 DEF Arriving
    <3>5. QED  BY <1>0, <3>1, <3>3, <3>4, <1>4 DEF One, Handle, Forwarded
  <2>3. QED  BY <1>0, <2>2, SignalsAssumption DEF TypeOK
<1>5. ASSUME NEW r \in raise, Raise(r) PROVE Signals'
  <2>1. raise' = raise \ {r} /\ pending' = pending \cup {r[1]} /\ akm' = akm /\ watching' = watching
        /\ aborted' = aborted
    BY <1>5 DEF Raise, Raised, TypeOK
  <2>2. CASE signals <= 1
    <3>1. Held /\ ~Arriving /\ signals # 0
      BY <1>0, <2>2 DEF Untold, Waits, Held, Taken
    <3>2. PICK s \in Guarded, K \in SUBSET Children : raise = {<<s, K>>}
      BY <3>1 DEF Held
    <3>3. r = <<s, K>> /\ raise' = {} /\ pending' = {s}
      BY <2>1, <3>1, <3>2 DEF Held
    <3>4. Waits'
      BY <2>1, <3>1, <3>3 DEF Held, Waits, One
    <3>5. ~Arriving'
      BY <1>0, <2>1, <3>1 DEF Arriving
    <3>6. QED  BY <1>0, <2>1, <3>1, <3>4, <3>5 DEF One
  <2>3. QED  BY <1>0, <2>2, SignalsAssumption DEF TypeOK
<1>6. QED  BY AkmStep, <1>1, <1>2, <1>3, <1>4, <1>5 DEF AkmStep
-----------------------------------------------------------------------------
(* What outlives akm, and how the launcher ends.                           *)

LEMMA FirstStep == ASSUME IInv, Next PROVE ChildrenFirst'
<1> USE DEF ChildrenFirst, IInv
<1>1. CASE Front
  <2>1. handles' = handles /\ leader' = leader /\ akm' \in {akm, "running"}
    BY <1>1, FrontKeeps
  <2>2. signals' <= 1 => signals <= 1
    BY <1>1, SignalsAssumption DEF TypeOK, Front, LauncherStep, StartAkm, EndLauncher, Forward,
       SendLauncher, CrashLauncher, Signal
  <2>3. QED  BY <2>1, <2>2 DEF Ended
<1>2. ASSUME NEW c \in Children, ChildStep(c) PROVE ChildrenFirst'
  <2>1. akm' = akm /\ handles' = handles /\ signals' = signals
    BY <1>2, ChildKeeps
  <2>2. CASE Quiet(c)
    BY <2>1, <2>2, QuietKeeps DEF Ended, Apart
  <2>3. CASE Spawn(c) \/ Notice(c)
    BY <2>1, <2>3 DEF Spawn, MayStart, Notice, Running, Ended
  <2>4. QED  BY <1>2, <2>2, <2>3 DEF ChildStep, Quiet
<1>3. CASE AkmStep
  <2>1. akm = "running" /\ leader' = leader /\ handles' = handles /\ signals' = signals
    BY <1>3 DEF AkmStep, StartWatchdog, Watchdog, Listen, Unlisten, Exit, Handle, Raise, Running, kids, TypeOK
  <2>2. CASE akm' = akm
    BY <2>1, <2>2 DEF Ended
  <2>3. CASE Exit
    BY <2>1, <2>3 DEF Exit
  <2>4. ASSUME NEW s \in Forwarded, Handle(s), s \in Fatal, signals <= 1 PROVE ChildrenFirst'
    <3>1. pending = {s} /\ s \in Guarded /\ raise = {} /\ ~aborted
      BY <2>1, <2>4 DEF OnePlace, Untold, Waits, Held, Taken, One, Fatal
    <3>2. s \notin own /\ s \notin guard
      BY <2>4 DEF Fatal
    <3>3. CASE handles
      BY <2>1, <3>1, <3>2, <3>3 DEF Listening, OwnListens, Apart
    <3>4. CASE ~handles
      <4>1. Live = {}
        BY <2>1, <3>1, <3>2, <3>4 DEF Listening, GuardListens
      <4>2. QED  BY <2>1, <3>4, <4>1 DEF Live
    <3>5. QED  BY <3>3, <3>4
  <2>5. CASE \E s \in Forwarded : Handle(s)
    BY <2>1, <2>2, <2>4, <2>5 DEF Handle
  <2>6. QED
    BY <1>3, <2>1, <2>2, <2>3, <2>5 DEF AkmStep, StartWatchdog, Watchdog, Listen, Unlisten, Raise
<1>4. QED  BY <1>1, <1>2, <1>3 DEF Next, Front

LEMMA LauncherStays == ASSUME IInv, Next PROVE LauncherReflects'
<1> USE DEF LauncherReflects, IInv
<1>1. CASE AkmStep \/ \E c \in Children : ChildStep(c)
  <2>1. launcher' = launcher /\ signals' = signals
    BY <1>1, ChildKeeps DEF AkmStep, StartWatchdog, Watchdog, Listen, Unlisten, Exit, Handle, Raise, front
  <2>2. akm = "running" \/ akm' = akm
    BY <1>1, ChildKeeps DEF AkmStep, StartWatchdog, Watchdog, Listen, Unlisten, Exit, Handle, Raise, Running
  <2>3. akm = "running" /\ signals <= 1 => launcher \in {"up", "crashed"}
    BY DEF OneSignal
  <2>4. QED  BY <2>1, <2>2, <2>3 DEF Forwarded
<1>2. CASE StartAkm
  BY <1>2 DEF StartAkm, Forwarded
<1>3. CASE EndLauncher
  <2>1. akm \notin once /\ akm # "running" /\ akm # "none" /\ akm' = akm
        /\ launcher' = IF akm = "exited" THEN "clean" ELSE akm
    BY <1>3 DEF EndLauncher, Ended, Through
  <2>2. QED  BY <2>1 DEF TypeOK, Forwarded
<1>4. ASSUME NEW s \in Forwarded, Forward(s) PROVE LauncherReflects'
  <2>1. launcher = "up" /\ s \in inbox /\ signals' = signals
        /\ (launcher' = launcher \/ (s \notin once /\ launcher' = s))
    BY <1>4 DEF Forward
  <2>2. signals <= 1 => s \in once
    BY <2>1 DEF OneSignal
  <2>3. QED  BY <2>1, <2>2 DEF Forwarded
<1>5. CASE (\E s \in Sent : SendLauncher(s)) \/ CrashLauncher
  <2>1. launcher' \in {"up", "crashed"}
    BY <1>5 DEF SendLauncher, CrashLauncher
  <2>2. QED  BY <2>1 DEF Forwarded
<1>6. QED  BY <1>1, <1>2, <1>3, <1>4, <1>5 DEF Next, LauncherStep

LEMMA InvStep == IInv /\ [Next]_vars => IInv'
<1>1. ASSUME IInv, UNCHANGED vars PROVE IInv'
  <2>1. TypeOK' /\ Fresh' /\ Through'
    BY <1>1, TypeStep DEF IInv, vars, front, kids, listeners, Fresh, Through
  <2>2. Listening'
    BY <1>1 DEF IInv, vars, listeners, kids, Listening, OwnListens, GuardListens, Live, Apart
  <2>3. NoSignal' /\ OneSignal' /\ OnePlace'
    BY <1>1 DEF IInv, vars, front, listeners, NoSignal, OneSignal, OnePlace, Arriving, Untold, Waits,
       Held, Taken, One, Forwards
  <2>4. ChildrenFirst' /\ LauncherReflects'
    BY <1>1 DEF IInv, vars, front, kids, ChildrenFirst, LauncherReflects, Ended
  <2>5. QED  BY <2>1, <2>2, <2>3, <2>4 DEF IInv
<1>2. ASSUME IInv, Next PROVE IInv'
  <2>1. TypeOK' /\ Fresh' /\ Through' /\ Listening'
    BY <1>2, TypeStep, FreshStep, ThroughStep, ListeningStep DEF IInv
  <2>2. Signals'
    BY <1>2, SignalsFront, SignalsAkm, SignalsChild DEF IInv, Next, Front, Signals
  <2>3. QED  BY <1>2, <2>1, <2>2, FirstStep, LauncherStays DEF IInv, Signals
<1>3. QED  BY <1>1, <1>2

LEMMA Inductive == Spec => []IInv
BY InvInit, InvStep, PTL DEF Spec

\* After one signal, or the loss of the launcher, akm ends only when nothing it
\* started runs, for any children and any signal it guards against.
THEOREM ChildrenGoFirst == Spec => []ChildrenFirst
<1>1. IInv => ChildrenFirst
  BY DEF IInv
<1>2. QED  BY Inductive, <1>1, PTL

\* After one signal the launcher ends as akm did.
THEOREM LauncherAsAkm == Spec => []LauncherReflects
<1>1. IInv => LauncherReflects
  BY DEF IInv
<1>2. QED  BY Inductive, <1>1, PTL

-----------------------------------------------------------------------------
(* What SignalledEnds and LadderEnds rest on: whatever akm waits for before *)
(* it ends is on its way to SIGKILL, and does not get off it.              *)

\* A group that a ladder is under way to, or that was sent SIGKILL.
Doomed(c) == ladder[c] # "off" \/ c \in killed

WaitsForDoomed ==
  /\ \A r \in raise : \A c \in r[2] : leader[c] # "none" /\ (c \in Live => Doomed(c))
  /\ akm = "running" /\ aborted => \A c \in Live : Doomed(c)

\* What a step may do to a ladder: take it to its next signal, or end it, after
\* the last one or when the leader has gone.
Advances(c) ==
  \/ ladder'[c] = ladder[c]
  \/ ladder[c] = "off" /\ ladder'[c] = "int"
  \/ ladder[c] = "int" /\ ladder'[c] = "term"
  \/ ladder'[c] = "off" /\ (c \in killed' \/ c \notin Live')
Onward(c) == Advances(c) /\ (c \in killed => c \in killed')

LEMMA OnwardStep == ASSUME TypeOK, [Next]_vars, NEW c \in Children PROVE Onward(c)
<1> USE DEF kids, Onward, Advances
<1>1. CASE UNCHANGED kids
  BY <1>1
<1>2. ASSUME NEW s \in Forwarded, Handle(s) PROVE Onward(c)
  BY <1>2 DEF Handle, StartLadder, TypeOK
<1>3. ASSUME NEW d \in Children, ChildStep(d) PROVE Onward(c)
  <2>1. CASE Spawn(d) \/ Return(d) \/ LeaderExits(d) \/ MemberExits(d)
    BY <2>1 DEF Spawn, Return, LeaderExits, MemberExits
  <2>2. CASE Timeout(d)
    BY <2>2 DEF Timeout, StartLadder, TypeOK
  <2>3. CASE Terminate(d)
    BY <2>3 DEF Terminate, GroupRunning, Live, TypeOK
  <2>4. CASE Kill(d)
    BY <2>4 DEF Kill, Forced, GroupRunning, Live, TypeOK
  <2>5. CASE Notice(d)
    BY <2>5 DEF Notice, Live, TypeOK
  <2>6. QED  BY <1>3, <2>1, <2>2, <2>3, <2>4, <2>5 DEF ChildStep
<1>4. QED  BY <1>1, <1>2, <1>3 DEF Next, LauncherStep, AkmStep, StartAkm, EndLauncher, Forward,
     SendLauncher, CrashLauncher, StartWatchdog, Watchdog, Listen, Unlisten, Raise, Exit, vars

\* So a group that is doomed and lives stays doomed.
LEMMA StaysDoomed == ASSUME TypeOK, [Next]_vars, NEW c \in Children, Doomed(c), c \in Live'
  PROVE Doomed(c)'
BY OnwardStep DEF Onward, Advances, Doomed

\* A child that is there does not become one that is yet to be started, and only
\* a start makes one live.
LEMMA LeaderStep == ASSUME TypeOK, [Next]_vars, NEW c \in Children
  PROVE /\ leader[c] # "none" => leader'[c] # "none" /\ (c \in Live' => c \in Live)
        /\ leader[c] = "none" /\ c \in Live' => MayStart /\ UNCHANGED <<raise, akm>> /\ aborted' = aborted
<1> USE DEF kids, Live
<1>1. CASE UNCHANGED leader
  BY <1>1
<1>2. ASSUME NEW d \in Children, ChildStep(d)
      PROVE /\ leader[c] # "none" => leader'[c] # "none" /\ (c \in Live' => c \in Live)
            /\ leader[c] = "none" /\ c \in Live' => MayStart /\ UNCHANGED <<raise, akm>> /\ aborted' = aborted
  <2>1. CASE Spawn(d)
    BY <2>1 DEF Spawn, TypeOK
  <2>2. CASE ~Spawn(d)
    BY <1>2, <2>2 DEF ChildStep, Timeout, Terminate, Kill, Notice, Return, LeaderExits, MemberExits, TypeOK
  <2>3. QED  BY <2>1, <2>2
<1>3. QED  BY <1>1, <1>2 DEF Next, LauncherStep, AkmStep, StartAkm, EndLauncher, Forward,
     SendLauncher, CrashLauncher, StartWatchdog, Watchdog, Listen, Unlisten, Handle, Raise, Exit, vars

\* How akm comes to wait: the guard takes the live children into what it waits
\* for, an abort is of all of them, and either starts their ladders.
LEMMA WaitStep == ASSUME TypeOK, Fresh, [Next]_vars
  PROVE /\ \A r \in raise' : r \in raise \/ (r[2] = Live /\ \A c \in Live : Doomed(c)')
        /\ akm' = "running" /\ aborted' => (akm = "running" /\ aborted) \/ \A c \in Live : Doomed(c)'
<1> USE DEF listeners
<1>1. CASE UNCHANGED raise /\ UNCHANGED akm /\ aborted' = aborted
  BY <1>1
<1>2. ASSUME NEW s \in Forwarded, Handle(s)
      PROVE /\ \A r \in raise' : r \in raise \/ (r[2] = Live /\ \A c \in Live : Doomed(c)')
            /\ akm' = "running" /\ aborted' => (akm = "running" /\ aborted) \/ \A c \in Live : Doomed(c)'
  <2>1. StartLadder(Live) => \A c \in Live : Doomed(c)'
    BY DEF StartLadder, Doomed, Live, TypeOK
  <2>2. QED  BY <1>2, <2>1 DEF Handle, Awaited
<1>3. ASSUME NEW r \in raise, Raise(r) PROVE raise' \subseteq raise /\ UNCHANGED akm /\ aborted' = aborted
  BY <1>3 DEF Raise
<1>4. CASE StartAkm \/ Exit
  BY <1>4 DEF StartAkm, Exit, Fresh
<1>5. ASSUME NEW c \in Children, ChildStep(c) PROVE UNCHANGED raise /\ UNCHANGED akm /\ aborted' = aborted
  BY <1>5, ChildKeeps
<1>6. QED  BY <1>1, <1>2, <1>3, <1>4, <1>5 DEF Next, LauncherStep, AkmStep, EndLauncher, Forward,
     SendLauncher, CrashLauncher, StartWatchdog, Watchdog, Listen, Unlisten, vars

LEMMA DoomedStep == IInv /\ WaitsForDoomed /\ [Next]_vars => WaitsForDoomed'
<1> SUFFICES ASSUME IInv, WaitsForDoomed, [Next]_vars PROVE WaitsForDoomed'
  OBVIOUS
<1>0. TypeOK /\ Fresh /\ Listening /\ Live \subseteq Children /\ Live' \subseteq Children
  BY DEF IInv, Live
<1>1. ASSUME NEW r \in raise', NEW c \in r[2]
      PROVE leader'[c] # "none" /\ (c \in Live' => Doomed(c)')
  <2>1. c \in Children
    <3>1. raise' \subseteq Guarded \X SUBSET Children
      BY <1>0, TypeStep DEF TypeOK
    <3>2. QED  BY <1>1, <3>1
  <2>2. CASE r \in raise
    <3>1. leader[c] # "none" /\ (c \in Live => Doomed(c))
      BY <1>1, <2>2 DEF WaitsForDoomed
    <3>2. QED  BY <1>0, <2>1, <3>1, LeaderStep, StaysDoomed
  <2>3. CASE r[2] = Live /\ \A d \in Live : Doomed(d)'
    <3>1. leader[c] # "none"
      BY <1>1, <2>3 DEF Live
    <3>2. QED  BY <1>0, <1>1, <2>1, <2>3, <3>1, LeaderStep
  <2>4. QED  BY <1>0, <1>1, <2>2, <2>3, WaitStep
<1>2. ASSUME akm' = "running", aborted', NEW c \in Live' PROVE Doomed(c)'
  <2>1. CASE leader[c] = "none"
    <3>1. MayStart /\ akm = "running" /\ aborted
      BY <1>0, <1>2, <2>1, LeaderStep DEF TypeOK
    <3>2. handles
      BY <1>0, <3>1 DEF Listening, GuardListens
    <3>3. QED  BY <3>1, <3>2 DEF MayStart
  <2>2. CASE leader[c] # "none"
    <3>1. c \in Live
      BY <1>0, <1>2, <2>2, LeaderStep
    <3>2. (\A d \in Live : Doomed(d)) \/ \A d \in Live : Doomed(d)'
      BY <1>0, <1>2, WaitStep DEF WaitsForDoomed
    <3>3. QED  BY <1>0, <1>2, <3>1, <3>2, StaysDoomed
  <2>3. QED  BY <2>1, <2>2
<1>3. QED  BY <1>1, <1>2 DEF WaitsForDoomed

\* Whatever number of signals: each child that akm's guard or an aborted command
\* waits for has a ladder under way or was sent SIGKILL ...
THEOREM AwaitedAreDoomed == Spec => []WaitsForDoomed
<1>1. Init => WaitsForDoomed
  BY DEF Init, WaitsForDoomed, Live
<1>2. QED  BY <1>1, DoomedStep, Inductive, PTL DEF Spec

\* ... and a ladder goes through its signals in order and ends with SIGKILL or
\* without the leader, so none is dropped.
THEOREM LaddersAdvance == Spec => [][\A c \in Children : Onward(c)]_vars
<1>1. TypeOK /\ [Next]_vars => \A c \in Children : Onward(c)
  BY OnwardStep
<1>2. QED  BY <1>1, TypeCorrect, PTL DEF Spec
=============================================================================
