------------------------------ MODULE Termination ------------------------------
(***************************************************************************)
(* How a command ends, and with it the processes it started.  The          *)
(* published launcher starts akm in a process group of its own and         *)
(* forwards signals to it; akm starts captured commands, each the leader   *)
(* of a group that may hold further members, and stops them with a ladder  *)
(* of SIGINT, SIGTERM and SIGKILL.                                         *)
(*                                                                         *)
(* A process may exit at any time, also for a signal, so of what a group   *)
(* is sent only SIGKILL is recorded.  Standard signals coalesce: those     *)
(* that wait for a process are a set.  SIGKILL of akm, foreign processes   *)
(* that reuse a pid, signals sent straight to akm, and Windows are left    *)
(* out.                                                                    *)
(***************************************************************************)
EXTENDS Naturals

CONSTANTS
  Children,     \* captured commands that akm may start
  Sent,         \* signals sent to the launcher; not SIGHUP, which akm does not guard against
  MaxSignals    \* bound: signals sent, and the SIGKILL of a launcher

Forwarded == {"SIGTERM", "SIGINT", "SIGHUP"}
Guarded == {"SIGINT", "SIGTERM"}

ASSUME SignalsAssumption ==
  Sent \subseteq Guarded /\ MaxSignals \in Nat

VARIABLES
  launcher,  \* "up", or how it ended: "clean" (akm's exit code), a signal, "crashed"
  once,      \* signals the launcher still listens for
  inbox,     \* signals that wait for the launcher
  akm,       \* "none", "running", or how it ended: "exited" or a signal
  pending,   \* signals that wait for akm
  handles,   \* whether this command handles signals itself
  own,       \* signals its own listeners wait for
  aborted,   \* the abort signal of such a command
  guard,     \* signals the guard of the managed subprocesses waits for
  raise,     \* signals the guard will raise again, each with the children it waits for
  leader,    \* of each child's group
  member,    \* children whose group holds another process
  ladder,    \* last signal of the ladder on each child
  killed,    \* groups that were sent SIGKILL
  watching,  \* the watchdog of akm: "blind" when it started after the launcher's end
  signals

kids == <<leader, member, ladder, killed>>
listeners == <<own, aborted, guard, raise>>
front == <<launcher, once, inbox>>
vars == <<front, akm, pending, handles, listeners, kids, watching, signals>>

Init ==
  /\ launcher = "up" /\ once = Forwarded /\ inbox = {}
  /\ akm = "none" /\ pending = {}
  /\ handles \in BOOLEAN
  /\ own = {} /\ aborted = FALSE /\ guard = {} /\ raise = {}
  /\ leader = [c \in Children |-> "none"] /\ member = {} /\ killed = {}
  /\ ladder = [c \in Children |-> "off"]
  /\ watching = "off" /\ signals = 0

\* What has no listener ends akm at once: it takes no further step of its own.
Fatal == pending \ (own \cup guard)
Running == akm = "running" /\ Fatal = {}
Ended == akm \notin {"none", "running"}
\* Children that are registered: started, and not yet known to have exited.
Live == {c \in Children : leader[c] \in {"running", "exited"}}
GroupRunning(c) == c \in Live \/ c \in member

-----------------------------------------------------------------------------
(* The environment.                                                        *)

Signal == signals < MaxSignals /\ signals' = signals + 1

\* Ctrl-C or `kill', of the launcher or its group, which akm is not in.
Reached(s) == inbox' = inbox \cup {s} /\ UNCHANGED pending

SendLauncher(s) ==
  /\ Signal /\ launcher = "up" /\ Reached(s)
  /\ UNCHANGED <<launcher, once, akm, handles, listeners, kids, watching>>

CrashLauncher ==
  /\ Signal /\ launcher = "up" /\ launcher' = "crashed"
  /\ UNCHANGED <<once, inbox, akm, pending, handles, listeners, kids, watching>>

-----------------------------------------------------------------------------
(* The launcher.                                                           *)

\* Signals that came before are flushed to the child; or there is no runtime to start.
StartAkm ==
  /\ launcher = "up" /\ akm = "none"
  /\ \/ akm' = "running" /\ pending' = Forwarded \ once /\ UNCHANGED launcher
     \/ launcher' = "failed" /\ UNCHANGED <<akm, pending>>
  /\ UNCHANGED <<once, inbox, handles, listeners, kids, watching, signals>>

\* process.once: the listener forwards the first signal of its kind, the second
\* meets the default disposition.
AfterForward_on(s) == once   \* faulty: process.on
AfterForward(s) == once \ {s}

Forward(s) ==
  /\ launcher = "up" /\ s \in inbox /\ inbox' = inbox \ {s}
  /\ \/ /\ s \in once /\ once' = AfterForward(s)
        /\ pending' = IF akm = "running" THEN pending \cup {s} ELSE pending
        /\ UNCHANGED launcher
     \/ s \notin once /\ launcher' = s /\ UNCHANGED <<once, pending>>
  /\ UNCHANGED <<akm, handles, listeners, kids, watching, signals>>

\* akm's exit code, or the signal that ended it, raised on the launcher itself.
EndLauncher ==
  /\ launcher = "up" /\ Ended
  /\ launcher' = IF akm = "exited" \/ akm \in once THEN "clean" ELSE akm
  /\ UNCHANGED <<once, inbox, akm, pending, handles, listeners, kids, watching, signals>>

\* The parent-death watchdog compares with the parent it saw first; it sends
\* SIGTERM, and once.
StartWatchdog ==
  /\ Running /\ watching = "off"
  /\ watching' = IF launcher = "up" THEN "on" ELSE "blind"
  /\ UNCHANGED <<front, akm, pending, handles, listeners, kids, signals>>

Orphaned == launcher # "up"
Watchdog ==
  /\ Running /\ watching = "on" /\ Orphaned
  /\ watching' = "fired" /\ pending' = pending \cup {"SIGTERM"}
  /\ UNCHANGED <<front, akm, handles, listeners, kids, signals>>

-----------------------------------------------------------------------------
(* Managed subprocesses.                                                   *)

\* A command that handles signals listens before it starts anything, and stops
\* when all it started has been waited for.
Listen ==
  /\ Running /\ watching # "off" /\ handles /\ own = {} /\ ~aborted
  /\ \A c \in Children : leader[c] = "none"
  /\ own' = Guarded
  /\ UNCHANGED <<front, akm, pending, handles, aborted, guard, raise, kids, watching, signals>>

Unlisten ==
  /\ Running /\ own # {} /\ \A c \in Children : leader[c] \in {"none", "back"}
  /\ own' = {}
  /\ UNCHANGED <<front, akm, pending, handles, aborted, guard, raise, kids, watching, signals>>

MayStart == Running /\ watching # "off" /\ (handles => own # {} /\ ~aborted)

\* installSignalGuard, before the spawn, unless anything listens already.
Installed == IF own = {} THEN Guarded ELSE guard

Spawn(c) ==
  /\ MayStart /\ leader[c] = "none"
  /\ \/ /\ leader' = [leader EXCEPT ![c] = "running"]
        /\ \/ member' = member \cup {c}
           \/ UNCHANGED member
        /\ guard' = Installed
     \/ /\ leader' = [leader EXCEPT ![c] = "back"]
        /\ guard' = IF Live = {} THEN {} ELSE Installed
        /\ UNCHANGED member
  /\ UNCHANGED <<front, akm, pending, handles, own, aborted, raise, ladder, killed, watching, signals>>

\* scheduleKillLadder: SIGINT now.  A ladder that runs already is the first to
\* send each signal, whatever a second one does.
StartLadder(S) ==
  ladder' = [c \in Children |-> IF c \in S \cap Live /\ ladder[c] = "off" THEN "int" ELSE ladder[c]]

Timeout(c) ==
  /\ Running /\ c \in Live \ killed /\ ladder[c] = "off"
  /\ StartLadder({c})
  /\ UNCHANGED <<front, akm, pending, handles, listeners, leader, member, killed, watching, signals>>

\* The grace period after SIGINT is over: SIGTERM to what is left.
Terminate(c) ==
  /\ Running /\ ladder[c] = "int"
  /\ ladder' = [ladder EXCEPT ![c] = IF GroupRunning(c) THEN "term" ELSE "off"]
  /\ UNCHANGED <<front, akm, pending, handles, listeners, leader, member, killed, watching, signals>>

\* And the one after SIGTERM.
Forced_leaderless(c) == c \notin Live   \* faulty: only what outlived its leader
Forced(c) == GroupRunning(c)
Kill(c) ==
  /\ Running /\ ladder[c] = "term"
  /\ ladder' = [ladder EXCEPT ![c] = "off"]
  /\ killed' = IF Forced(c) THEN killed \cup {c} ELSE killed
  /\ UNCHANGED <<front, akm, pending, handles, listeners, leader, member, watching, signals>>

\* proc.exited resolves: a ladder sends SIGTERM to the rest of the group without
\* waiting, and the child is unregistered, the last one with the guard.
Notice(c) ==
  /\ Running /\ leader[c] = "exited"
  /\ leader' = [leader EXCEPT ![c] = "seen"]
  /\ ladder' = [ladder EXCEPT ![c] = IF @ = "int" THEN IF c \in member THEN "term" ELSE "off" ELSE @]
  /\ guard' = IF Live = {c} THEN {} ELSE guard
  /\ UNCHANGED <<front, akm, pending, handles, own, aborted, raise, member, killed, watching, signals>>

\* The pipes have drained, or their deadline has passed.
Return(c) ==
  /\ Running /\ leader[c] = "seen" /\ leader' = [leader EXCEPT ![c] = "back"]
  /\ UNCHANGED <<front, akm, pending, handles, listeners, member, ladder, killed, watching, signals>>

LeaderExits(c) ==
  /\ leader[c] = "running" /\ leader' = [leader EXCEPT ![c] = "exited"]
  /\ UNCHANGED <<front, akm, pending, handles, listeners, member, ladder, killed, watching, signals>>

MemberExits(c) ==
  /\ c \in member /\ member' = member \ {c}
  /\ UNCHANGED <<front, akm, pending, handles, listeners, leader, ladder, killed, watching, signals>>

-----------------------------------------------------------------------------
(* Signals in akm, and its end.                                            *)

\* What the guard waits for before it raises the signal again.
Awaited_none == {}   \* faulty: at once
Awaited == Live

Handle(s) ==
  /\ akm = "running" /\ s \in pending /\ pending' = pending \ {s}
  /\ \/ /\ Fatal = {} /\ s \in own
        /\ own' = own \ {s} /\ aborted' = TRUE
        /\ IF aborted THEN UNCHANGED ladder ELSE StartLadder(Live)
        /\ UNCHANGED <<akm, guard, raise>>
     \/ /\ Fatal = {} /\ s \in guard
        /\ StartLadder(Live)
        /\ guard' = {} /\ raise' = raise \cup {<<s, Awaited>>}
        /\ UNCHANGED <<akm, own, aborted>>
     \/ /\ s \in Fatal /\ akm' = s
        /\ UNCHANGED <<own, aborted, guard, raise, ladder>>
  /\ UNCHANGED <<front, handles, leader, member, killed, watching, signals>>

Raised_not(r) == pending   \* faulty: the signal ends with its children
Raised(r) == pending \cup {r[1]}
Raise(r) ==
  /\ Running /\ r \in raise /\ r[2] \cap Live = {}
  /\ raise' = raise \ {r} /\ pending' = Raised(r)
  /\ UNCHANGED <<front, akm, handles, own, aborted, guard, kids, watching, signals>>

\* The command is done; timers of a ladder do not keep akm alive.
Exit ==
  /\ Running /\ watching # "off" /\ own = {} /\ raise = {}
  /\ \A c \in Children : leader[c] \in {"none", "back"}
  /\ akm' = "exited"
  /\ UNCHANGED <<front, pending, handles, listeners, kids, watching, signals>>

-----------------------------------------------------------------------------
LauncherStep == StartAkm \/ EndLauncher \/ \E s \in Forwarded : Forward(s)
ChildStep(c) == Spawn(c) \/ Timeout(c) \/ Terminate(c) \/ Kill(c) \/ Notice(c) \/ Return(c)
                \/ LeaderExits(c) \/ MemberExits(c)
AkmStep == StartWatchdog \/ Watchdog \/ Listen \/ Unlisten \/ Exit
           \/ \E s \in Forwarded : Handle(s)
           \/ \E r \in raise : Raise(r)

Next ==
  \/ LauncherStep \/ AkmStep
  \/ \E c \in Children : ChildStep(c)
  \/ \E s \in Sent : SendLauncher(s)
  \/ CrashLauncher

Spec == Init /\ [][Next]_vars

\* Timers fire, listeners run, a process that was sent SIGKILL exits, and a
\* command that was aborted ends once what it started is back.  No child need
\* exit by itself, no command start or end anything by itself.
Fairness ==
  /\ WF_vars(LauncherStep) /\ WF_vars(StartWatchdog) /\ WF_vars(Watchdog)
  /\ \A s \in Forwarded : WF_vars(Handle(s))
  /\ WF_vars(\E r \in raise : Raise(r))
  /\ WF_vars(aborted /\ Unlisten) /\ WF_vars(aborted /\ Exit)
  /\ \A c \in Children : /\ WF_vars(Terminate(c) \/ Kill(c))
                         /\ WF_vars(Notice(c)) /\ WF_vars(Return(c))
                         /\ WF_vars(c \in killed /\ LeaderExits(c))
FairSpec == Spec /\ Fairness

-----------------------------------------------------------------------------
(* Correctness.                                                            *)

\* Every variable keeps its type.
TypeOK ==
  /\ launcher \in {"up", "clean", "failed", "crashed"} \cup Forwarded
  /\ once \subseteq Forwarded /\ inbox \subseteq Forwarded
  /\ akm \in {"none", "running", "exited"} \cup Forwarded
  /\ pending \subseteq Forwarded /\ handles \in BOOLEAN
  /\ own \subseteq Guarded /\ aborted \in BOOLEAN /\ guard \subseteq Guarded
  /\ raise \subseteq Guarded \X SUBSET Children
  /\ leader \in [Children -> {"none", "running", "exited", "seen", "back"}]
  /\ member \subseteq Children /\ ladder \in [Children -> {"off", "int", "term"}]
  /\ killed \subseteq Children
  /\ watching \in {"off", "on", "blind", "fired"} /\ signals \in 0..MaxSignals

\* A child leads a group of its own, so nothing that ends akm reaches it: after
\* one signal, or the loss of the launcher, akm ends only when no command it
\* started runs any more, also one started between the signal and its end.  A
\* command that handles signals is not cut off, whatever that signal meets on its
\* way, while a call that runs a child has yet to return.
ChildrenFirst == signals <= 1 /\ Ended => \A c \in Children :
  /\ leader[c] # "running"
  /\ handles => leader[c] \in {"none", "back"}

\* The launcher ends as akm did: by the same signal, and with an exit code only
\* when akm had one.
LauncherReflects == signals <= 1 =>
  /\ launcher = "clean" => akm = "exited"
  /\ launcher \in Forwarded => akm = launcher

\* A signal that reaches akm ends it, whatever the children ignore; so does the
\* end of a launcher that akm has seen, whatever that end was.
Told == pending # {} \/ (launcher # "up" /\ watching = "on")
SignalledEnds == akm = "running" /\ Told ~> akm # "running"

\* A ladder ends with the leader gone, unless akm is gone first.
LadderEnds == \A c \in Children :
  akm = "running" /\ ladder[c] # "off" ~> akm # "running" \/ c \notin Live
=============================================================================
