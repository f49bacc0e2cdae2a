------------------------------ MODULE Launcher ------------------------------
(***************************************************************************)
(* PAIOS.exe: one launcher, guarded by a mutex, that starts the daemon, the *)
(* API and the desktop in order, answers their crashes with restarts after *)
(* a delay and within a budget, obeys the tray, and stops everything in    *)
(* reverse order.                                                          *)
(*                                                                         *)
(* Time is measured back from now: a restart has an age, and a restart     *)
(* that is due has a delay left.  Ages beyond the window are all one.      *)
(***************************************************************************)
EXTENDS Naturals, Sequences, FiniteSetsExt

CONSTANTS Order,         \* the children, in the order they are started
          MaxRestarts,   \* restarts allowed within a window
          Window,        \* the length of the window
          Backoff        \* the delays before the first, second, ... restart

Children == {Order[i] : i \in DOMAIN Order}

ASSUME OrderAssumption ==
    /\ Order \in Seq(Children) \ {<<>>}
    /\ \A i, j \in DOMAIN Order : Order[i] = Order[j] => i = j

ASSUME PolicyAssumption ==
    /\ MaxRestarts \in Nat
    /\ Window \in Nat
    /\ Backoff \in Seq(0 .. Window)

Ages == 0 .. Window + 1
Never == Window + 1

VARIABLES
    launcher,   \* "off", "starting", "up" or "stopping"
    mode,       \* "tray" or "headless"
    place,      \* the child that is started or stopped next
    sentinel,   \* is there a request to stop on the disk?
    state,      \* what the supervisor takes each child for
    proc,       \* what a look at its process would tell: that there is none, that
                \* it is alive, or that it ended with code 0 or with another
    recent,     \* the ages of its restarts
    due,        \* the delay left before the next one
    wish,       \* history: whether user and operator want the child to run
    answered    \* history: the ages of the crashes answered by a restart

children == <<state, proc, recent, due>>
vars == <<launcher, mode, place, sentinel, children, wish, answered>>

States == {"stopped", "running", "paused", "crashed", "failed"}
Procs == {"none", "alive", "exited", "broken"}

Init ==
    /\ launcher = "off"
    /\ mode = "tray"
    /\ place = 1
    /\ sentinel = FALSE
    /\ state = [c \in Children |-> "stopped"]
    /\ proc = [c \in Children |-> "none"]
    /\ recent = [c \in Children |-> <<>>]
    /\ due = [c \in Children |-> Never]
    /\ wish = [c \in Children |-> "down"]
    /\ answered = [c \in Children |-> <<>>]

-----------------------------------------------------------------------------
(***************************************************************************)
(* One child.                                                              *)
(***************************************************************************)

\* A child that is started or stopped waits for no restart.
Becomes(c, newState, newProc) ==
    /\ state' = [state EXCEPT ![c] = newState]
    /\ proc' = [proc EXCEPT ![c] = newProc]
    /\ due' = [due EXCEPT ![c] = Never]
    /\ UNCHANGED recent

Started(c) == Becomes(c, "running", "alive")

\* The process cannot be created.  One that runs has been stopped before.
NotStarted(c) ==
    Becomes(c, "failed", IF state[c] = "running" THEN "none" ELSE proc[c])

\* The file for its output cannot be opened: the error leaves before the state is set.
NoOutput(c) ==
    IF state[c] = "running" THEN Becomes(c, "stopped", "none")
    ELSE Becomes(c, state[c], proc[c])

StartedOrNot(c) == Started(c) \/ NotStarted(c) \/ NoOutput(c)

\* The process is asked to end and not waited for.
HaltedUnwaited(c, target) == Becomes(c, target, proc[c])

Halted(c, target) == Becomes(c, target, "none")

\* A window that has begun to empty is emptied altogether.
PrunedAtOnce(ages) ==
    IF ages # <<>> /\ Head(ages) > Window THEN <<>> ELSE ages

\* The oldest restart comes first, so those within the window are the end of the list.
YoungFrom(ages) ==
    Min({i \in 1 .. Len(ages) + 1 : \A j \in i .. Len(ages) : ages[j] <= Window})

Pruned(ages) == SubSeq(ages, YoungFrom(ages), Len(ages))

BackoffFor(attempt) ==
    IF Backoff = <<>> THEN 0
    ELSE Backoff[IF attempt < Len(Backoff) THEN attempt + 1 ELSE Len(Backoff)]

Exhausted(kept) == Len(kept) >= MaxRestarts

Answer(c) ==
    LET kept == Pruned(recent[c]) IN
    IF Exhausted(kept)
    THEN /\ state' = [state EXCEPT ![c] = "failed"]
         /\ recent' = [recent EXCEPT ![c] = kept]
         /\ UNCHANGED <<due, answered>>
    ELSE /\ state' = [state EXCEPT ![c] = "crashed"]
         /\ recent' = [recent EXCEPT ![c] = Append(kept, 0)]
         /\ due' = [due EXCEPT ![c] = BackoffFor(Len(kept))]
         /\ answered' = [answered EXCEPT ![c] = Append(@, 0)]

-----------------------------------------------------------------------------
(***************************************************************************)
(* The launcher comes and goes.                                            *)
(***************************************************************************)

\* A supervisor begins with children it knows nothing of.
NewSupervisor(wanted) ==
    /\ place' = 1
    /\ state' = [c \in Children |-> "stopped"]
    /\ proc' = [c \in Children |-> "none"]
    /\ recent' = [c \in Children |-> <<>>]
    /\ due' = [c \in Children |-> Never]
    /\ wish' = [c \in Children |-> wanted]
    /\ answered' = [c \in Children |-> <<>>]

\* A second launcher is refused by the mutex.
Launch ==
    /\ launcher = "off"
    /\ launcher' = "starting"
    /\ mode' \in {"tray", "headless"}
    /\ sentinel' = FALSE
    /\ NewSupervisor("up")

StartsNext ==
    /\ launcher = "starting"
    /\ place <= Len(Order)
    /\ Started(Order[place])
    /\ place' = place + 1
    /\ launcher' = IF place = Len(Order) THEN "up" ELSE "starting"
    /\ UNCHANGED <<mode, sentinel, wish, answered>>

\* What is alive when the launcher's process ends goes on without it.
Leaves ==
    /\ launcher' = "off"
    /\ NewSupervisor("down")

\* start_all is outside of the try whose finally shuts down.
StartAllFails ==
    /\ launcher = "starting"
    /\ Leaves
    /\ UNCHANGED <<mode, sentinel>>

\* It is killed, or a child survives its killing and the wait for it raises.
LauncherDies ==
    /\ launcher # "off"
    /\ Leaves
    /\ UNCHANGED <<mode, sentinel>>

\* `PAIOS.exe --stop`, by the user, the updater or the uninstaller.  A sentinel
\* that a launcher with a tray finds is never looked at, and one that is older
\* than a launcher without a tray is removed by it.
StopRequested ==
    /\ launcher # "off"
    /\ mode = "headless"
    /\ sentinel' = TRUE
    /\ UNCHANGED <<launcher, mode, place, children, wish, answered>>

\* The sentinel is looked at only after a poll that observed nothing.
SeesStopWhenQuiet == sentinel /\ \A c \in Children : state[c] # "crashed"

SeesStop == sentinel

\* The loop without a tray finds the sentinel.
LoopEnds ==
    /\ launcher = "up"
    /\ mode = "headless"
    /\ SeesStop
    /\ launcher' = "stopping"
    /\ place' = Len(Order)
    /\ UNCHANGED <<mode, sentinel, children, wish, answered>>

\* "Quit" in the tray's menu, or an update that was accepted there; without a
\* tray, an interrupt.
UserQuits ==
    /\ launcher = "up"
    /\ launcher' = "stopping"
    /\ place' = Len(Order)
    /\ UNCHANGED <<mode, sentinel, children, wish, answered>>

\* Gracefully, or by force after a timeout; either way it is waited for.
StopsNext ==
    /\ launcher = "stopping"
    /\ place > 0
    /\ Halted(Order[place], "stopped")
    /\ place' = place - 1
    /\ UNCHANGED <<launcher, mode, sentinel, wish, answered>>

Ends ==
    /\ launcher = "stopping"
    /\ place = 0
    /\ sentinel' = FALSE
    /\ Leaves
    /\ UNCHANGED mode

-----------------------------------------------------------------------------
(***************************************************************************)
(* The processes of the children, and time.                                *)
(***************************************************************************)

ProcessEnds(c, how) ==
    /\ proc[c] = "alive"
    /\ proc' = [proc EXCEPT ![c] = how]
    /\ UNCHANGED <<launcher, mode, place, sentinel, state, recent, due, answered>>

\* The window is closed, or `paios daemon stop` was given.
Exits(c) ==
    /\ ProcessEnds(c, "exited")
    /\ wish' = [wish EXCEPT ![c] = "down"]

Crashes(c) ==
    /\ ProcessEnds(c, "broken")
    /\ UNCHANGED wish

Older(a) == IF a > Window THEN a ELSE a + 1

\* The history forgets what left the window.
InWindow(ages) == SubSeq(ages, YoungFrom(ages), Len(ages))

TimePasses ==
    /\ launcher = "up"
    /\ recent' = [c \in Children |->
          [i \in DOMAIN recent[c] |-> Older(recent[c][i])]]
    /\ due' = [c \in Children |->
          IF due[c] \in {0, Never} THEN due[c] ELSE due[c] - 1]
    /\ answered' = [c \in Children |->
          InWindow([i \in DOMAIN answered[c] |-> Older(answered[c][i])])]
    /\ UNCHANGED <<launcher, mode, place, sentinel, state, proc, wish>>

-----------------------------------------------------------------------------
(***************************************************************************)
(* The supervisor polls its children, every second.                        *)
(***************************************************************************)

Observes(c, last) ==
    /\ launcher = "up"
    /\ state[c] = last
    /\ UNCHANGED <<launcher, mode, place, sentinel, wish>>

\* A clean exit is respected.
NoticesExit(c) ==
    /\ Observes(c, "running")
    /\ proc[c] = "exited"
    /\ state' = [state EXCEPT ![c] = "stopped"]
    /\ UNCHANGED <<proc, recent, due, answered>>

NoticesCrash(c) ==
    /\ Observes(c, "running")
    /\ proc[c] = "broken"
    /\ Answer(c)
    /\ UNCHANGED proc

\* The restart that is being answered is counted once more.
DueWithinBudget(c) == due[c] = 0 /\ Len(recent[c]) < MaxRestarts

Due(c) == due[c] = 0

RestartsCrashed(c) ==
    /\ Observes(c, "crashed")
    /\ Due(c)
    /\ StartedOrNot(c)
    /\ UNCHANGED answered

Polls(c) == NoticesExit(c) \/ NoticesCrash(c) \/ RestartsCrashed(c)

-----------------------------------------------------------------------------
(***************************************************************************)
(* The tray's menu.                                                        *)
(***************************************************************************)

Ordered(c, wanted) ==
    /\ launcher = "up"
    /\ mode = "tray"
    /\ wish' = [wish EXCEPT ![c] = wanted]
    /\ UNCHANGED <<launcher, mode, place, sentinel, answered>>

\* The state is set and the process is left to itself.
PausedByName(c) == Becomes(c, "paused", proc[c])

\* A child that waits for its restart is not paused.
PausedIfRunning(c) == IF state[c] = "running" THEN Halted(c, "paused") ELSE UNCHANGED children

Paused(c) ==
    IF state[c] = "running" THEN Halted(c, "paused")
    ELSE /\ state' = [state EXCEPT ![c] = "paused"]
         /\ UNCHANGED <<proc, recent, due>>

Pause(c) == Ordered(c, "down") /\ Paused(c)

Resume(c) ==
    /\ Ordered(c, "up")
    /\ state[c] # "running"
    /\ StartedOrNot(c)

Restart(c) ==
    /\ Ordered(c, "up")
    /\ StartedOrNot(c)

-----------------------------------------------------------------------------
Next ==
    \/ Launch \/ StartsNext \/ StartAllFails
    \/ LoopEnds \/ UserQuits \/ StopsNext \/ Ends \/ LauncherDies
    \/ StopRequested \/ TimePasses
    \/ \E c \in Children :
          \/ Polls(c) \/ Exits(c) \/ Crashes(c)
          \/ Pause(c) \/ Resume(c) \/ Restart(c)

\* The launcher's thread starts, polls every second and stops; the clock runs.
Fairness ==
    /\ WF_vars(StartsNext) /\ WF_vars(LoopEnds) /\ WF_vars(StopsNext) /\ WF_vars(Ends)
    /\ WF_vars(TimePasses)
    /\ \A c \in Children : WF_vars(Polls(c))

Spec == Init /\ [][Next]_vars /\ Fairness

-----------------------------------------------------------------------------
(***************************************************************************)
(* Properties.                                                             *)
(***************************************************************************)

(* Every variable has its type, and the supervisor remembers no more restarts
   than the budget allows. *)
TypeOK ==
    /\ launcher \in {"off", "starting", "up", "stopping"}
    /\ mode \in {"tray", "headless"}
    /\ place \in 0 .. Len(Order) + 1
    /\ sentinel \in BOOLEAN
    /\ state \in [Children -> States]
    /\ proc \in [Children -> Procs]
    /\ due \in [Children -> Ages]
    /\ \A c \in Children :
          recent[c] \in Seq(Ages) /\ Len(recent[c]) <= MaxRestarts
    /\ wish \in [Children -> {"up", "down"}]

(* A process that runs is one the supervisor counts as running: no sequence of
   crashes, restarts, pauses and resumptions loses one that nobody would stop. *)
NoneForgotten ==
    \A c \in Children : proc[c] = "alive" => state[c] = "running"

(* A child that was paused, or that ended by itself without an error, stays
   down, also when it had crashed and its restart was already due, until it is
   asked for again. *)
DownStaysDown ==
    \A c \in Children : wish[c] = "down" => proc[c] # "alive"

(* No window of time, wherever it begins, holds more crashes answered with a
   restart than the policy allows, whatever is restarted by hand in between. *)
RestartBudget == \A c \in Children : Len(answered[c]) <= MaxRestarts

(* An orderly end leaves no process behind: what has been passed in the order of
   the shutdown is gone, whatever was crashing or paused when it began. *)
NothingLeftBehind ==
    launcher = "stopping" =>
        \A i \in DOMAIN Order : i > place => proc[Order[i]] = "none"

(* A crash that is within the budget is answered: the restart that is due is
   tried, whatever the other children do, unless the operator or the end of the
   launcher comes first. *)
CrashesAreAnswered ==
    \A c \in Children :
        /\ state[c] = "crashed"
        /\ due[c] # Never
        ~> state[c] # "crashed" \/ due[c] = Never \/ launcher # "up"

(* A launcher without a tray that is asked to stop does so, whatever its children
   do meanwhile. *)
StopIsHonoured == launcher = "up" /\ mode = "headless" /\ sentinel ~> launcher = "off"

=============================================================================
