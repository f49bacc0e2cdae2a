---------------------------- MODULE DaemonRunner ----------------------------
(***************************************************************************)
(* The daemon as a process: the file that holds its process id, the file   *)
(* that asks it to stop, and the command line that starts, stops and        *)
(* restarts it and restores the store behind it.  Nothing else keeps two   *)
(* processes off one store.                                                *)
(*                                                                         *)
(* One user types one command after the other; the launcher runs daemons   *)
(* of its own without looking for another, and it and the installer ask    *)
(* for a stop when they like.  Process ids are given out in order and are  *)
(* not used again, and a file is written or removed in one step.           *)
(***************************************************************************)
EXTENDS Naturals

CONSTANTS Pids,   \* the processes that can come to be daemons
          None    \* no process

ASSUME PidsAssumption == Pids \subseteq Nat /\ None \notin Pids

VARIABLES
    phase,      \* how far each process is
    pidFile,    \* the process named by paios-daemon.pid
    stopFile,   \* is there a paios-daemon.stop?
    command,    \* the command the user waits for, its next step and the id it read
    asked,      \* history: the processes the request on file was meant for
    crowded     \* history: a daemon was run beside what else was going on, or a
                \* command looked for one that had not registered yet

files == <<pidFile, stopFile>>
history == <<asked, crowded>>
vars == <<phase, files, command, history>>

Phases == {"new", "spawned", "cleared", "booting", "looping", "closing", "closed",
           "erasing", "dead"}

Kinds == {"start", "stop", "restart", "restore"}

Steps == {"none", "reads", "probes", "clears", "spawns", "writes", "forgets", "asks",
          "waits", "tidies", "restores"}

Alive(p) == phase[p] \notin {"new", "dead"}

\* The application is being started, runs, or is being stopped.
UsesStore(p) == phase[p] \in {"booting", "looping", "closing"}

Unregistered(p) == phase[p] \in {"spawned", "cleared"} /\ pidFile # p

Fresh(p) == phase[p] = "new" /\ \A q \in Pids : q < p => phase[q] # "new"

Done == [kind |-> "none", step |-> "none", pid |-> None]

Idle == command = Done

Init ==
    /\ phase = [p \in Pids |-> "new"]
    /\ pidFile = None
    /\ stopFile = FALSE
    /\ command = Done
    /\ asked = {}
    /\ crowded = FALSE

-----------------------------------------------------------------------------
\* The daemon.

Moves(p, from, to) ==
    /\ phase[p] = from
    /\ phase' = [phase EXCEPT ![p] = to]

RequestGoes ==
    /\ stopFile' = FALSE
    /\ asked' = {}

\* "daemon run", as the launcher runs it: it looks for no other daemon.
RunsByHand(p) ==
    /\ Fresh(p)
    /\ Moves(p, "new", "spawned")
    /\ crowded' = (crowded \/ ~ Idle \/ \E q \in Pids : Alive(q) /\ phase[q] # "erasing")
    /\ UNCHANGED <<files, command, asked>>

\* (mutant: a request found at the start is left for the loop to see)
IgnoresStop(p) ==
    /\ Moves(p, "spawned", "cleared")
    /\ UNCHANGED <<files, command, history>>

ClearsStop(p) ==
    /\ Moves(p, "spawned", "cleared")
    /\ RequestGoes
    /\ UNCHANGED <<pidFile, command, crowded>>

Registers(p) ==
    /\ Moves(p, "cleared", "booting")
    /\ pidFile' = p
    /\ UNCHANGED <<stopFile, command, history>>

Boots(p) ==
    /\ Moves(p, "booting", "looping")
    /\ UNCHANGED <<files, command, history>>

\* After a tick, a backup that may be due, and a look for a request.
SeesStop(p) ==
    /\ stopFile
    /\ Moves(p, "looping", "closing")
    /\ UNCHANGED <<files, command, history>>

\* Ctrl+C, or a tick that raises.
Fails(p) ==
    /\ Moves(p, "looping", "closing")
    /\ UNCHANGED <<files, command, history>>

Closes(p) ==
    /\ Moves(p, "closing", "closed")
    /\ UNCHANGED <<files, command, history>>

Unregisters(p) ==
    /\ Moves(p, "closed", "erasing")
    /\ pidFile' = None
    /\ UNCHANGED <<stopFile, command, history>>

Erases(p) ==
    /\ Moves(p, "erasing", "dead")
    /\ RequestGoes
    /\ UNCHANGED <<pidFile, command, crowded>>

\* A start that raises is outside of what cleans up; so is a kill at any time.
Dies(p) ==
    /\ Alive(p)
    /\ phase' = [phase EXCEPT ![p] = "dead"]
    /\ UNCHANGED <<files, command, history>>

-----------------------------------------------------------------------------
\* The command line.

Gives(kind) ==
    /\ Idle
    /\ command' = [kind |-> kind, step |-> "reads", pid |-> None]
    /\ UNCHANGED <<phase, files, history>>

At(kinds, step) == command.kind \in kinds /\ command.step = step

ReadsPid ==
    /\ command.step = "reads"
    /\ command' = [command EXCEPT !.step = "probes", !.pid = pidFile]
    /\ crowded' = (crowded \/ \E p \in Pids : Unregistered(p))
    /\ UNCHANGED <<phase, files, asked>>

\* (mutant: a process id on file is not looked for while its application is stopped)
FoundLooping == command.pid \in Pids /\ phase[command.pid] \notin {"new", "closing", "dead"}

Found == command.pid \in Pids /\ Alive(command.pid)

Probes ==
    /\ command.step = "probes"
    /\ command' =
         IF command.kind \in {"start", "restore"} /\ Found THEN Done
         ELSE [command EXCEPT !.step = CASE command.kind = "start" -> "clears"
                                         [] command.kind = "restore" -> "restores"
                                         [] OTHER -> IF Found THEN "asks" ELSE "forgets"]
    /\ UNCHANGED <<phase, files, history>>

StartClears ==
    /\ At({"start"}, "clears")
    /\ RequestGoes
    /\ command' = [command EXCEPT !.step = "spawns"]
    /\ UNCHANGED <<phase, pidFile, crowded>>

Spawns(p) ==
    /\ At({"start"}, "spawns")
    /\ Fresh(p)
    /\ Moves(p, "new", "spawned")
    /\ command' = [command EXCEPT !.step = "writes", !.pid = p]
    /\ UNCHANGED <<files, history>>

WritesPid ==
    /\ At({"start"}, "writes")
    /\ pidFile' = command.pid
    /\ command' = Done
    /\ UNCHANGED <<phase, stopFile, history>>

\* A restart starts whatever the stop came to.
Stopped ==
    command' = IF command.kind = "restart"
               THEN [kind |-> "start", step |-> "reads", pid |-> None] ELSE Done

Forgets ==
    /\ At({"stop", "restart"}, "forgets")
    /\ pidFile' = None
    /\ Stopped
    /\ UNCHANGED <<phase, stopFile, history>>

AsksForStop ==
    /\ At({"stop", "restart"}, "asks")
    /\ stopFile' = TRUE
    /\ asked' = asked \cup {command.pid}
    /\ command' = [command EXCEPT !.step = "waits"]
    /\ UNCHANGED <<phase, pidFile, crowded>>

SeesEnd ==
    /\ At({"stop", "restart"}, "waits")
    /\ ~ Found
    /\ pidFile' = None
    /\ command' = [command EXCEPT !.step = "tidies"]
    /\ UNCHANGED <<phase, stopFile, history>>

Tidies ==
    /\ At({"stop", "restart"}, "tidies")
    /\ RequestGoes
    /\ Stopped
    /\ UNCHANGED <<phase, pidFile, crowded>>

\* (mutant: the request is taken back)
TimesOutTidily ==
    /\ At({"stop", "restart"}, "waits")
    /\ RequestGoes
    /\ Stopped
    /\ UNCHANGED <<phase, pidFile, crowded>>

\* After thirty seconds the request is left to the daemon's next tick.
TimesOut ==
    /\ At({"stop", "restart"}, "waits")
    /\ Stopped
    /\ UNCHANGED <<phase, files, history>>

Restored ==
    /\ At({"restore"}, "restores")
    /\ command' = Done
    /\ UNCHANGED <<phase, files, history>>

\* The user gives up waiting, at any point.
Cut ==
    /\ ~ Idle
    /\ command' = Done
    /\ UNCHANGED <<phase, files, history>>

\* The launcher before it stops its daemon, and the installer.
OthersAsk ==
    /\ stopFile' = TRUE
    /\ asked' = asked \cup {p \in Pids : Alive(p)}
    /\ UNCHANGED <<phase, pidFile, command, crowded>>

-----------------------------------------------------------------------------
Next ==
    \/ \E p \in Pids :
          \/ RunsByHand(p) \/ ClearsStop(p) \/ Registers(p) \/ Boots(p) \/ SeesStop(p)
          \/ Fails(p) \/ Closes(p) \/ Unregisters(p) \/ Erases(p) \/ Dies(p) \/ Spawns(p)
    \/ \E kind \in Kinds : Gives(kind)
    \/ ReadsPid \/ Probes \/ StartClears \/ WritesPid
    \/ Forgets \/ AsksForStop \/ SeesEnd \/ Tidies \/ TimesOut
    \/ Restored \/ Cut \/ OthersAsk

\* A daemon that loops comes round to its next tick.
Spec == Init /\ [][Next]_vars /\ \A p \in Pids : WF_vars(SeesStop(p))

-----------------------------------------------------------------------------
(* Every variable has its type. *)
TypeOK ==
    /\ phase \in [Pids -> Phases]
    /\ pidFile \in Pids \cup {None}
    /\ stopFile \in BOOLEAN
    /\ command \in [kind : Kinds \cup {"none"}, step : Steps, pid : Pids \cup {None}]
    /\ asked \in SUBSET (Pids \cup {None})
    /\ crowded \in BOOLEAN

(* Two daemons never have the application open together, and none does while
   the store is restored: the order in which a start looks, spawns and writes,
   and in which a daemon closes, forgets its id and goes, leaves no gap, though
   commands time out, are given up, and daemons die at any point.  What breaks
   it is a daemon run by hand beside another, and a command given while one has
   not registered yet. *)
OneUserOfStore ==
    ~ crowded =>
        /\ \A p, q \in Pids : UsesStore(p) /\ UsesStore(q) => p = q
        /\ command.step = "restores" => \A p \in Pids : ~ UsesStore(p)

(* A daemon ends by request only if the request was made for it: none that was
   left behind by a stop that was given up, or whose daemon died first, ends the
   daemon that is started next. *)
StopsOnlyTheAsked ==
    [][\A p \in Pids : SeesStop(p) /\ ~ crowded => p \in asked]_vars

OnlyLooping(p) ==
    /\ phase[p] = "looping"
    /\ \A q \in Pids \ {p} : ~ Alive(q)

(* A request that finds the daemon in its loop, and no other on its way out,
   ends it, whatever becomes of the command that made the request. *)
StopIsHeeded ==
    \A p \in Pids :
        stopFile /\ OnlyLooping(p) ~> phase[p] # "looping" \/ crowded
=============================================================================
