---------------------------- MODULE DaemonProofs ----------------------------
(***************************************************************************)
(* Proofs about DaemonRunner: why one file with a process id is enough to  *)
(* keep the daemons that are started by command off one store.             *)
(***************************************************************************)
EXTENDS DaemonRunner, TLAPS

\* On its way to the store, in it, or not yet forgotten by the pid file.
Live(p) == phase[p] \notin {"new", "erasing", "dead"}

Registered(p) == phase[p] \in {"booting", "looping", "closing", "closed"}

OneLives == \A p, q \in Pids : Live(p) /\ Live(q) => p = q

LiveIsOnFile == \A p \in Pids : Registered(p) => pidFile = p

\* What each step of a command can rely on since the look that came before it.
CommandKnows ==
    /\ command.step \in {"probes", "asks", "waits", "writes"} =>
          \A p \in Pids : Live(p) => p = command.pid
    /\ command.step \in {"clears", "spawns", "forgets", "tidies", "restores"} =>
          \A p \in Pids : ~ Live(p)

RequestIsMeant ==
    stopFile => \A p \in Pids : Live(p) /\ phase[p] # "spawned" => p \in asked

Protected == OneLives /\ LiveIsOnFile /\ CommandKnows /\ RequestIsMeant

IInv == TypeOK /\ (~ crowded => Protected)

-----------------------------------------------------------------------------
(* A step of one process that begins nothing keeps what holds of the others. *)
LEMMA Shrinks ==
    ASSUME IInv, NEW p \in Pids, NEW s \in Phases,
           Live(p), s # "spawned", s = "cleared" => ~ stopFile',
           phase' = [phase EXCEPT ![p] = s],
           ~ crowded /\ s \in {"booting", "looping", "closing", "closed"} => pidFile' = p,
           pidFile' \in {pidFile, p, None},
           stopFile' \in BOOLEAN, stopFile' => stopFile /\ phase[p] # "spawned",
           stopFile' => asked' = asked,
           asked' \in SUBSET (Pids \cup {None}),
           command' = command, crowded' = crowded
    PROVE  IInv'
<1>1. TypeOK'
  BY DEF IInv, TypeOK
<1>2. /\ \A q \in Pids : q # p => phase'[q] = phase[q]
      /\ phase'[p] = s
  BY DEF IInv, TypeOK
<1>3. ASSUME ~ crowded  PROVE Protected'
  <2>1. Protected
    BY <1>3 DEF IInv
  <2>2. \A q \in Pids : Live(q)' => q = p
    BY <1>2, <2>1 DEF Protected, OneLives, Live
  <2>3. OneLives'
    BY <2>2 DEF OneLives
  <2>4. LiveIsOnFile'
    BY <1>2, <1>3, <2>2 DEF LiveIsOnFile, Registered, Live
  <2>5. CommandKnows'
    BY <2>1, <2>2 DEF Protected, CommandKnows
  <2>6. RequestIsMeant'
    BY <2>1, <2>2 DEF Protected, RequestIsMeant
  <2> QED
    BY <2>3, <2>4, <2>5, <2>6 DEF Protected
<1> QED
  BY <1>1, <1>3 DEF IInv

(* A process is gone, or has forgotten its id. *)
LEMMA Leaves ==
    ASSUME IInv, NEW p \in Pids, NEW s \in {"erasing", "dead"},
           phase' = [phase EXCEPT ![p] = s],
           pidFile' = pidFile \/ (Live(p) /\ pidFile' = None),
           stopFile' \in BOOLEAN, stopFile' => stopFile,
           asked' \in SUBSET (Pids \cup {None}), stopFile' => asked' = asked,
           command' = command, crowded' = crowded
    PROVE  IInv'
<1>1. TypeOK'
  BY DEF IInv, TypeOK, Phases
<1>2. /\ \A q \in Pids : q # p => phase'[q] = phase[q]
      /\ phase'[p] = s
  BY DEF IInv, TypeOK
<1>3. ASSUME ~ crowded  PROVE Protected'
  <2>1. Protected
    BY <1>3 DEF IInv
  <2>2. \A q \in Pids : Live(q)' => Live(q) /\ q # p /\ phase'[q] = phase[q]
    BY <1>2 DEF Live
  <2>3. OneLives'
    BY <2>1, <2>2 DEF Protected, OneLives
  <2>4. LiveIsOnFile'
    <3>1. ASSUME NEW q \in Pids, Registered(q)'  PROVE pidFile' = q
      <4>1. Live(q)'
        BY <3>1 DEF Registered, Live
      <4>2. Registered(q) /\ Live(q) /\ q # p
        BY <3>1, <4>1, <2>2 DEF Registered
      <4>3. ~ Live(p)
        BY <4>2, <2>1 DEF Protected, OneLives
      <4> QED
        BY <4>2, <4>3, <2>1 DEF Protected, LiveIsOnFile
    <3> QED
      BY <3>1 DEF LiveIsOnFile
  <2>5. CommandKnows'
    BY <2>1, <2>2 DEF Protected, CommandKnows
  <2>6. RequestIsMeant'
    BY <2>1, <2>2 DEF Protected, RequestIsMeant
  <2> QED
    BY <2>3, <2>4, <2>5, <2>6 DEF Protected
<1> QED
  BY <1>1, <1>3 DEF IInv

(* The first step of a process, when nothing else lives. *)
LEMMA Arrives ==
    ASSUME IInv, NEW p \in Pids,
           phase' = [phase EXCEPT ![p] = "spawned"],
           UNCHANGED <<files, asked>>,
           command' \in [kind : Kinds \cup {"none"}, step : Steps, pid : Pids \cup {None}],
           crowded' \in BOOLEAN,
           ~ crowded' => /\ ~ crowded
                         /\ \A q \in Pids : ~ Live(q)
                         /\ \/ command'.step = "none"
                            \/ command'.step = "writes" /\ command'.pid = p
    PROVE  IInv'
<1>1. TypeOK'
  BY DEF IInv, TypeOK, Phases, files
<1>2. /\ \A q \in Pids : q # p => phase'[q] = phase[q]
      /\ phase'[p] = "spawned"
  BY DEF IInv, TypeOK
<1>3. ASSUME ~ crowded'  PROVE Protected'
  <2>1. \A q \in Pids : Live(q)' => q = p
    BY <1>2, <1>3 DEF Live
  <2>2. OneLives' /\ LiveIsOnFile' /\ RequestIsMeant'
    BY <1>2, <2>1 DEF OneLives, LiveIsOnFile, RequestIsMeant, Registered, Live
  <2>3. CommandKnows'
    BY <1>3, <2>1 DEF CommandKnows
  <2> QED
    BY <2>2, <2>3 DEF Protected
<1> QED
  BY <1>1, <1>3 DEF IInv

(* A step of the command line, or a request: no process moves. *)
LEMMA Stays ==
    ASSUME IInv, UNCHANGED phase,
           pidFile' \in Pids \cup {None}, stopFile' \in BOOLEAN, asked' \in SUBSET (Pids \cup {None}),
           command' \in [kind : Kinds \cup {"none"}, step : Steps, pid : Pids \cup {None}],
           crowded' \in BOOLEAN, crowded => crowded',
           ~ crowded' => \A p \in Pids : Registered(p) => pidFile' = p,
           ~ crowded' => CommandKnows',
           ~ crowded' => RequestIsMeant'
    PROVE  IInv'
<1>1. TypeOK'
  BY DEF IInv, TypeOK
<1>2. ASSUME ~ crowded'  PROVE Protected'
  <2>1. Protected
    BY <1>2 DEF IInv
  <2>2. OneLives' /\ LiveIsOnFile'
    BY <1>2, <2>1 DEF Protected, OneLives, LiveIsOnFile, Live, Registered
  <2> QED
    BY <1>2, <2>2 DEF Protected
<1> QED
  BY <1>1, <1>2 DEF IInv

-----------------------------------------------------------------------------
LEMMA Initially == Init => IInv
<1> SUFFICES ASSUME Init  PROVE IInv
  OBVIOUS
<1>1. /\ Done \in [kind : Kinds \cup {"none"}, step : Steps, pid : Pids \cup {None}]
      /\ Done.step = "none"
  BY DEF Done, Steps
<1>2. TypeOK
  BY <1>1 DEF Init, TypeOK, Phases
<1>3. Protected
  BY <1>1 DEF Init, Protected, OneLives, LiveIsOnFile, CommandKnows, RequestIsMeant, Live, Registered
<1> QED
  BY <1>2, <1>3 DEF IInv

(* The steps of a daemon. *)
LEMMA DaemonStep ==
    ASSUME IInv, NEW p \in Pids,
           \/ RunsByHand(p) \/ ClearsStop(p) \/ Registers(p) \/ Boots(p) \/ SeesStop(p)
           \/ Fails(p) \/ Closes(p) \/ Unregisters(p) \/ Erases(p) \/ Dies(p)
    PROVE  IInv'
<1> USE DEF files, history, Phases
<1>0. TypeOK
  BY DEF IInv
<1>1. CASE RunsByHand(p)
  <2>1. ~ crowded' => ~ crowded /\ command'.step = "none" /\ \A q \in Pids : ~ Live(q)
    <3>1. crowded' = (crowded \/ ~ Idle \/ \E q \in Pids : Alive(q) /\ phase[q] # "erasing")
      BY <1>1 DEF RunsByHand
    <3>2. ~ crowded' => ~ crowded /\ Idle /\ \A q \in Pids : ~ Live(q)
      BY <3>1 DEF Live, Alive
    <3>3. Idle => command'.step = "none"
      BY <1>1 DEF RunsByHand, Idle, Done
    <3> QED
      BY <3>2, <3>3
  <2>2. /\ phase' = [phase EXCEPT ![p] = "spawned"]
        /\ UNCHANGED <<files, command, asked>>
        /\ crowded' \in BOOLEAN
    BY <1>1, <1>0 DEF RunsByHand, Moves, TypeOK
  <2> QED
    BY <2>1, <2>2, <1>0, Arrives DEF TypeOK
<1>2. CASE ClearsStop(p)
  <2> DEFINE s == "cleared"
  <2>1. Live(p) /\ phase' = [phase EXCEPT ![p] = s]
    BY <1>2 DEF ClearsStop, Moves, Live
  <2> QED
    BY <1>0, <1>2, <2>1, Shrinks DEF ClearsStop, RequestGoes, TypeOK
<1>3. CASE Registers(p)
  <2> DEFINE s == "booting"
  <2>1. Live(p) /\ phase[p] # "spawned" /\ phase' = [phase EXCEPT ![p] = s]
    BY <1>3 DEF Registers, Moves, Live
  <2> QED
    BY <1>0, <1>3, <2>1, Shrinks DEF Registers, TypeOK
<1>4. CASE Boots(p) \/ SeesStop(p) \/ Fails(p) \/ Closes(p)
  <2>1. PICK s \in {"looping", "closing", "closed"} :
            /\ Registered(p) /\ Live(p) /\ phase[p] # "spawned"
            /\ phase' = [phase EXCEPT ![p] = s]
    BY <1>4 DEF Boots, SeesStop, Fails, Closes, Moves, Live, Registered
  <2>2. UNCHANGED <<files, command, history>>
    BY <1>4 DEF Boots, SeesStop, Fails, Closes
  <2>3. ~ crowded => pidFile' = p
    BY <2>1, <2>2 DEF IInv, Protected, LiveIsOnFile
  <2> QED
    BY <1>0, <2>1, <2>2, <2>3, Shrinks DEF TypeOK
<1>5. CASE Unregisters(p)
  <2>1. Live(p) /\ phase' = [phase EXCEPT ![p] = "erasing"]
    BY <1>5 DEF Unregisters, Moves, Live
  <2> QED
    BY <1>0, <1>5, <2>1, Leaves DEF Unregisters, TypeOK
<1>6. CASE Erases(p)
  BY <1>0, <1>6, Leaves DEF Erases, Moves, RequestGoes, TypeOK
<1>7. CASE Dies(p)
  BY <1>0, <1>7, Leaves DEF Dies, TypeOK
<1> QED
  BY <1>1, <1>2, <1>3, <1>4, <1>5, <1>6, <1>7

(* The steps of the command line. *)
LEMMA CommandStep ==
    ASSUME IInv,
           \/ \E kind \in Kinds : Gives(kind)
           \/ ReadsPid \/ Probes \/ StartClears \/ WritesPid \/ (\E p \in Pids : Spawns(p))
           \/ Forgets \/ AsksForStop \/ SeesEnd \/ Tidies \/ TimesOut
           \/ Restored \/ Cut \/ OthersAsk
    PROVE  IInv'
<1> USE DEF files, history
<1>0. TypeOK
  BY DEF IInv
<1> DEFINE Commands == [kind : Kinds \cup {"none"}, step : Steps, pid : Pids \cup {None}]
<1>d. Done \in Commands /\ Done.step = "none"
  BY DEF Done, Steps
<1>s. Stopped => command' \in Commands /\ command'.step \in {"none", "reads"}
  BY <1>d DEF Stopped, Kinds, Steps
<1>1. CASE \E kind \in Kinds : Gives(kind)
  <2>1. command' \in Commands /\ command'.step = "reads"
    BY <1>1 DEF Gives, Steps
  <2> QED
    BY <1>0, <1>1, <2>1, Stays DEF Gives, TypeOK, IInv, Protected, LiveIsOnFile, Registered, CommandKnows, RequestIsMeant, Live
<1>2. CASE ReadsPid
  <2>1. command' \in Commands /\ command'.step = "probes" /\ command'.pid = pidFile
    BY <1>0, <1>2 DEF ReadsPid, Steps, TypeOK
  <2>2. ASSUME ~ crowded', NEW p \in Pids, Live(p)'  PROVE p = command'.pid
    <3>1. ~ crowded /\ ~ Unregistered(p) /\ Live(p) /\ phase[p] \in Phases
      BY <1>0, <1>2, <2>2 DEF ReadsPid, Live, TypeOK
    <3>2. Registered(p) \/ pidFile = p
      BY <3>1 DEF Registered, Unregistered, Live, Phases
    <3> QED
      BY <2>1, <3>1, <3>2 DEF IInv, Protected, LiveIsOnFile
  <2>3. ~ crowded' => CommandKnows'
    BY <2>1, <2>2 DEF CommandKnows
  <2> QED
    BY <1>0, <1>2, <2>1, <2>3, Stays DEF ReadsPid, TypeOK, IInv, Protected, LiveIsOnFile, Registered, RequestIsMeant, Live
<1>3. CASE Probes
  <2>1. command' \in Commands
    BY <1>0, <1>3, <1>d DEF Probes, Steps, TypeOK
  <2>2. /\ command'.step \in {"none", "clears", "restores", "asks", "forgets"}
        /\ command'.step = "asks" => command'.pid = command.pid
        /\ command'.step \in {"clears", "restores", "forgets"} => ~ Found
    BY <1>0, <1>3, <1>d DEF Probes, TypeOK
  <2>3. ASSUME ~ crowded  PROVE CommandKnows'
    <3>1. \A p \in Pids : Live(p) => p = command.pid
      BY <1>3, <2>3 DEF Probes, IInv, Protected, CommandKnows
    <3>2. ~ Found => \A p \in Pids : ~ Live(p)
      BY <3>1 DEF Found, Live, Alive
    <3> QED
      BY <1>3, <2>2, <3>1, <3>2 DEF Probes, CommandKnows, Live
  <2> QED
    BY <1>0, <1>3, <2>1, <2>3, Stays DEF Probes, TypeOK, IInv, Protected, LiveIsOnFile, Registered, RequestIsMeant, Live
<1>4. CASE StartClears
  <2>1. command' \in Commands /\ command'.step = "spawns"
    BY <1>0, <1>4 DEF StartClears, Steps, TypeOK
  <2>2. ASSUME ~ crowded  PROVE CommandKnows'
    BY <1>4, <2>1, <2>2 DEF StartClears, At, IInv, Protected, CommandKnows, Live
  <2> QED
    BY <1>0, <1>4, <2>1, <2>2, Stays DEF StartClears, RequestGoes, TypeOK, IInv, Protected, LiveIsOnFile, Registered, RequestIsMeant
<1>5. CASE WritesPid
  <2>1. ~ crowded => \A p \in Pids : Live(p) => p = command.pid
    BY <1>5 DEF WritesPid, At, IInv, Protected, CommandKnows
  <2>2. ~ crowded' => \A p \in Pids : Registered(p) => pidFile' = p
    BY <1>5, <2>1 DEF WritesPid, Registered, Live
  <2>3. pidFile' \in Pids \cup {None}
    BY <1>0, <1>5 DEF WritesPid, TypeOK
  <2> QED
    BY <1>0, <1>5, <1>d, <2>2, <2>3, Stays DEF WritesPid, TypeOK, IInv, Protected, CommandKnows, RequestIsMeant, Live
<1>6. CASE \E p \in Pids : Spawns(p)
  <2>1. PICK p \in Pids : Spawns(p)
    BY <1>6
  <2>2. /\ command' \in Commands /\ command'.step = "writes" /\ command'.pid = p
        /\ phase' = [phase EXCEPT ![p] = "spawned"]
        /\ UNCHANGED <<files, asked, crowded>>
    BY <1>0, <2>1 DEF Spawns, Moves, Steps, TypeOK
  <2>3. ~ crowded => \A q \in Pids : ~ Live(q)
    BY <2>1 DEF Spawns, At, IInv, Protected, CommandKnows
  <2> QED
    BY <1>0, <2>2, <2>3, Arrives DEF TypeOK
<1>7. CASE Forgets
  <2>1. ~ crowded => \A p \in Pids : ~ Live(p)
    BY <1>7 DEF Forgets, At, IInv, Protected, CommandKnows
  <2> QED
    BY <1>0, <1>7, <1>s, <2>1, Stays DEF Forgets, TypeOK, IInv, Protected, CommandKnows, RequestIsMeant, Live, Registered
<1>8. CASE AsksForStop
  <2>1. command' \in Commands /\ command'.step = "waits" /\ command'.pid = command.pid
    BY <1>0, <1>8 DEF AsksForStop, Steps, TypeOK
  <2>2. ~ crowded => \A p \in Pids : Live(p) => p = command.pid
    BY <1>8 DEF AsksForStop, At, IInv, Protected, CommandKnows
  <2>3. ~ crowded' => CommandKnows' /\ RequestIsMeant'
    BY <1>8, <2>1, <2>2 DEF AsksForStop, CommandKnows, RequestIsMeant, Live
  <2> QED
    BY <1>0, <1>8, <2>1, <2>3, Stays DEF AsksForStop, TypeOK, IInv, Protected, LiveIsOnFile, Registered
<1>9. CASE SeesEnd
  <2>1. command' \in Commands /\ command'.step = "tidies"
    BY <1>0, <1>9 DEF SeesEnd, Steps, TypeOK
  <2>2. ~ crowded => \A p \in Pids : ~ Live(p)
    BY <1>9 DEF SeesEnd, At, Found, Alive, Live, IInv, Protected, CommandKnows
  <2> QED
    BY <1>0, <1>9, <2>1, <2>2, Stays DEF SeesEnd, TypeOK, IInv, Protected, CommandKnows, RequestIsMeant, Live, Registered
<1>10. CASE Tidies
  BY <1>0, <1>10, <1>s, Stays DEF Tidies, RequestGoes, TypeOK, IInv, Protected, LiveIsOnFile, CommandKnows, RequestIsMeant, Live, Registered
<1>11. CASE TimesOut
  BY <1>0, <1>11, <1>s, Stays DEF TimesOut, TypeOK, IInv, Protected, LiveIsOnFile, CommandKnows, RequestIsMeant, Live, Registered
<1>12. CASE Restored \/ Cut
  BY <1>0, <1>12, <1>d, Stays DEF Restored, Cut, TypeOK, IInv, Protected, LiveIsOnFile, CommandKnows, RequestIsMeant, Live, Registered
<1>13. CASE OthersAsk
  <2>1. ASSUME ~ crowded  PROVE CommandKnows' /\ RequestIsMeant'
    BY <1>13, <2>1 DEF OthersAsk, IInv, Protected, CommandKnows, RequestIsMeant, Live, Alive
  <2> QED
    BY <1>0, <1>13, <2>1, Stays DEF OthersAsk, TypeOK, IInv, Protected, LiveIsOnFile, Registered
<1> QED
  BY <1>1, <1>2, <1>3, <1>4, <1>5, <1>6, <1>7, <1>8, <1>9, <1>10, <1>11, <1>12, <1>13

LEMMA Step == IInv /\ [Next]_vars => IInv'
<1> SUFFICES ASSUME IInv, [Next]_vars  PROVE IInv'
  OBVIOUS
<1>1. CASE Next
  BY <1>1, DaemonStep, CommandStep DEF Next
<1>2. CASE UNCHANGED vars
  BY <1>2 DEF vars, files, history, IInv, TypeOK, Protected, OneLives, LiveIsOnFile,
              CommandKnows, RequestIsMeant, Live, Registered
<1> QED
  BY <1>1, <1>2

(* While nothing was run beside the protocol, at most one process is on its way
   to or from the store, its id is on file, and every step of a command knows
   it (run_foreground, start_background, stop_background). *)
THEOREM Protocol == Spec => []IInv
<1> QED
  BY Initially, Step, PTL DEF Spec

(* Two daemons never have the application open together, and none does while
   the store is restored (run_foreground, _run_backup). *)
THEOREM StoreIsNotShared == Spec => []OneUserOfStore
<1>1. IInv => OneUserOfStore
  BY DEF IInv, Protected, OneLives, CommandKnows, OneUserOfStore, UsesStore, Live
<1> QED
  BY <1>1, Protocol, PTL

(* A daemon ends by request only if the request on file was made for it
   (run_foreground, stop_background). *)
THEOREM RequestsAreMeant == Spec => StopsOnlyTheAsked
<1>1. IInv /\ [Next]_vars =>
          [\A p \in Pids : SeesStop(p) /\ ~ crowded => p \in asked]_vars
  BY DEF IInv, Protected, RequestIsMeant, Live, SeesStop, Moves
<1> QED
  BY <1>1, Protocol, PTL DEF Spec, StopsOnlyTheAsked
=============================================================================
