-------------------------- MODULE PhoneConnection --------------------------
(***************************************************************************)
(* How the phone reaches the desktop: which client its requests go over,   *)
(* when that client is replaced, and when a replaced one is closed.        *)
(*                                                                         *)
(* The phone is one thread, but everything that talks to the network waits: *)
(* a polling pass, the user's actions, the saving of settings, the start    *)
(* of polling, and up to one look for a better path in each of them.  What *)
(* lies between two waits is a step.  The desktop and the relay come and   *)
(* go as they like.                                                        *)
(***************************************************************************)
EXTENDS Naturals, FiniteSets

CONSTANTS
    Addresses,  \* addresses a desktop may answer at
    Choices,    \* what the user may save: an address, and whether a relay is set up
    Clients,    \* the clients the phone can make
    First,      \* the one it begins with
    Networks,   \* where the desktop answers, and whether the relay "reaches" it, is there
                \* without it ("offline") or is "away"
    Screens,    \* what saves settings or starts the polling
    Actions,    \* the user's actions
    Alone,      \* does the user do one thing at a time?
    None        \* no client, no search

ASSUME ChoicesAssumption == Choices \subseteq [lan : Addresses, remote : BOOLEAN]
ASSUME AloneAssumption == Alone \in BOOLEAN
ASSUME NetworksAssumption ==
    Networks \subseteq [desktop : SUBSET Addresses, relay : {"reaches", "offline", "away"}]
ASSUME NamesAssumption ==
    /\ "relay" \notin Addresses /\ "none" \notin Addresses /\ "cut" \notin Addresses
    /\ First \notin Clients
    /\ None \notin Clients \cup {First}
    /\ "pass" \notin Screens
    /\ None \notin [lan : Addresses, remote : BOOLEAN, step : {"probe", "token"}]

VARIABLES
    settings,   \* the settings in memory
    client,     \* the client requests go over from now on
    to,         \* where each client leads; "none": it is closed, "cut": a screen closed it
    retired,    \* replaced clients that wait to be closed
    online,     \* what the phone says of the desktop
    pass,       \* the polling pass: how far it is, and the client it waits on
    calling,    \* the client each action waits on
    planning,   \* the client the planning screen waits on
    search,     \* the look for a better path that each owner waits for
    step,       \* how far each saving, or start of the polling, is
    timer,      \* the periodic timer: "none", "on", or "off" once cancelled
    network     \* the network of the moment

path    == <<client, to, retired>>
polling == <<step, timer>>
vars == <<settings, path, online, pass, calling, planning, search, polling, network>>

AllClients == Clients \cup {First}
Where      == Addresses \cup {"relay"}
Owners     == {"pass"} \cup Screens
OnTheWire  == {"dashboard", "resources", "flush"}

NoPass == [stage |-> "none", on |-> None]

\* A look for a path keeps the settings it began with.
Look == [lan |-> settings.lan, remote |-> settings.remote, step |-> "probe"]

\* The home screen opens: it takes a reading and starts the polling.
Init ==
    /\ settings \in Choices
    /\ client = First
    /\ to = [c \in AllClients |-> IF c = First THEN settings.lan ELSE "none"]
    /\ retired = {}
    /\ online = "unknown"
    /\ pass = [stage |-> "dashboard", on |-> First]
    /\ calling = [a \in Actions |-> None]
    /\ planning = None
    /\ \E s \in Screens :
        /\ step = [t \in Screens |-> IF t = s THEN "starts" ELSE "idle"]
        /\ search = [o \in Owners |-> IF o = s THEN Look ELSE None]
    /\ timer = "none"
    /\ network \in Networks

-----------------------------------------------------------------------------
\* Requests.

Reaches(c)   == to[c] \in network.desktop \/ (to[c] = "relay" /\ network.relay = "reaches")
\* The relay's own errors are not what the client expects of the desktop.
Garbled(c)   == to[c] = "relay" /\ network.relay = "offline"
Unreached(c) == ~ Reaches(c) /\ ~ Garbled(c)

\* The counter of requests this state has on the wire is not zero.
InFlight == pass.stage # "none" \/ \E a \in Actions : calling[a] # None

\* The clients cs are closed, and what was still asked over them ends.
Closing(cs)  == [c \in AllClients |-> IF c \in cs THEN "none" ELSE to[c]]
PlanWithout(cs) == IF planning \in cs THEN None ELSE planning

\* Something that was counted has ended, and others remain or not.
Lands(others) ==
    IF others
      THEN UNCHANGED <<to, retired, planning>>
      ELSE /\ to' = Closing(retired)
           /\ planning' = PlanWithout(retired)
           /\ retired' = {}

-----------------------------------------------------------------------------
\* The look for the best path, and the swap.

Held(c) ==
    \/ c \in retired \cup {client, planning, pass.on}
    \/ \E a \in Actions : calling[a] = c

Unused(c) == to[c] \notin Where /\ ~ Held(c)

Spare == CHOOSE c \in Clients : Unused(c)

\* A bound: nothing begins unless whoever may look for a path, the pass among them, finds
\* a client to make.
Room == Cardinality({c \in Clients : Unused(c)}) >
          1 + Cardinality({o \in Owners : search[o] # None})
            + Cardinality({s \in Screens : step[s] = "writes"})

\* A bound: the user waits for one thing to end before the next.
Unoccupied == Alone => /\ \A s \in Screens : step[s] = "idle"
                       /\ \A a \in Actions : calling[a] = None

Looks(o) == search' = [search EXCEPT ![o] = Look]

Found(o) == search' = [search EXCEPT ![o] = None]

\* (mutant: the replaced client is closed at once)
AlwaysClosed == {client}

\* (mutant: the replaced client is forgotten)
NeverWaits == {}

\* The replaced client is closed when nothing is on the wire, or else later.
ClosedNow   == IF InFlight THEN {} ELSE {client}
WaitsToClose == IF InFlight THEN {client} ELSE {}

Swaps(o, where) ==
    \E c \in Clients :
        /\ Unused(c)
        /\ c = Spare
        /\ client' = c
        /\ to' = [Closing(ClosedNow) EXCEPT ![c] = where]
        /\ planning' = PlanWithout(ClosedNow)
        /\ retired' = retired \cup WaitsToClose
        /\ Found(o)
        /\ UNCHANGED <<settings, online, pass, calling, polling, network>>

Probing(o) == search[o] # None /\ search[o].step = "probe"
Asking(o)  == search[o] # None /\ search[o].step = "token"

LanAnswers(o) ==
    /\ Probing(o)
    /\ search[o].lan \in network.desktop
    /\ Swaps(o, search[o].lan)

LanSilent(o) ==
    /\ Probing(o)
    /\ search[o].lan \notin network.desktop
    /\ search[o].remote
    /\ search' = [search EXCEPT ![o].step = "token"]
    /\ UNCHANGED <<settings, path, online, pass, calling, planning, polling, network>>

NowhereToGo(o) ==
    /\ Probing(o)
    /\ search[o].lan \notin network.desktop
    /\ ~ search[o].remote
    /\ Swaps(o, search[o].lan)

RelayAdmits(o) ==
    /\ Asking(o)
    /\ network.relay # "away"
    /\ Swaps(o, "relay")

RelayDenies(o) ==
    /\ Asking(o)
    /\ network.relay # "away"
    /\ Swaps(o, search[o].lan)

\* Nothing catches what the relay's silence raises but the caller, which keeps its client.
RelaySilent(o) ==
    /\ Asking(o)
    /\ network.relay = "away"
    /\ Found(o)
    /\ UNCHANGED <<settings, path, online, pass, calling, planning, polling, network>>

Searches(o) ==
    \/ LanAnswers(o) \/ LanSilent(o) \/ NowhereToGo(o)
    \/ RelayAdmits(o) \/ RelayDenies(o) \/ RelaySilent(o)

-----------------------------------------------------------------------------
\* The polling pass.

Shows(verdict) == online' = IF verdict THEN "yes" ELSE "no"

\* Who comes while a pass is under way joins it.
Refreshes ==
    IF pass.stage = "none"
      THEN pass' = [stage |-> "dashboard", on |-> client]
      ELSE UNCHANGED pass

Ticks ==
    /\ timer = "on"
    /\ pass.stage = "none" /\ Room
    /\ Refreshes
    /\ UNCHANGED <<settings, path, online, calling, planning, search, polling, network>>

UserRefreshes ==
    /\ pass.stage = "none" /\ Room
    /\ Refreshes
    /\ UNCHANGED <<settings, path, online, calling, planning, search, polling, network>>

\* What waits for the pass goes on: a start of the polling sets the timer.
PassEnds ==
    /\ pass' = NoPass
    /\ Lands(\E a \in Actions : calling[a] # None)
    /\ step' = [s \in Screens |-> IF step[s] = "reads" THEN "idle" ELSE step[s]]
    /\ timer' = IF \E s \in Screens : step[s] = "reads" THEN "on" ELSE timer
    /\ UNCHANGED <<settings, client, calling, network>>

DashboardArrives ==
    /\ pass.stage = "dashboard"
    /\ Reaches(pass.on)
    /\ pass' = [stage |-> "resources", on |-> client]
    /\ UNCHANGED <<settings, path, online, calling, planning, search, polling, network>>

ResourcesArrive ==
    /\ pass.stage = "resources"
    /\ Reaches(pass.on)
    /\ Shows(TRUE)
    /\ pass' = [stage |-> "flush", on |-> client]
    /\ UNCHANGED <<settings, path, calling, planning, search, polling, network>>

\* Whatever became of the captures.
PassFlushed ==
    /\ pass.stage = "flush"
    /\ PassEnds
    /\ UNCHANGED <<online, search>>

Reading == pass.stage \in {"dashboard", "resources"}

\* The desktop answers with an error: it is there.
PassRefused ==
    /\ Reading
    /\ Reaches(pass.on)
    /\ PassEnds
    /\ UNCHANGED <<online, search>>

PassGarbled ==
    /\ Reading
    /\ Garbled(pass.on)
    /\ Shows(FALSE)
    /\ PassEnds
    /\ UNCHANGED search

\* (mutant: a pass without an answer looks for no other path)
PassGivesUp ==
    /\ Reading
    /\ Unreached(pass.on)
    /\ pass' = [stage |-> "searching", on |-> None]
    /\ UNCHANGED <<settings, path, online, calling, planning, search, polling, network>>

PassUnanswered ==
    /\ Reading
    /\ Unreached(pass.on)
    /\ Looks("pass")
    /\ pass' = [stage |-> "searching", on |-> None]
    /\ UNCHANGED <<settings, path, online, calling, planning, polling, network>>

PassSearched ==
    /\ pass.stage = "searching"
    /\ search["pass"] = None
    /\ Shows(FALSE)
    /\ PassEnds
    /\ UNCHANGED search

Passes ==
    \/ DashboardArrives \/ ResourcesArrive \/ PassFlushed
    \/ PassRefused \/ PassGarbled \/ PassUnanswered \/ PassSearched

-----------------------------------------------------------------------------
\* The user's actions.

Others(a) == pass.stage # "none" \/ \E b \in Actions \ {a} : calling[b] # None

\* Leaving the planning screen ends the plan, so the other screens find none under way.
Elsewhere == planning = None /\ Unoccupied

Calls(a) ==
    /\ Elsewhere /\ Room
    /\ calling[a] = None
    /\ calling' = [calling EXCEPT ![a] = client]
    /\ UNCHANGED <<settings, path, online, pass, planning, search, polling, network>>

Returns(a) ==
    /\ calling[a] # None
    /\ calling' = [calling EXCEPT ![a] = None]
    /\ Lands(Others(a))
    /\ UNCHANGED <<settings, client, search, polling, network>>

CallAnswered(a) ==
    /\ Returns(a)
    /\ Reaches(calling[a])
    /\ Refreshes
    /\ UNCHANGED online

CallRefused(a) ==
    /\ Returns(a)
    /\ ~ Unreached(calling[a])
    /\ UNCHANGED <<online, pass>>

CallUnanswered(a) ==
    /\ Returns(a)
    /\ Unreached(calling[a])
    /\ Shows(FALSE)
    /\ UNCHANGED pass

UserActs == \E a \in Actions : Calls(a) \/ CallAnswered(a) \/ CallRefused(a) \/ CallUnanswered(a)

-----------------------------------------------------------------------------
\* The planning screen takes the client of the moment as its own, and closes it when
\* the user gives up or leaves.  The first client lends it another.

Proposes ==
    /\ Unoccupied
    /\ planning = None
    /\ client # First
    /\ planning' = client
    /\ UNCHANGED <<settings, path, online, pass, calling, search, polling, network>>

PlanEnds ==
    /\ planning # None
    /\ planning' = None
    /\ UNCHANGED <<settings, path, online, pass, calling, search, polling, network>>

PlanCancelled ==
    /\ planning # None
    /\ planning' = None
    /\ to' = [to EXCEPT ![planning] = "cut"]
    /\ UNCHANGED <<settings, client, retired, online, pass, calling, search, polling,
                   network>>

Plans == Proposes \/ PlanEnds \/ PlanCancelled

-----------------------------------------------------------------------------
\* Settings, and the start of the polling.

\* A running timer is cancelled before the look for a path begins.
Starts(s) ==
    /\ step' = [step EXCEPT ![s] = "starts"]
    /\ timer' = IF timer = "on" THEN "off" ELSE timer
    /\ Looks(s)

OpensHome(s) ==
    /\ Elsewhere /\ Room
    /\ step[s] = "idle"
    /\ Refreshes
    /\ Starts(s)
    /\ UNCHANGED <<settings, path, online, calling, planning, network>>

StartReads(s) ==
    /\ step[s] = "starts"
    /\ search[s] = None
    /\ step' = [step EXCEPT ![s] = "reads"]
    /\ Refreshes
    /\ UNCHANGED <<settings, path, online, calling, planning, search, timer, network>>

Saves(s) ==
    /\ Elsewhere /\ Room
    /\ step[s] = "idle"
    /\ settings' \in Choices
    /\ step' = [step EXCEPT ![s] = "writes"]
    /\ UNCHANGED <<path, online, pass, calling, planning, search, timer, network>>

SaveFails(s) ==
    /\ step[s] = "writes"
    /\ step' = [step EXCEPT ![s] = "idle"]
    /\ UNCHANGED <<settings, path, online, pass, calling, planning, search, timer, network>>

SaveWritten(s) ==
    /\ step[s] = "writes"
    /\ step' = [step EXCEPT ![s] = "checks"]
    /\ Looks(s)
    /\ UNCHANGED <<settings, path, online, pass, calling, planning, timer, network>>

SaveChecks(s) ==
    /\ step[s] = "checks"
    /\ search[s] = None
    /\ Refreshes
    /\ UNCHANGED <<settings, path, online, calling, planning, network>>

SaveEnds(s) ==
    /\ SaveChecks(s)
    /\ step' = [step EXCEPT ![s] = "idle"]
    /\ UNCHANGED <<search, timer>>

\* With another interval, polling starts anew beside the check.
SaveRestarts(s) ==
    /\ SaveChecks(s)
    /\ timer # "none"
    /\ Room
    /\ Starts(s)

Settles(s) ==
    \/ OpensHome(s) \/ StartReads(s)
    \/ Saves(s) \/ SaveFails(s) \/ SaveWritten(s) \/ SaveEnds(s) \/ SaveRestarts(s)

NetworkChanges ==
    /\ network' \in Networks
    /\ UNCHANGED <<settings, path, online, pass, calling, planning, search, polling>>

Next ==
    \/ Ticks \/ UserRefreshes \/ Passes \/ UserActs
    \/ Plans \/ NetworkChanges
    \/ \E s \in Screens : Settles(s)
    \/ \E o \in Owners : Searches(o)

\* Requests have deadlines, the system ends what it cannot connect, and the timer ticks.
\* The desktop does not answer every read with an error.
Fairness ==
    /\ SF_vars(Ticks)
    /\ WF_vars(Passes)
    /\ SF_vars(DashboardArrives) /\ SF_vars(ResourcesArrive)
    /\ \A o \in Owners : WF_vars(Searches(o))
    /\ \A s \in Screens : WF_vars(SaveWritten(s) \/ SaveEnds(s) \/ StartReads(s))
    /\ \A a \in Actions : WF_vars(CallAnswered(a) \/ CallRefused(a) \/ CallUnanswered(a))

Spec == Init /\ [][Next]_vars
FairSpec == Spec /\ Fairness

-----------------------------------------------------------------------------
\* Replacing a client never cuts a request that is counted (_retire, app_state.dart:149): the
\* client it waits on is open, unless the planning screen closed it.
OnlyCancelCuts ==
    /\ pass.stage \in OnTheWire => to[pass.on] # "none"
    /\ \A a \in Actions : calling[a] # None => to[calling[a]] # "none"

\* No replaced client stays open (_closeRetired, app_state.dart:158): what is open is in
\* use, or waits for what is on the wire.
NothingLeaks ==
    \A c \in AllClients : to[c] \in Where => c = client \/ (c \in retired /\ InFlight)

Here == settings.lan \in network.desktop /\ planning = None

\* "The retry is the next poll" (app_state.dart:6): where the desktop answers at the saved
\* address, readings arrive again and again, if the relay does not answer in its stead.
Reconnects == <>[](Here /\ network.relay # "offline") => []<><<ResourcesArrive>>_vars
=============================================================================
