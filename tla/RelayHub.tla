------------------------------ MODULE RelayHub ------------------------------
(***************************************************************************)
(* The relay's rendezvous of phone requests with the desktop that polls    *)
(* for them, and the desktop's connector.                                  *)
(*                                                                         *)
(* Each phone request and each poll is a thread of the relay; the          *)
(* connector is one thread of the desktop.  A connection may break on      *)
(* either side without the other knowing: the relay's thread of a broken   *)
(* poll still drains the queue.  Relay and desktop restart at any time,    *)
(* and neither keeps anything.                                             *)
(***************************************************************************)
EXTENDS Naturals, SequencesExt

CONSTANTS
    Requests,  \* requests of phones; a retry is a request of its own
    Polls,     \* polls the relay may have open together
    None       \* no poll

ASSUME PollsAssumption == None \notin Polls

VARIABLES
    phone,      \* the relay's thread of each request, and how it ended
    waiter,     \* the relay's record of each request: "absent", "open" or the answer
    pending,    \* requests queued for the desktop
    poll,       \* the relay's thread of each poll: "free", "waiting", "returning"
    carried,    \* what each poll that returns has drained
    connected,  \* the desktop has polled
    fresh,      \* it has done so within offline_seconds
    connector,  \* the desktop's loop: "down", "ready", "polling", "serving"
    current,    \* the poll the loop listens to
    batch,      \* requests the loop has left to serve
    result,     \* what the local API made of the first of them
    lingering,  \* requests the local API has not done with when the loop gave up on it
    late,       \* answers whose sending was given up and may still arrive
    executed,   \* history: how often each request was executed
    lost        \* history: requests dropped unexecuted by a failure

relayVars   == <<waiter, pending, poll, carried, connected, fresh>>
desktopVars == <<connector, current, batch, result, lingering>>
history     == <<executed, lost>>
vars == <<phone, relayVars, desktopVars, late, history>>

Open == {"asking", "waiting", "expired"}
Answers == {"executed", "localError"}

Init ==
    /\ phone = [r \in Requests |-> "idle"]
    /\ waiter = [r \in Requests |-> "absent"]
    /\ pending = <<>>
    /\ poll = [p \in Polls |-> "free"]
    /\ carried = [p \in Polls |-> <<>>]
    /\ connected = FALSE /\ fresh = FALSE
    /\ connector = "ready" /\ current = None
    /\ batch = <<>> /\ result = "none"
    /\ lingering = {} /\ late = {}
    /\ executed = [r \in Requests |-> 0]
    /\ lost = {}

-----------------------------------------------------------------------------
\* The thread of a phone's request.

\* The desktop is looked for first; the request is queued in a step of its own.
Asks(r) ==
    /\ phone[r] = "idle"
    /\ phone' = [phone EXCEPT ![r] = IF connected /\ fresh THEN "asking" ELSE "turnedAway"]
    /\ UNCHANGED <<relayVars, desktopVars, late, history>>

Submits(r) ==
    /\ phone[r] = "asking"
    /\ phone' = [phone EXCEPT ![r] = "waiting"]
    /\ waiter' = [waiter EXCEPT ![r] = "open"]
    /\ pending' = Append(pending, r)
    /\ UNCHANGED <<poll, carried, connected, fresh, desktopVars, late, history>>

\* (mutant: the record of the request stays)
EndsAndKeeps(r, outcome) ==
    /\ phone' = [phone EXCEPT ![r] = outcome]
    /\ UNCHANGED <<waiter, pending, poll, carried, connected, fresh, desktopVars, late, history>>

EndsWith(r, outcome) ==
    /\ phone' = [phone EXCEPT ![r] = outcome]
    /\ waiter' = [waiter EXCEPT ![r] = "absent"]
    /\ UNCHANGED <<pending, poll, carried, connected, fresh, desktopVars, late, history>>

TakesAnswer(r) ==
    /\ phone[r] = "waiting"
    /\ waiter[r] \in Answers
    /\ EndsWith(r, IF waiter[r] = "executed" THEN "answered" ELSE "failed")

\* The wait has timed out; the record is still there.
TimesOut(r) ==
    /\ phone[r] = "waiting"
    /\ waiter[r] = "open"
    /\ phone' = [phone EXCEPT ![r] = "expired"]
    /\ UNCHANGED <<relayVars, desktopVars, late, history>>

GivesUp(r) ==
    /\ phone[r] = "expired"
    /\ EndsWith(r, "gaveUp")

-----------------------------------------------------------------------------
\* The threads of the desktop's polls.

\* (mutant: a failed poll ends the loop)
StillConnected == connector = "ready"

\* The loop polls again after a batch, or after the back-off that follows an error.
MayPoll == connector \in {"ready", "down"}

PollsAgain(p) ==
    /\ MayPoll
    /\ poll[p] = "free"
    /\ poll' = [poll EXCEPT ![p] = "waiting"]
    /\ connected' = TRUE /\ fresh' = TRUE
    /\ connector' = "polling" /\ current' = p
    /\ UNCHANGED <<phone, waiter, pending, carried, batch, result, lingering, late,
                   history>>

\* (mutant: the poll returns the queue itself, which it has cleared)
DrainedAfterClearing == <<>>

Drained == pending

\* (mutant: the queue is not cleared)
LeftToTheNext == pending

LeftAfterDrain == <<>>

\* Woken by a request or at the end of its time, a poll takes all there is.
PollReturns(p) ==
    /\ poll[p] = "waiting"
    /\ poll' = [poll EXCEPT ![p] = "returning"]
    /\ carried' = [carried EXCEPT ![p] = Drained]
    /\ pending' = LeftAfterDrain
    /\ UNCHANGED <<phone, waiter, connected, fresh, desktopVars, late, history>>

LoopAfter(rest) == IF rest = <<>> THEN "ready" ELSE "serving"

PollArrives(p) ==
    /\ poll[p] = "returning" /\ p = current
    /\ poll' = [poll EXCEPT ![p] = "free"]
    /\ carried' = [carried EXCEPT ![p] = <<>>]
    /\ batch' = carried[p]
    /\ connector' = LoopAfter(carried[p])
    /\ current' = None
    /\ UNCHANGED <<phone, waiter, pending, connected, fresh, result, lingering, late,
                   history>>

\* Nobody listens to this poll any more.
OrphanEnds(p) ==
    /\ poll[p] = "returning" /\ p # current
    /\ poll' = [poll EXCEPT ![p] = "free"]
    /\ carried' = [carried EXCEPT ![p] = <<>>]
    /\ lost' = lost \cup ToSet(carried[p])
    /\ UNCHANGED <<phone, waiter, pending, connected, fresh, desktopVars, late, executed>>

\* A heartbeat is older than offline_seconds only if no poll has begun since: one
\* that waits began less than poll_seconds ago.
HeartbeatAges ==
    /\ fresh
    /\ \A p \in Polls : poll[p] # "waiting"
    /\ fresh' = FALSE
    /\ UNCHANGED <<phone, waiter, pending, poll, carried, connected, desktopVars, late, history>>

-----------------------------------------------------------------------------
\* The desktop's loop.

PollFails ==
    /\ connector = "polling"
    /\ connector' = "down" /\ current' = None
    /\ UNCHANGED <<phone, relayVars, batch, result, lingering, late, history>>

Executes ==
    /\ connector = "serving" /\ result = "none"
    /\ executed' = [executed EXCEPT ![Head(batch)] = @ + 1]
    /\ result' = "executed"
    /\ UNCHANGED <<phone, relayVars, connector, current, batch, lingering, late, lost>>

\* The local API does not answer in time: it has executed the request, or has not
\* and will not, or will when the lock it waits for is free.
LocalFails ==
    /\ connector = "serving" /\ result = "none"
    /\ \/ /\ executed' = [executed EXCEPT ![Head(batch)] = @ + 1]
          /\ UNCHANGED <<lost, lingering>>
       \/ /\ lost' = lost \cup {Head(batch)}
          /\ UNCHANGED <<executed, lingering>>
       \/ /\ lingering' = lingering \cup {Head(batch)}
          /\ UNCHANGED history
    /\ result' = "localError"
    /\ UNCHANGED <<phone, relayVars, connector, current, batch, late>>

ExecutesLate(r) ==
    /\ r \in lingering
    /\ lingering' = lingering \ {r}
    /\ executed' = [executed EXCEPT ![r] = @ + 1]
    /\ UNCHANGED <<phone, relayVars, connector, current, batch, result, late, lost>>

\* An answer reaches the relay, which drops it if the phone is gone.
Records(r, answer) ==
    /\ waiter' = [waiter EXCEPT ![r] = IF @ = "absent" THEN @ ELSE answer]
    /\ UNCHANGED <<pending, poll, carried, connected, fresh, executed, lost>>

\* The answer arrives now, or later or never; the loop goes on.
Responds ==
    /\ connector = "serving" /\ result # "none"
    /\ \/ Records(Head(batch), result) /\ UNCHANGED late
       \/ late' = late \cup {<<Head(batch), result>>} /\ UNCHANGED <<relayVars, history>>
    /\ batch' = Tail(batch) /\ result' = "none"
    /\ connector' = LoopAfter(Tail(batch))
    /\ UNCHANGED <<phone, current, lingering>>

ArrivesLate(r, answer) ==
    /\ <<r, answer>> \in late
    /\ late' = late \ {<<r, answer>>}
    /\ Records(r, answer)
    /\ UNCHANGED <<phone, desktopVars>>

-----------------------------------------------------------------------------
\* Restarts.

DesktopRestarts ==
    /\ connector' = "ready" /\ current' = None
    /\ batch' = <<>> /\ result' = "none"
    /\ lingering' = {}
    /\ lost' = lost \cup {r \in ToSet(batch) \cup lingering : executed[r] = 0}
    /\ UNCHANGED <<phone, relayVars, late, executed>>

RelayRestarts ==
    /\ phone' = [r \in Requests |-> IF phone[r] \in Open THEN "broken" ELSE phone[r]]
    /\ waiter' = [r \in Requests |-> "absent"]
    /\ pending' = <<>>
    /\ poll' = [p \in Polls |-> "free"]
    /\ carried' = [p \in Polls |-> <<>>]
    /\ connected' = FALSE /\ fresh' = FALSE
    /\ connector' = IF connector = "polling" THEN "down" ELSE connector
    /\ current' = None
    /\ late' = {}
    /\ lost' = lost \cup ToSet(pending) \cup (UNION {ToSet(carried[p]) : p \in Polls})
                    \cup {r \in Requests : phone[r] = "asking"}
    /\ UNCHANGED <<batch, result, lingering, executed>>

-----------------------------------------------------------------------------
PhoneStep(r) == Asks(r) \/ Submits(r) \/ TakesAnswer(r) \/ TimesOut(r) \/ GivesUp(r)
PollStep(p)  == PollsAgain(p) \/ PollReturns(p) \/ PollArrives(p) \/ OrphanEnds(p)
LoopStep     == PollFails \/ Executes \/ LocalFails \/ Responds

Next ==
    \/ \E r \in Requests : PhoneStep(r) \/ ExecutesLate(r)
    \/ \E p \in Polls : PollStep(p)
    \/ LoopStep
    \/ \E r \in Requests, answer \in Answers : ArrivesLate(r, answer)
    \/ HeartbeatAges
    \/ DesktopRestarts
    \/ RelayRestarts

Spec == Init /\ [][Next]_vars

\* Waits end, a poll returns and its reply arrives or breaks off, and the loop
\* goes on; nothing is assumed of phones, restarts and answers that are late.
Fairness ==
    /\ \A r \in Requests : WF_vars(TakesAnswer(r) \/ TimesOut(r) \/ GivesUp(r))
    /\ \A p \in Polls : WF_vars(PollReturns(p)) /\ WF_vars(PollArrives(p) \/ OrphanEnds(p))
    /\ WF_vars(\E p \in Polls : PollsAgain(p))
    /\ WF_vars(Executes \/ LocalFails \/ Responds)
    /\ \A r \in Requests : WF_vars(ExecutesLate(r))

FairSpec == Spec /\ Fairness

-----------------------------------------------------------------------------
Ended == {"turnedAway", "answered", "failed", "gaveUp", "broken"}

\* Every variable keeps its type; the loop serves only while it has a request.
TypeOK ==
    /\ phone \in [Requests -> {"idle"} \cup Open \cup Ended]
    /\ waiter \in [Requests -> {"absent", "open"} \cup Answers]
    /\ pending \in Seq(Requests) /\ batch \in Seq(Requests)
    /\ poll \in [Polls -> {"free", "waiting", "returning"}]
    /\ carried \in [Polls -> Seq(Requests)]
    /\ connected \in BOOLEAN /\ fresh \in BOOLEAN
    /\ connector \in {"down", "ready", "polling", "serving"}
    /\ current \in Polls \cup {None}
    /\ result \in {"none"} \cup Answers
    /\ lingering \subseteq Requests /\ late \subseteq Requests \X Answers
    /\ executed \in [Requests -> Nat]
    /\ lost \subseteq Requests
    /\ connector = "serving" <=> batch # <<>>
    /\ connector = "polling" <=> current # None

\* The relay keeps a record of exactly the requests a phone waits for: none leaks,
\* whatever answers arrive after the phone has gone.
RecordsArePhones ==
    \A r \in Requests : waiter[r] # "absent" <=> phone[r] \in {"waiting", "expired"}

\* No request falls between the queue, the polls that drain it side by side and the
\* loop: one that was queued is in one of them, executed, or dropped by a failure.
Accepted(r) == phone[r] \notin {"idle", "asking", "turnedAway"}

Underway(r) ==
    \/ r \in ToSet(pending) \cup ToSet(batch) \cup lingering
    \/ \E p \in Polls : r \in ToSet(carried[p])

NoneSlipsThrough ==
    \A r \in Requests :
        Accepted(r) => Underway(r) \/ executed[r] > 0 \/ r \in lost

\* What a phone knows of its request.
Phase(r) ==
    IF phone[r] \in Open THEN "open"
    ELSE IF phone[r] \in {"gaveUp", "broken"} THEN "unanswered"
    ELSE phone[r]

Delivery == INSTANCE RequestDelivery WITH
    phase <- [r \in Requests |-> Phase(r)], count <- executed

\* The promise to the phones, relied on by their offline queues: see RequestDelivery.
ImplementsDelivery == Delivery!Spec

\* Whatever fails, a request that was queued is executed or dropped, and the thread
\* that waits for it ends.
EndsSomehow ==
    \A r \in Requests :
        Accepted(r) ~> /\ phone[r] \in Ended
                       /\ executed[r] > 0 \/ r \in lost
=============================================================================
