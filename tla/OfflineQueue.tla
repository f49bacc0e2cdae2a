---------------------------- MODULE OfflineQueue ----------------------------
(***************************************************************************)
(* Captures on their way from the phone to the desktop's journal.          *)
(*                                                                         *)
(* The phone keeps its captures in a stored queue and posts them in order, *)
(* oldest first.  A flush is a coroutine: the poll and each screen that    *)
(* saves may run one, and they interleave at every await, with each other  *)
(* and with new captures.  A request may be lost, may be executed without  *)
(* its answer arriving, or long after the phone gave it up.  The desktop   *)
(* recognises a capture it already has by the client_id, here the capture  *)
(* itself.                                                                 *)
(***************************************************************************)
EXTENDS Naturals, Sequences, Functions

CONSTANTS
    Captures,   \* what the user may write down
    Flushes     \* the flushes that may be under way together

VARIABLES
    captured,   \* captures taken so far
    awaiting,   \* captures whose saving on the device is awaited
    confirmed,  \* captures the user was told are saved on the device
    stored,     \* the queue in the preferences, as the program reads it
    disk,       \* the queue as the device has it
    stage,      \* where each flush is: "idle", "sending", "saving"
    entries,    \* the entries each flush has left to send
    reply,      \* what the desktop made of the request of each flush
    late,       \* captures whose request was given up and may still arrive
    paired,     \* the desktop trusts the phone's token
    journal,    \* the captures in the journal's file, in the order of their recording
    readable,   \* the journal's file can be parsed
    destroyed,  \* history: captures that were in the journal when a write cut it short
    refused,    \* history: captures the desktop answered with an error
    overlapped  \* history: captures taken while a flush was under way

phoneVars   == <<captured, awaiting, confirmed, stored, disk, stage, entries>>
desktopVars == <<late, paired, journal, readable, destroyed>>
queueVars == <<phoneVars, desktopVars, reply, refused, overlapped>>

QueueInit ==
    /\ captured = {} /\ awaiting = {} /\ confirmed = {}
    /\ stored = <<>> /\ disk = <<>>
    /\ stage = [f \in Flushes |-> "idle"]
    /\ entries = [f \in Flushes |-> <<>>]
    /\ reply = [f \in Flushes |-> "none"]
    /\ late = {}
    /\ paired = TRUE
    /\ journal = <<>>
    /\ readable = TRUE
    /\ destroyed = {} /\ refused = {} /\ overlapped = {}

InJournal(c) == c \in Range(journal)

-----------------------------------------------------------------------------
\* The phone.  A change of the preferences is read back at once and reaches
\* the device later.

Enqueue(c) ==
    /\ c \notin captured
    /\ captured' = captured \cup {c}
    /\ awaiting' = awaiting \cup {c}
    /\ stored' = Append(stored, c)
    /\ overlapped' = IF \E f \in Flushes : stage[f] # "idle"
                     THEN overlapped \cup {c} ELSE overlapped
    /\ UNCHANGED <<confirmed, disk, stage, entries, reply, refused, desktopVars>>

FlushBegins(f) ==
    /\ stage[f] = "idle"
    /\ stored # <<>>
    /\ entries' = [entries EXCEPT ![f] = stored]
    /\ stage' = [stage EXCEPT ![f] = "sending"]
    /\ UNCHANGED <<captured, awaiting, confirmed, stored, disk, reply, refused, overlapped,
                   desktopVars>>

\* (mutant: an unanswered capture is skipped)
SkipsOver(f) ==
    /\ entries' = [entries EXCEPT ![f] = Tail(@)]
    /\ stored' = Tail(entries[f])
    /\ stage' = [stage EXCEPT ![f] = "saving"]
    /\ reply' = [reply EXCEPT ![f] = "none"]
    /\ UNCHANGED <<captured, awaiting, confirmed, disk>>

\* The flush ends; what it had left stays in the stored queue.
Stops(f) ==
    /\ stage' = [stage EXCEPT ![f] = "idle"]
    /\ entries' = [entries EXCEPT ![f] = <<>>]
    /\ reply' = [reply EXCEPT ![f] = "none"]
    /\ UNCHANGED <<captured, awaiting, confirmed, stored, disk>>

\* No answer within the deadline, no route, or an error of the relay: the flush
\* stops.  The desktop may have the request, now or later.
Unanswered(f) ==
    /\ stage[f] = "sending"
    /\ late' \in IF reply[f] = "none" THEN {late, late \cup {Head(entries[f])}}
                 ELSE {late}
    /\ Stops(f)
    /\ UNCHANGED <<paired, journal, readable, destroyed, refused, overlapped>>

TurnedAway(f) ==
    /\ stage[f] = "sending"
    /\ reply[f] = "unauthorized"
    /\ Stops(f)
    /\ UNCHANGED <<desktopVars, refused, overlapped>>

\* (mutant: the rest of the flush's own copy is not stored)
KeepsTheQueue(f) ==
    /\ entries' = [entries EXCEPT ![f] = Tail(@)]
    /\ stage' = [stage EXCEPT ![f] = "saving"]
    /\ UNCHANGED stored

\* The flush drops the first entry of its copy and stores the copy.
DropsHead(f) ==
    /\ entries' = [entries EXCEPT ![f] = Tail(@)]
    /\ stored' = Tail(entries[f])
    /\ stage' = [stage EXCEPT ![f] = "saving"]

\* An accepted capture leaves the queue, and so does one answered with an error.
Answered(f) ==
    /\ stage[f] = "sending"
    /\ reply[f] \in {"recorded", "failed"}
    /\ DropsHead(f)
    /\ reply' = [reply EXCEPT ![f] = "none"]
    /\ refused' = IF reply[f] = "failed" THEN refused \cup {Head(entries[f])}
                  ELSE refused
    /\ UNCHANGED <<captured, awaiting, confirmed, disk, overlapped, desktopVars>>

AfterSaving(f) == IF entries[f] = <<>> THEN "idle" ELSE "sending"

\* The writes made so far have reached the device: flushes go on, and the user
\* is told that captures are saved.
Persist ==
    /\ disk # stored \/ awaiting # {} \/ \E f \in Flushes : stage[f] = "saving"
    /\ disk' = stored
    /\ confirmed' = confirmed \cup awaiting
    /\ awaiting' = {}
    /\ stage' = [f \in Flushes |-> IF stage[f] = "saving" THEN AfterSaving(f) ELSE stage[f]]
    /\ UNCHANGED <<captured, stored, entries, reply, refused, overlapped,
                   desktopVars>>

\* The app is killed and started again.  A capture that was not on the device
\* is not on the way either.
PhoneRestart ==
    /\ stored' = disk
    /\ late' = late \cup {Head(entries[f]) : f \in {g \in Flushes :
                              stage[g] = "sending" /\ reply[g] = "none"}}
    /\ stage' = [f \in Flushes |-> "idle"]
    /\ entries' = [f \in Flushes |-> <<>>]
    /\ reply' = [f \in Flushes |-> "none"]
    /\ awaiting' = {}
    /\ UNCHANGED <<captured, confirmed, disk, paired, journal, readable, destroyed, refused,
                   overlapped>>

-----------------------------------------------------------------------------
\* The desktop.

\* (mutant: the client_id is not looked up)
RecordedAgain(c) == Append(journal, c)

Recorded(c) == IF InJournal(c) THEN journal ELSE Append(journal, c)

\* What a request for a capture comes to.  A file that cannot be parsed answers
\* like an invalid payload.
Outcome == IF ~ paired THEN "unauthorized" ELSE IF readable THEN "recorded" ELSE "failed"

JournalAfter(c) == IF Outcome = "recorded" THEN Recorded(c) ELSE journal

Handles(f) ==
    /\ stage[f] = "sending"
    /\ reply[f] = "none"
    /\ reply' = [reply EXCEPT ![f] = Outcome]
    /\ journal' = JournalAfter(Head(entries[f]))
    /\ UNCHANGED <<phoneVars, late, paired, readable, destroyed, refused, overlapped>>

HandlesLate(c) ==
    /\ c \in late
    /\ late' = late \ {c}
    /\ journal' = JournalAfter(c)
    /\ UNCHANGED <<phoneVars, paired, readable, destroyed, reply, refused, overlapped>>

\* The whole file is written over in place. It is as it was if it could not be opened;
\* cut short it does not parse, and what it held is lost with it.
JournalKept == UNCHANGED <<journal, readable, destroyed>>

JournalCut ==
    /\ journal' = <<>>
    /\ readable' = FALSE
    /\ destroyed' = destroyed \cup Range(journal)

Writes(c) == Outcome = "recorded" /\ ~ InJournal(c)

\* The write fails, or the desktop goes down in the middle of it and nobody answers.
WriteFails(f) ==
    /\ stage[f] = "sending"
    /\ reply[f] = "none"
    /\ Writes(Head(entries[f]))
    /\ \/ reply' = [reply EXCEPT ![f] = "failed"] /\ (JournalKept \/ JournalCut)
       \/ reply' = [reply EXCEPT ![f] = "lost"] /\ JournalCut
    /\ UNCHANGED <<phoneVars, late, paired, refused, overlapped>>

LateWriteFails(c) ==
    /\ c \in late
    /\ Writes(c)
    /\ late' = late \ {c}
    /\ JournalKept \/ JournalCut
    /\ UNCHANGED <<phoneVars, paired, reply, refused, overlapped>>

\* The desktop revokes the phone, or pairs with it again.
Revoke ==
    /\ paired
    /\ paired' = FALSE
    /\ UNCHANGED <<phoneVars, late, journal, readable, destroyed, reply, refused, overlapped>>

\* A new token: the requests on the way carry the old one.
PairAgain ==
    /\ ~ paired
    /\ paired' = TRUE
    /\ late' = {}
    /\ reply' = [f \in Flushes |-> IF stage[f] = "sending" /\ reply[f] = "none"
                                  THEN "unauthorized" ELSE reply[f]]
    /\ UNCHANGED <<phoneVars, journal, readable, destroyed, refused, overlapped>>

-----------------------------------------------------------------------------
FlushStep(f) ==
    \/ FlushBegins(f)
    \/ Unanswered(f)
    \/ TurnedAway(f)
    \/ Answered(f)
    \/ Handles(f)
    \/ WriteFails(f)

QueueNext ==
    \/ \E c \in Captures : Enqueue(c) \/ HandlesLate(c) \/ LateWriteFails(c)
    \/ \E f \in Flushes : FlushStep(f)
    \/ Persist
    \/ PhoneRestart
    \/ Revoke
    \/ PairAgain

QueueSpec == QueueInit /\ [][QueueNext]_queueVars

-----------------------------------------------------------------------------
\* Every variable keeps its type, and the history of a capture is consistent.
TypeOK ==
    /\ captured \subseteq Captures
    /\ awaiting \subseteq captured /\ confirmed \subseteq captured
    /\ stored \in Seq(captured) /\ disk \in Seq(captured)
    /\ stage \in [Flushes -> {"idle", "sending", "saving"}]
    /\ entries \in [Flushes -> Seq(captured)]
    /\ reply \in [Flushes -> {"none", "recorded", "failed", "unauthorized", "lost"}]
    /\ late \subseteq captured
    /\ paired \in BOOLEAN /\ readable \in BOOLEAN
    /\ journal \in Seq(captured)
    /\ destroyed \subseteq captured
    /\ refused \subseteq captured /\ overlapped \subseteq captured
    /\ \A f \in Flushes : stage[f] = "sending" => entries[f] # <<>>

\* A capture is recorded at most once, however often it is sent: by flushes that
\* overlap, from a queue that a restart brought back, by requests that arrive
\* after the phone gave them up.
JournalledOnce == IsInjective(journal)

\* What the user was told is saved is on the phone or in the journal, unless the
\* desktop answered it with an error, it was taken during a flush, or it was in the
\* journal when a write cut the file short: restarts, lost answers, revocations,
\* flushes that overlap, and a write that goes wrong before it was recorded, lose
\* nothing else.
LostOnlyByRefusalOverlapOrCut ==
    \A c \in confirmed \ (refused \cup overlapped \cup destroyed) :
        c \in Range(stored) \/ InJournal(c)

-----------------------------------------------------------------------------
\* A poll flushes again and again; now and then a request is handled and answered,
\* and the device writes before the app is killed again; a flush that is turned
\* away or reaches its deadline stops.  No flush in particular is favoured.
QueueFairness ==
    /\ SF_queueVars(Persist)
    /\ SF_queueVars(\E f \in Flushes : FlushBegins(f))
    /\ SF_queueVars(\E f \in Flushes : Handles(f))
    /\ SF_queueVars(\E f \in Flushes : Answered(f))
    /\ WF_queueVars(\E f \in Flushes : TurnedAway(f) \/ Unanswered(f))

FairQueueSpec == QueueSpec /\ QueueFairness

\* The queue never wedges: while the phone is trusted every stored capture leaves
\* it, for the journal or because the desktop answered with an error, although
\* restarts and flushes that overlap may bring back what had left.
QueueDrains ==
    \A c \in Captures : c \in Range(stored) ~> c \notin Range(stored) \/ ~ paired
=============================================================================
