---------------------------- MODULE MobileProofs ----------------------------
(***************************************************************************)
(* The phone.  For any number of captures and of flushes under way         *)
(* together, a capture is recorded at most once, and none is lost but by   *)
(* an error answer, by having been taken during a flush, or in a journal   *)
(* that a write cut short.  For any number of clients, screens and         *)
(* actions, and any networks, replacing a client cuts no counted request   *)
(* and leaves no client open.                                              *)
(***************************************************************************)
EXTENDS OfflineQueue, PhoneConnection, TLAPS

-----------------------------------------------------------------------------
\* The queue of captures.

\* What the journal has or had, and what was refused or taken during a flush, need not be
\* in a queue.
HadIt(c) == InJournal(c) \/ c \in destroyed

Settled(c) == c \in refused \cup overlapped \/ HadIt(c)

\* The others are where they have to be: the device, the stored queue and the
\* copies of the flushes under way agree about them.
Agreed(c) ==
    /\ c \in confirmed => c \in Range(disk)
    /\ c \in awaiting \/ c \in Range(disk) => c \in Range(stored)
    /\ \A f \in Flushes : stage[f] # "idle" =>
           (c \in Range(entries[f]) <=> c \in Range(stored))

RepliesAreTrue ==
    \A f \in Flushes :
        /\ reply[f] # "none" => stage[f] = "sending"
        /\ reply[f] = "recorded" => HadIt(Head(entries[f]))

QueueInv ==
    /\ TypeOK
    /\ RepliesAreTrue
    /\ \A c \in captured : Settled(c) \/ Agreed(c)

-----------------------------------------------------------------------------
LEMMA RangeOf ==
    ASSUME NEW S, NEW s \in Seq(S)
    PROVE  /\ Range(s) \subseteq S
           /\ \A x \in S : Range(Append(s, x)) = Range(s) \cup {x}
           /\ s # <<>> => /\ Head(s) \in S
                          /\ Tail(s) \in Seq(S)
                          /\ Range(s) = {Head(s)} \cup Range(Tail(s))
<1>1. Range(s) \subseteq S
  BY DEF Range
<1>2. ASSUME NEW x \in S
      PROVE  Range(Append(s, x)) = Range(s) \cup {x}
  <2>1. DOMAIN Append(s, x) = DOMAIN s \cup {Len(s) + 1}
    OBVIOUS
  <2>2. /\ \A i \in DOMAIN s : Append(s, x)[i] = s[i]
        /\ Append(s, x)[Len(s) + 1] = x
    OBVIOUS
  <2> QED
    BY <2>1, <2>2 DEF Range
<1>3. ASSUME s # <<>>
      PROVE  /\ Head(s) \in S
             /\ Tail(s) \in Seq(S)
             /\ Range(s) = {Head(s)} \cup Range(Tail(s))
  <2>1. Head(s) \in S /\ Tail(s) \in Seq(S) /\ 1 \in DOMAIN s /\ Head(s) = s[1]
    BY <1>3
  <2>2. \A i \in DOMAIN Tail(s) : i + 1 \in DOMAIN s /\ Tail(s)[i] = s[i + 1]
    BY <1>3
  <2>3. \A i \in DOMAIN s : i # 1 => i - 1 \in DOMAIN Tail(s) /\ Tail(s)[i - 1] = s[i]
    BY <1>3
  <2>4. {Head(s)} \cup Range(Tail(s)) \subseteq Range(s)
    BY <2>1, <2>2 DEF Range
  <2>5. ASSUME NEW i \in DOMAIN s
        PROVE  s[i] \in {Head(s)} \cup Range(Tail(s))
    BY <2>1, <2>3 DEF Range
  <2>6. Range(s) \subseteq {Head(s)} \cup Range(Tail(s))
    BY <2>5 DEF Range
  <2> QED
    BY <2>1, <2>4, <2>6
<1> QED
  BY <1>1, <1>2, <1>3

LEMMA LongerSeq ==
    ASSUME NEW S, NEW T, S \subseteq T, NEW s \in Seq(S)
    PROVE  s \in Seq(T)
OBVIOUS

LEMMA InjectiveAppend ==
    ASSUME NEW S, NEW s \in Seq(S), NEW x \in S, IsInjective(s), x \notin Range(s)
    PROVE  IsInjective(Append(s, x))
<1>1. DOMAIN Append(s, x) = DOMAIN s \cup {Len(s) + 1}
  OBVIOUS
<1>2. /\ \A i \in DOMAIN s : Append(s, x)[i] = s[i] /\ s[i] # x
      /\ Append(s, x)[Len(s) + 1] = x
  BY DEF Range
<1> QED
  BY <1>1, <1>2 DEF IsInjective

-----------------------------------------------------------------------------
LEMMA InitQueueInv == QueueInit => QueueInv
<1> SUFFICES ASSUME QueueInit
             PROVE  QueueInv
  OBVIOUS
<1>1. TypeOK
  BY DEF QueueInit, TypeOK
<1>2. RepliesAreTrue
  BY DEF QueueInit, RepliesAreTrue
<1> QED
  BY <1>1, <1>2 DEF QueueInv, QueueInit

\* What a request comes to: the journal keeps what it has and may gain the capture.
LEMMA JournalGrows ==
    ASSUME TypeOK, NEW c \in captured
    PROVE  /\ JournalAfter(c) \in Seq(captured)
           /\ Range(journal) \subseteq Range(JournalAfter(c))
           /\ Outcome = "recorded" => c \in Range(JournalAfter(c))
           /\ Outcome \in {"recorded", "failed", "unauthorized"}
<1>1. journal \in Seq(captured)
  BY DEF TypeOK
<1>2. /\ Append(journal, c) \in Seq(captured)
      /\ Range(Append(journal, c)) = Range(journal) \cup {c}
  BY <1>1, RangeOf
<1> QED
  BY <1>1, <1>2 DEF JournalAfter, Recorded, InJournal, Outcome

LEMMA EnqueueStep ==
    ASSUME QueueInv, NEW c \in Captures, Enqueue(c)
    PROVE  QueueInv'
<1> USE DEF Enqueue, desktopVars
<1>1. /\ captured \subseteq captured' /\ c \in captured' /\ c \notin captured
      /\ stored \in Seq(captured) /\ disk \in Seq(captured) /\ journal \in Seq(captured)
      /\ \A f \in Flushes : entries[f] \in Seq(captured)
  BY DEF QueueInv, TypeOK
<1>2. /\ stored \in Seq(captured') /\ disk' \in Seq(captured')
      /\ journal' \in Seq(captured')
      /\ \A f \in Flushes : entries[f] \in Seq(captured')
  BY <1>1, LongerSeq
<1>3. /\ stored' \in Seq(captured')
      /\ Range(stored') = Range(stored) \cup {c}
  BY <1>1, <1>2, RangeOf
<1>4. TypeOK'
  BY <1>1, <1>2, <1>3 DEF QueueInv, TypeOK
<1>5. RepliesAreTrue'
  BY DEF QueueInv, RepliesAreTrue, HadIt, InJournal
<1>6. ASSUME NEW d \in captured'
      PROVE  (Settled(d) \/ Agreed(d))'
  <2>1. CASE d = c
    <3>1. CASE \E f \in Flushes : stage[f] # "idle"
      BY <2>1, <3>1 DEF Settled
    <3>2. CASE ~ \E f \in Flushes : stage[f] # "idle"
      BY <1>1, <1>3, <2>1, <3>2 DEF QueueInv, TypeOK, Agreed
    <3> QED
      BY <3>1, <3>2
  <2>2. CASE d # c
    BY <1>3, <2>2 DEF QueueInv, Settled, Agreed, HadIt, InJournal
  <2> QED
    BY <2>1, <2>2
<1> QED
  BY <1>4, <1>5, <1>6 DEF QueueInv

LEMMA FlushBeginsStep ==
    ASSUME QueueInv, NEW f \in Flushes, FlushBegins(f)
    PROVE  QueueInv'
<1> USE DEF FlushBegins, desktopVars
<1>1. TypeOK'
  BY DEF QueueInv, TypeOK
<1>2. RepliesAreTrue'
  BY DEF QueueInv, TypeOK, RepliesAreTrue, HadIt, InJournal
<1>3. ASSUME NEW d \in captured'
      PROVE  (Settled(d) \/ Agreed(d))'
  BY DEF QueueInv, TypeOK, Settled, Agreed, HadIt, InJournal
<1> QED
  BY <1>1, <1>2, <1>3 DEF QueueInv

\* A flush that gives up or is turned away changes no queue.
LEMMA StopsStep ==
    ASSUME QueueInv, NEW f \in Flushes, Unanswered(f) \/ TurnedAway(f)
    PROVE  QueueInv'
<1>1. /\ Stops(f)
      /\ stage[f] = "sending"
      /\ late' = late \/ late' = late \cup {Head(entries[f])}
      /\ UNCHANGED <<paired, journal, readable, destroyed, refused, overlapped>>
  BY DEF Unanswered, TurnedAway, desktopVars
<1> USE DEF Stops
<1>2. entries[f] \in Seq(captured) /\ entries[f] # <<>>
  BY <1>1 DEF QueueInv, TypeOK
<1>3. Head(entries[f]) \in captured
  BY <1>2
<1>4. TypeOK'
  BY <1>1, <1>3 DEF QueueInv, TypeOK
<1>5. RepliesAreTrue'
  BY <1>1 DEF QueueInv, TypeOK, RepliesAreTrue, HadIt, InJournal
<1>6. ASSUME NEW d \in captured'
      PROVE  (Settled(d) \/ Agreed(d))'
  BY <1>1 DEF QueueInv, TypeOK, Settled, Agreed, HadIt, InJournal
<1> QED
  BY <1>4, <1>5, <1>6 DEF QueueInv

LEMMA AnsweredStep ==
    ASSUME QueueInv, NEW f \in Flushes, Answered(f)
    PROVE  QueueInv'
<1> DEFINE h == Head(entries[f])
           rest == Tail(entries[f])
<1> USE DEF Answered, DropsHead, desktopVars
<1>1. /\ entries[f] \in Seq(captured) /\ entries[f] # <<>>
      /\ entries \in [Flushes -> Seq(captured)]
      /\ stage \in [Flushes -> {"idle", "sending", "saving"}]
  BY DEF QueueInv, TypeOK
<1>2. /\ h \in captured /\ rest \in Seq(captured)
      /\ Range(entries[f]) = {h} \cup Range(rest)
  BY <1>1, RangeOf
<1>3. TypeOK'
  BY <1>2 DEF QueueInv, TypeOK
<1>4. RepliesAreTrue'
  BY DEF QueueInv, TypeOK, RepliesAreTrue, HadIt, InJournal
<1>5. h \in refused' \/ h \in Range(journal') \cup destroyed'
  BY DEF QueueInv, TypeOK, RepliesAreTrue, Settled, HadIt, InJournal
<1>6. /\ stored' = rest /\ entries'[f] = rest
      /\ \A g \in Flushes \ {f} : entries'[g] = entries[g] /\ stage'[g] = stage[g]
  BY <1>1
<1>7. ASSUME NEW d \in captured', ~ Settled(d)'
      PROVE  Agreed(d)'
  <2>1. ~ Settled(d) /\ d # h /\ d \in captured
    BY <1>5, <1>7 DEF Settled, HadIt, InJournal
  <2>2. Agreed(d)
    BY <2>1 DEF QueueInv
  <2>3. d \in Range(rest) <=> d \in Range(stored)
    BY <1>2, <2>1, <2>2 DEF Agreed
  <2> QED
    BY <1>6, <2>2, <2>3 DEF Agreed
<1> QED
  BY <1>3, <1>4, <1>7 DEF QueueInv

LEMMA PersistStep ==
    ASSUME QueueInv, Persist
    PROVE  QueueInv'
<1> USE DEF Persist, AfterSaving, desktopVars
<1>1. TypeOK'
  BY DEF QueueInv, TypeOK
<1>2. RepliesAreTrue'
  BY DEF QueueInv, TypeOK, RepliesAreTrue, HadIt, InJournal
<1>3. \A g \in Flushes : stage'[g] # "idle" => stage[g] # "idle"
  BY DEF QueueInv, TypeOK
<1>4. ASSUME NEW d \in captured'
      PROVE  (Settled(d) \/ Agreed(d))'
  BY <1>3 DEF QueueInv, Settled, Agreed, HadIt, InJournal
<1> QED
  BY <1>1, <1>2, <1>4 DEF QueueInv

LEMMA PhoneRestartStep ==
    ASSUME QueueInv, PhoneRestart
    PROVE  QueueInv'
<1> USE DEF PhoneRestart
<1>1. \A g \in Flushes : stage[g] = "sending" => Head(entries[g]) \in captured
  BY DEF QueueInv, TypeOK
<1>2. TypeOK'
  <2>1. late' \subseteq captured
    BY <1>1 DEF QueueInv, TypeOK
  <2> QED
    BY <2>1 DEF QueueInv, TypeOK
<1>3. RepliesAreTrue'
  BY DEF RepliesAreTrue
<1>4. ASSUME NEW d \in captured'
      PROVE  (Settled(d) \/ Agreed(d))'
  BY DEF QueueInv, Settled, Agreed, HadIt, InJournal
<1> QED
  BY <1>2, <1>3, <1>4 DEF QueueInv

\* The desktop touches no queue; what the journal has it keeps, or is known to have had.
DesktopKeeps ==
    /\ UNCHANGED <<phoneVars, refused, overlapped>>
    /\ journal' \in Seq(captured)
    /\ Range(journal) \cup destroyed \subseteq Range(journal') \cup destroyed'
    /\ destroyed' \subseteq captured
    /\ late' \subseteq captured
    /\ reply' \in [Flushes -> {"none", "recorded", "failed", "unauthorized", "lost"}]
    /\ paired' \in BOOLEAN /\ readable' \in BOOLEAN
    /\ RepliesAreTrue'

LEMMA DesktopKeepsStep ==
    ASSUME QueueInv, DesktopKeeps
    PROVE  QueueInv'
<1> USE DEF DesktopKeeps, phoneVars
<1>1. TypeOK'
  BY DEF QueueInv, TypeOK
<1>2. ASSUME NEW d \in captured'
      PROVE  (Settled(d) \/ Agreed(d))'
  BY DEF QueueInv, Settled, Agreed, HadIt, InJournal
<1> QED
  BY <1>1, <1>2 DEF QueueInv

\* Whether the file of the journal is left alone or cut short, it is known what it had.
LEMMA CutKeeps ==
    ASSUME TypeOK, JournalKept \/ JournalCut
    PROVE  /\ journal' \in Seq(captured)
           /\ Range(journal) \cup destroyed \subseteq Range(journal') \cup destroyed'
           /\ destroyed' \subseteq captured
           /\ readable' \in BOOLEAN
<1>1. journal \in Seq(captured) /\ Range(journal) \subseteq captured
  BY RangeOf DEF TypeOK
<1>2. CASE JournalKept
  <2>1. journal' = journal /\ destroyed' = destroyed /\ readable' = readable
    BY <1>2 DEF JournalKept
  <2>2. Range(journal') = Range(journal)
    BY <2>1
  <2> QED
    BY <1>1, <2>1, <2>2 DEF TypeOK
<1>3. CASE JournalCut
  <2>1. /\ journal' = <<>> /\ readable' = FALSE
        /\ destroyed' = destroyed \cup Range(journal)
    BY <1>3 DEF JournalCut
  <2>2. journal' \in Seq(captured)
    BY <2>1
  <2> QED
    BY <1>1, <2>1, <2>2 DEF TypeOK
<1> QED
  BY <1>2, <1>3

LEMMA DesktopStep ==
    ASSUME QueueInv,
           \/ \E f \in Flushes : Handles(f) \/ WriteFails(f)
           \/ \E c \in Captures : HandlesLate(c) \/ LateWriteFails(c)
           \/ Revoke \/ PairAgain
    PROVE  DesktopKeeps
<1> USE DEF QueueInv, TypeOK, RepliesAreTrue, HadIt, InJournal, DesktopKeeps, phoneVars
<1>1. CASE \E f \in Flushes : Handles(f)
  <2>1. PICK f \in Flushes : Handles(f)
    BY <1>1
  <2>2. Head(entries[f]) \in captured
    BY <2>1 DEF Handles
  <2> QED
    BY <2>1, <2>2, JournalGrows DEF Handles
<1>2. CASE \E f \in Flushes : WriteFails(f)
  BY <1>2, CutKeeps DEF WriteFails
<1>3. CASE \E c \in Captures : HandlesLate(c)
  <2>1. PICK c \in Captures : HandlesLate(c)
    BY <1>3
  <2>2. c \in captured
    BY <2>1 DEF HandlesLate
  <2> QED
    BY <2>1, <2>2, JournalGrows DEF HandlesLate
<1>4. CASE \E c \in Captures : LateWriteFails(c)
  BY <1>4, CutKeeps DEF LateWriteFails
<1>5. CASE Revoke
  BY <1>5 DEF Revoke
<1>6. CASE PairAgain
  BY <1>6 DEF PairAgain
<1> QED
  BY <1>1, <1>2, <1>3, <1>4, <1>5, <1>6

-----------------------------------------------------------------------------
LEMMA NextQueueInv == QueueInv /\ [QueueNext]_queueVars => QueueInv'
<1> SUFFICES ASSUME QueueInv, [QueueNext]_queueVars
             PROVE  QueueInv'
  OBVIOUS
<1>1. CASE \E c \in Captures : Enqueue(c)
  BY <1>1, EnqueueStep
<1>2. CASE \E f \in Flushes : FlushBegins(f)
  BY <1>2, FlushBeginsStep
<1>3. CASE \E f \in Flushes : Unanswered(f) \/ TurnedAway(f)
  BY <1>3, StopsStep
<1>4. CASE \E f \in Flushes : Answered(f)
  BY <1>4, AnsweredStep
<1>5. CASE Persist
  BY <1>5, PersistStep
<1>6. CASE PhoneRestart
  BY <1>6, PhoneRestartStep
<1>7. CASE \/ \E f \in Flushes : Handles(f) \/ WriteFails(f)
           \/ \E c \in Captures : HandlesLate(c) \/ LateWriteFails(c)
           \/ Revoke \/ PairAgain
  BY <1>7, DesktopStep, DesktopKeepsStep
<1>8. CASE UNCHANGED queueVars
  BY <1>8 DEF queueVars, phoneVars, desktopVars, QueueInv, TypeOK, RepliesAreTrue, Settled,
              Agreed, HadIt, InJournal
<1> QED
  BY <1>1, <1>2, <1>3, <1>4, <1>5, <1>6, <1>7, <1>8 DEF QueueNext, FlushStep

THEOREM QueueSafety == QueueSpec => []QueueInv
BY InitQueueInv, NextQueueInv, PTL DEF QueueSpec

\* Every variable of the capture pipeline keeps its type.
THEOREM QueueTypes == QueueSpec => []TypeOK
<1>1. QueueInv => TypeOK
  BY DEF QueueInv
<1> QED
  BY <1>1, QueueSafety, PTL

\* A capture the user was told is saved is on the phone or in the journal, unless
\* the desktop refused it, it was taken while a flush was under way, or it was in the
\* journal when _JsonFileStore._save was cut short: for any number of captures,
\* flushes, restarts, failed writes and late requests.
THEOREM NothingElseIsLost == QueueSpec => []LostOnlyByRefusalOverlapOrCut
<1>1. QueueInv => LostOnlyByRefusalOverlapOrCut
  BY DEF QueueInv, TypeOK, LostOnlyByRefusalOverlapOrCut, Settled, Agreed, HadIt
<1> QED
  BY <1>1, QueueSafety, PTL

\* The client_id makes recording idempotent: no capture is in the journal twice.
THEOREM RecordedOnce == QueueSpec => []JournalledOnce
<1>1. QueueInit => JournalledOnce
  BY DEF QueueInit, JournalledOnce, IsInjective
<1>2. QueueInv /\ JournalledOnce /\ [QueueNext]_queueVars => JournalledOnce'
  <2> SUFFICES ASSUME QueueInv, JournalledOnce, [QueueNext]_queueVars
               PROVE  JournalledOnce'
    OBVIOUS
  <2>1. \/ journal' = journal
        \/ journal' = <<>>
        \/ \E c \in captured : journal' = JournalAfter(c)
    BY DEF QueueNext, FlushStep, Enqueue, FlushBegins, Unanswered, TurnedAway, Answered,
           Handles, WriteFails, HandlesLate,
           LateWriteFails, JournalKept, JournalCut, Persist, PhoneRestart, Revoke, PairAgain,
           queueVars, desktopVars, QueueInv, TypeOK
  <2>2. ASSUME NEW c \in captured, ~ InJournal(c)
        PROVE  IsInjective(Append(journal, c))
    BY <2>2, InjectiveAppend DEF QueueInv, TypeOK, JournalledOnce, InJournal
  <2>3. IsInjective(<<>>)
    BY DEF IsInjective
  <2> QED
    BY <2>1, <2>2, <2>3 DEF JournalledOnce, JournalAfter, Recorded
<1> QED
  BY <1>1, <1>2, QueueSafety, PTL DEF QueueSpec

-----------------------------------------------------------------------------
\* The clients.

Look_ == [lan : Addresses, remote : BOOLEAN, step : {"probe", "token"}]

Typed ==
    /\ settings \in [lan : Addresses, remote : BOOLEAN]
    /\ client \in AllClients
    /\ to \in [AllClients -> Where \cup {"none", "cut"}]
    /\ retired \subseteq AllClients
    /\ calling \in [Actions -> AllClients \cup {None}]
    /\ planning \in AllClients \cup {None}
    /\ search \in [Owners -> Look_ \cup {None}]
    /\ pass.stage \in OnTheWire => pass.on \in AllClients

\* The client in use is not about to be closed, nor has anybody but a screen closed it.
UsedIsOpen == client \notin retired /\ to[client] # "none"

\* Replaced clients wait only for what is on the wire.
NoneWaitsIdle == ~ InFlight => retired = {}

OpenIsKnown == \A c \in AllClients : to[c] \in Where => c \in retired \cup {client}

Bookkeeping == Typed /\ UsedIsOpen /\ NoneWaitsIdle /\ OpenIsKnown /\ OnlyCancelCuts

-----------------------------------------------------------------------------
\* The look that begins is of the type of looks.
LEMMA LookTyped == Typed => Look \in Look_
  BY DEF Typed, Look, Look_

\* The first reading of the home screen is over the first client, which is open.
LEMMA Opening == Init => Bookkeeping
<1> SUFFICES ASSUME Init PROVE Bookkeeping
  OBVIOUS
<1> USE ChoicesAssumption, NamesAssumption
<1>1. settings \in [lan : Addresses, remote : BOOLEAN] /\ settings.lan \in Addresses
  BY DEF Init
<1>2. PICK s \in Screens : search = [o \in Owners |-> IF o = s THEN Look ELSE None]
  BY DEF Init
<1>3. search \in [Owners -> Look_ \cup {None}]
  <2>1. Look \in Look_
    BY <1>1 DEF Look, Look_
  <2> QED
    BY <1>2, <2>1
<1>4. /\ client = First /\ First \in AllClients
      /\ to \in [AllClients -> Where \cup {"none", "cut"}]
      /\ to[client] = settings.lan
      /\ \A c \in AllClients : to[c] \in Where => c = client
  BY <1>1 DEF Init, AllClients, Where
<1>5. Typed
  BY <1>1, <1>3, <1>4 DEF Init, Typed
<1>6. UsedIsOpen /\ NoneWaitsIdle /\ OpenIsKnown
  BY <1>1, <1>4 DEF Init, UsedIsOpen, NoneWaitsIdle, OpenIsKnown
<1>7. OnlyCancelCuts
  BY <1>1, <1>4 DEF Init, OnlyCancelCuts
<1> QED
  BY <1>5, <1>6, <1>7 DEF Bookkeeping

-----------------------------------------------------------------------------
\* Closing what waits, once nothing is left on the wire, touches neither the client in use
\* nor what is counted.
LEMMA LandingFacts ==
    ASSUME Bookkeeping, NEW others \in BOOLEAN, Lands(others)
    PROVE  /\ to' \in [AllClients -> Where \cup {"none", "cut"}]
           /\ retired' \subseteq retired
           /\ planning' \in AllClients \cup {None}
           /\ to'[client] = to[client]
           /\ \A c \in AllClients : to'[c] \in Where => to[c] \in Where /\ c \in retired' \cup {client}
           /\ others => to' = to
           /\ ~ others => retired' = {}
<1>1. CASE others
  BY <1>1 DEF Lands, Bookkeeping, Typed, OpenIsKnown
<1>2. CASE ~ others
  <2>1. /\ to' = [c \in AllClients |-> IF c \in retired THEN "none" ELSE to[c]]
        /\ retired' = {}
        /\ planning' = IF planning \in retired THEN None ELSE planning
    BY <1>2 DEF Lands, Closing, PlanWithout
  <2>2. "none" \notin Where
    BY NamesAssumption DEF Where
  <2> QED
    BY <1>2, <2>1, <2>2 DEF Bookkeeping, Typed, OpenIsKnown, UsedIsOpen
<1> QED
  BY <1>1, <1>2

\* A swap makes an unused client the one in use, and closes the replaced one only if
\* nothing is on the wire.
LEMMA SwapFacts ==
    ASSUME Bookkeeping, NEW o \in Owners, NEW where \in Where, Swaps(o, where)
    PROVE  Bookkeeping'
<1> USE NamesAssumption
<1>1. PICK c \in Clients :
        /\ Unused(c)
        /\ client' = c
        /\ to' = [Closing(ClosedNow) EXCEPT ![c] = where]
        /\ planning' = PlanWithout(ClosedNow)
        /\ retired' = retired \cup WaitsToClose
        /\ search' = [search EXCEPT ![o] = None]
        /\ UNCHANGED <<settings, online, pass, calling, polling, network>>
  BY DEF Swaps, Found
<1>2. /\ c \in AllClients /\ c # client /\ c \notin retired
      /\ to[c] \notin Where
      /\ where # "none" /\ "none" \notin Where
      /\ \A a \in Actions : calling[a] # c
  BY <1>1 DEF Unused, Held, AllClients, Where
<1>t. ASSUME to' \in [AllClients -> Where \cup {"none", "cut"}],
             retired' \subseteq AllClients,
             planning' \in AllClients \cup {None}
      PROVE  Typed'
  <2>1. search' \in [Owners -> Look_ \cup {None}]
    BY <1>1 DEF Bookkeeping, Typed
  <2>2. client' \in AllClients /\ UNCHANGED <<settings, pass, calling>>
    BY <1>1, <1>2
  <2> QED
    BY <1>t, <2>1, <2>2 DEF Bookkeeping, Typed
<1>3. InFlight' <=> InFlight
  BY <1>1 DEF InFlight
<1>4. CASE InFlight
  <2>1. to' = [to EXCEPT ![c] = where] /\ retired' = retired \cup {client}
          /\ planning' = planning
    <3>1. Closing({}) = to
      BY DEF Closing, Bookkeeping, Typed
    <3> QED
      BY <1>1, <1>4, <3>1 DEF ClosedNow, WaitsToClose, PlanWithout
  <2>2. Typed'
    BY <1>2, <1>t, <2>1 DEF Bookkeeping, Typed
  <2>3. UsedIsOpen' /\ OpenIsKnown' /\ NoneWaitsIdle'
    BY <1>1, <1>2, <1>3, <1>4, <2>1
    DEF Bookkeeping, Typed, UsedIsOpen, OpenIsKnown, NoneWaitsIdle
  <2>4. OnlyCancelCuts'
    BY <1>1, <1>2, <2>1 DEF Bookkeeping, Typed, OnlyCancelCuts
  <2> QED
    BY <2>2, <2>3, <2>4 DEF Bookkeeping
<1>5. CASE ~ InFlight
  <2>1. /\ to' = [[d \in AllClients |-> IF d = client THEN "none" ELSE to[d]] EXCEPT ![c] = where]
        /\ retired' = {} /\ retired = {}
        /\ planning' = IF planning = client THEN None ELSE planning
    BY <1>1, <1>5 DEF ClosedNow, WaitsToClose, Closing, PlanWithout, Bookkeeping, NoneWaitsIdle
  <2>2. Typed'
    BY <1>2, <1>t, <2>1 DEF Bookkeeping, Typed
  <2>3. UsedIsOpen' /\ OpenIsKnown' /\ NoneWaitsIdle'
    BY <1>1, <1>2, <1>3, <2>1
    DEF Bookkeeping, Typed, UsedIsOpen, OpenIsKnown, NoneWaitsIdle
  <2>4. OnlyCancelCuts'
    BY <1>1, <1>5 DEF Bookkeeping, OnlyCancelCuts, InFlight, OnTheWire
  <2> QED
    BY <2>2, <2>3, <2>4 DEF Bookkeeping
<1> QED
  BY <1>4, <1>5

-----------------------------------------------------------------------------
\* What a step of a look for a path does: it swaps, or it changes the look alone.
LEMMA SearchKeeps ==
    ASSUME Bookkeeping, NEW o \in Owners, Searches(o)
    PROVE  Bookkeeping'
<1>1. search[o] # None => search[o] \in Look_
  BY DEF Bookkeeping, Typed
<1>2. search[o] # None => search[o].lan \in Where
  BY <1>1 DEF Look_, Where
<1>3. "relay" \in Where
  BY DEF Where
<1>4. CASE LanAnswers(o)
  BY <1>2, <1>4, SwapFacts DEF LanAnswers, Probing
<1>5. CASE NowhereToGo(o)
  BY <1>2, <1>5, SwapFacts DEF NowhereToGo, Probing
<1>6. CASE RelayAdmits(o)
  BY <1>3, <1>6, SwapFacts DEF RelayAdmits, Asking
<1>7. CASE RelayDenies(o)
  BY <1>2, <1>7, SwapFacts DEF RelayDenies, Asking
<1>8. CASE LanSilent(o) \/ RelaySilent(o)
  <2>1. /\ search' \in [Owners -> Look_ \cup {None}]
        /\ UNCHANGED <<settings, path, online, pass, calling, planning, polling, network>>
    <3>1. CASE LanSilent(o)
      <4>1. search' = [search EXCEPT ![o].step = "token"]
              /\ UNCHANGED <<settings, path, online, pass, calling, planning, polling, network>>
        BY <3>1 DEF LanSilent
      <4>2. [search[o] EXCEPT !.step = "token"] \in Look_
        BY <1>1, <3>1 DEF LanSilent, Probing, Look_
      <4> QED
        BY <4>1, <4>2 DEF Bookkeeping, Typed
    <3>2. CASE RelaySilent(o)
      BY <3>2 DEF RelaySilent, Found, Bookkeeping, Typed
    <3> QED
      BY <1>8, <3>1, <3>2
  <2> QED
    BY <2>1 DEF Bookkeeping, Typed, UsedIsOpen, NoneWaitsIdle, OpenIsKnown, OnlyCancelCuts,
                InFlight, path
<1> QED
  BY <1>4, <1>5, <1>6, <1>7, <1>8 DEF Searches

-----------------------------------------------------------------------------
\* A step that begins to wait for something, over the client in use, or goes on waiting.
LEMMA WaitingKeeps ==
    ASSUME Bookkeeping, UNCHANGED path,
           settings' \in [lan : Addresses, remote : BOOLEAN],
           search' \in [Owners -> Look_ \cup {None}],
           calling' \in [Actions -> AllClients \cup {None}],
           planning' \in AllClients \cup {None},
           \A a \in Actions : calling'[a] \in {calling[a], client},
           \/ pass' = pass
           \/ pass'.stage # "none" /\ (pass'.stage \in OnTheWire => pass'.on = client)
    PROVE  Bookkeeping'
<1>1. client' = client /\ to' = to /\ retired' = retired
  BY DEF path
<1>2. Typed'
  BY <1>1 DEF Bookkeeping, Typed
<1>3. UsedIsOpen' /\ OpenIsKnown'
  BY <1>1 DEF Bookkeeping, UsedIsOpen, OpenIsKnown
<1>4. InFlight => InFlight'
  <2>1. client # None
    BY NamesAssumption DEF Bookkeeping, Typed, AllClients
  <2> QED
    BY <2>1 DEF InFlight
<1>5. NoneWaitsIdle'
  BY <1>1, <1>4 DEF Bookkeeping, NoneWaitsIdle
<1>6. OnlyCancelCuts'
  BY <1>1, NamesAssumption DEF Bookkeeping, OnlyCancelCuts, UsedIsOpen, OnTheWire
<1> QED
  BY <1>2, <1>3, <1>5, <1>6 DEF Bookkeeping

\* A step that ends something counted.  While others remain, nothing is closed; when none
\* does, what begins in the same step is over the client in use.
LEMMA LandingKeeps ==
    ASSUME Bookkeeping, NEW others \in BOOLEAN, Lands(others),
           settings' = settings, client' = client,
           search' \in [Owners -> Look_ \cup {None}],
           calling' \in [Actions -> AllClients \cup {None}],
           \A a \in Actions : calling'[a] \in {calling[a], None},
           others => InFlight',
           ~ others => \A a \in Actions : calling'[a] = None,
           \/ others /\ pass' = pass
           \/ pass'.stage = "none"
           \/ pass'.stage = "dashboard" /\ pass'.on = client
    PROVE  Bookkeeping'
<1>1. /\ to' \in [AllClients -> Where \cup {"none", "cut"}]
      /\ retired' \subseteq retired
      /\ planning' \in AllClients \cup {None}
      /\ to'[client] = to[client]
      /\ \A c \in AllClients : to'[c] \in Where => to[c] \in Where /\ c \in retired' \cup {client}
      /\ others => to' = to
      /\ ~ others => retired' = {}
  BY LandingFacts
<1>2. "none" \notin OnTheWire
  BY DEF OnTheWire
<1>3. Typed'
  BY <1>1, <1>2 DEF Bookkeeping, Typed
<1>4. UsedIsOpen' /\ OpenIsKnown' /\ NoneWaitsIdle'
  BY <1>1 DEF Bookkeeping, UsedIsOpen, OpenIsKnown, NoneWaitsIdle
<1>5. OnlyCancelCuts'
  <2>1. pass'.stage \in OnTheWire => to'[pass'.on] # "none"
    BY <1>1, <1>2 DEF Bookkeeping, OnlyCancelCuts, UsedIsOpen
  <2>2. ASSUME NEW a \in Actions, calling'[a] # None
        PROVE  to'[calling'[a]] # "none"
    <3>1. others /\ calling'[a] = calling[a]
      BY <2>2
    <3> QED
      BY <1>1, <2>2, <3>1 DEF Bookkeeping, OnlyCancelCuts
  <2> QED
    BY <2>1, <2>2 DEF OnlyCancelCuts
<1> QED
  BY <1>3, <1>4, <1>5 DEF Bookkeeping

-----------------------------------------------------------------------------
\* A refresh is over the client in use, or joins the pass under way.
LEMMA RefreshFacts ==
    ASSUME Refreshes
    PROVE  \/ pass.stage # "none" /\ pass' = pass
           \/ pass'.stage = "dashboard" /\ pass'.on = client
  BY DEF Refreshes

\* No step of a pass disturbs the bookkeeping.
LEMMA PassKeeps == Bookkeeping /\ Passes => Bookkeeping'
<1> SUFFICES ASSUME Bookkeeping, Passes PROVE Bookkeeping'
  OBVIOUS
<1>1. /\ settings \in [lan : Addresses, remote : BOOLEAN]
      /\ search \in [Owners -> Look_ \cup {None}]
      /\ calling \in [Actions -> AllClients \cup {None}]
      /\ planning \in AllClients \cup {None}
  BY DEF Bookkeeping, Typed
<1>2. CASE DashboardArrives \/ ResourcesArrive
  <2>1. UNCHANGED <<settings, path, calling, planning, search>>
    BY <1>2 DEF DashboardArrives, ResourcesArrive
  <2>2. \E now \in {"resources", "flush"} : pass' = [stage |-> now, on |-> client]
    BY <1>2 DEF DashboardArrives, ResourcesArrive
  <2>3. pass'.stage # "none" /\ pass'.on = client
    BY <2>2
  <2> QED
    BY <1>1, <2>1, <2>3, WaitingKeeps DEF path
<1>3. CASE PassUnanswered
  <2>1. UNCHANGED <<settings, path, calling, planning>>
          /\ search' = [search EXCEPT !["pass"] = Look] /\ pass'.stage = "searching"
    BY <1>3 DEF PassUnanswered, Looks
  <2>2. search' \in [Owners -> Look_ \cup {None}]
    BY <1>1, <2>1, LookTyped DEF Bookkeeping
  <2>3. pass'.stage # "none" /\ pass'.stage \notin OnTheWire
    BY <2>1 DEF OnTheWire
  <2> QED
    BY <1>1, <2>1, <2>2, <2>3, WaitingKeeps DEF path
<1>4. CASE PassFlushed \/ PassRefused \/ PassGarbled \/ PassSearched
  <2> DEFINE others == \E a \in Actions : calling[a] # None
  <2>1. PassEnds /\ UNCHANGED search
    BY <1>4 DEF PassFlushed, PassRefused, PassGarbled, PassSearched
  <2>2. Lands(others) /\ pass'.stage = "none" /\ UNCHANGED <<settings, client, calling>>
    BY <2>1 DEF PassEnds, NoPass
  <2>3. others => InFlight'
    BY <2>2 DEF InFlight
  <2>4. others \in BOOLEAN /\ (~ others => \A a \in Actions : calling'[a] = None)
    BY <2>2
  <2> HIDE DEF others
  <2> QED
    BY <1>1, <2>1, <2>2, <2>3, <2>4, LandingKeeps
<1> QED
  BY <1>2, <1>3, <1>4 DEF Passes

\* Nor does an action of the user.
LEMMA UserActsKeep == Bookkeeping /\ UserActs => Bookkeeping'
<1> SUFFICES ASSUME Bookkeeping, UserActs PROVE Bookkeeping'
  OBVIOUS
<1>1. /\ settings \in [lan : Addresses, remote : BOOLEAN]
      /\ client \in AllClients
      /\ search \in [Owners -> Look_ \cup {None}]
      /\ calling \in [Actions -> AllClients \cup {None}]
      /\ planning \in AllClients \cup {None}
  BY DEF Bookkeeping, Typed
<1>2. PICK a \in Actions : Calls(a) \/ CallAnswered(a) \/ CallRefused(a) \/ CallUnanswered(a)
  BY DEF UserActs
<1>3. CASE Calls(a)
  <2>1. calling' = [calling EXCEPT ![a] = client]
          /\ UNCHANGED <<settings, path, pass, planning, search>>
    BY <1>3 DEF Calls
  <2> QED
    BY <1>1, <2>1, WaitingKeeps DEF path
<1>4. CASE CallAnswered(a) \/ CallRefused(a) \/ CallUnanswered(a)
  <2> DEFINE others == Others(a)
  <2>1. /\ calling' = [calling EXCEPT ![a] = None] /\ Lands(others)
        /\ UNCHANGED <<settings, client, search>>
    BY <1>4 DEF CallAnswered, CallRefused, CallUnanswered, Returns
  <2>2. UNCHANGED pass \/ Refreshes
    BY <1>4 DEF CallAnswered, CallRefused, CallUnanswered
  <2>3. \/ pass' = pass
        \/ pass'.stage = "dashboard" /\ pass'.on = client
    BY <2>2, RefreshFacts
  <2>4. pass.stage # "none" => pass'.stage # "none"
    BY <2>2 DEF Refreshes
  <2>5. others => InFlight'
    BY <1>1, <2>1, <2>4 DEF Others, InFlight
  <2>6. ~ others => pass.stage = "none" /\ \A b \in Actions : calling'[b] = None
    BY <1>1, <2>1 DEF Others
  <2>7. /\ calling' \in [Actions -> AllClients \cup {None}]
        /\ \A b \in Actions : calling'[b] \in {calling[b], None}
    BY <1>1, <2>1
  <2>8. \/ others /\ pass' = pass
        \/ pass'.stage = "none"
        \/ pass'.stage = "dashboard" /\ pass'.on = client
    BY <2>3, <2>6
  <2>9. others \in BOOLEAN
    BY DEF Others
  <2> HIDE DEF others
  <2> QED
    BY <1>1, <2>1, <2>5, <2>6, <2>7, <2>8, <2>9, LandingKeeps
<1> QED
  BY <1>2, <1>3, <1>4

\* The planning screen cuts what it waits on, and nothing is taken for open that is not.
LEMMA PlansKeep == Bookkeeping /\ Plans => Bookkeeping'
<1> SUFFICES ASSUME Bookkeeping, Plans PROVE Bookkeeping'
  OBVIOUS
<1>1. CASE Proposes \/ PlanEnds
  <2>1. UNCHANGED <<settings, path, pass, calling, search>> /\ planning' \in {client, None}
    BY <1>1 DEF Proposes, PlanEnds
  <2>2. /\ settings \in [lan : Addresses, remote : BOOLEAN]
        /\ client \in AllClients
        /\ search \in [Owners -> Look_ \cup {None}]
        /\ calling \in [Actions -> AllClients \cup {None}]
    BY DEF Bookkeeping, Typed
  <2> QED
    BY <2>1, <2>2, WaitingKeeps DEF path
<1>2. CASE PlanCancelled
  <2>1. /\ planning # None /\ planning' = None
        /\ to' = [to EXCEPT ![planning] = "cut"]
        /\ UNCHANGED <<settings, client, retired, pass, calling, search>>
    BY <1>2 DEF PlanCancelled
  <2>2. "cut" \notin Where
    BY NamesAssumption DEF Where
  <2>3. Typed'
    BY <2>1 DEF Bookkeeping, Typed
  <2>4. \A c \in AllClients : to'[c] = to[c] \/ to'[c] = "cut"
    BY <2>1 DEF Bookkeeping, Typed
  <2>5. UsedIsOpen' /\ OpenIsKnown' /\ NoneWaitsIdle'
    BY <2>1, <2>2, <2>4
    DEF Bookkeeping, Typed, UsedIsOpen, OpenIsKnown, NoneWaitsIdle, InFlight
  <2>6. OnlyCancelCuts'
    BY <2>1, <2>4 DEF Bookkeeping, Typed, OnlyCancelCuts
  <2> QED
    BY <2>3, <2>5, <2>6 DEF Bookkeeping
<1> QED
  BY <1>1, <1>2 DEF Plans

\* Nor does any step of a saving, or of a start of the polling.
LEMMA SettlesKeep ==
    ASSUME Bookkeeping, NEW s \in Screens, Settles(s)
    PROVE  Bookkeeping'
<1>1. /\ settings \in [lan : Addresses, remote : BOOLEAN]
      /\ search \in [Owners -> Look_ \cup {None}]
      /\ calling \in [Actions -> AllClients \cup {None}]
      /\ planning \in AllClients \cup {None}
      /\ s \in Owners
  BY DEF Bookkeeping, Typed, Owners
<1>2. UNCHANGED <<path, calling, planning>>
  BY DEF Settles, OpensHome, StartReads, Saves, SaveFails, SaveWritten, SaveEnds,
         SaveRestarts, SaveChecks
<1>3. UNCHANGED pass \/ Refreshes
  BY DEF Settles, OpensHome, StartReads, Saves, SaveFails, SaveWritten, SaveEnds,
         SaveRestarts, SaveChecks
<1>4. settings' \in [lan : Addresses, remote : BOOLEAN]
  BY <1>1, ChoicesAssumption
  DEF Settles, OpensHome, StartReads, Saves, SaveFails, SaveWritten, SaveEnds,
      SaveRestarts, SaveChecks
<1>5. search' = search \/ search' = [search EXCEPT ![s] = Look]
  BY DEF Settles, OpensHome, StartReads, Saves, SaveFails, SaveWritten, SaveEnds,
         SaveRestarts, SaveChecks, Starts, Looks
<1>6. search' \in [Owners -> Look_ \cup {None}]
  BY <1>1, <1>5, LookTyped DEF Bookkeeping
<1>7. \/ pass' = pass
      \/ pass'.stage # "none" /\ (pass'.stage \in OnTheWire => pass'.on = client)
  BY <1>3, RefreshFacts
<1> QED
  BY <1>1, <1>2, <1>4, <1>6, <1>7, WaitingKeeps

-----------------------------------------------------------------------------
\* Nothing the phone does, and no network, upsets the bookkeeping of its clients.
LEMMA StepKeeps == Bookkeeping /\ [Next]_vars => Bookkeeping'
<1> SUFFICES ASSUME Bookkeeping, [Next]_vars PROVE Bookkeeping'
  OBVIOUS
<1>1. /\ settings \in [lan : Addresses, remote : BOOLEAN]
      /\ search \in [Owners -> Look_ \cup {None}]
      /\ calling \in [Actions -> AllClients \cup {None}]
      /\ planning \in AllClients \cup {None}
  BY DEF Bookkeeping, Typed
<1>2. CASE Ticks \/ UserRefreshes
  <2>1. Refreshes /\ UNCHANGED <<settings, path, calling, planning, search>>
    BY <1>2 DEF Ticks, UserRefreshes
  <2>2. \/ pass' = pass
        \/ pass'.stage # "none" /\ (pass'.stage \in OnTheWire => pass'.on = client)
    BY <2>1, RefreshFacts
  <2> QED
    BY <1>1, <2>1, <2>2, WaitingKeeps
<1>3. CASE NetworkChanges \/ UNCHANGED vars
  <2>1. UNCHANGED <<settings, path, pass, calling, planning, search>>
    BY <1>3 DEF NetworkChanges, vars
  <2> QED
    BY <1>1, <2>1, WaitingKeeps
<1> QED
  BY <1>2, <1>3, PassKeeps, UserActsKeep, PlansKeep, SettlesKeep, SearchKeeps DEF Next

\* The books are kept in every run of the phone.
THEOREM Kept == Spec => []Bookkeeping
  BY Opening, StepKeeps, PTL DEF Spec

\* Whatever replaces the client (_retire, app_state.dart:149), what is counted is not cut by
\* it.
THEOREM NoRequestCut == Spec => []OnlyCancelCuts
<1>1. Bookkeeping => OnlyCancelCuts
  BY DEF Bookkeeping
<1> QED
  BY Kept, <1>1, PTL

\* No replaced client is left open when nothing is on the wire (_closeRetired,
\* app_state.dart:158).
THEOREM NoClientLeft == Spec => []NothingLeaks
<1>1. Bookkeeping => NothingLeaks
  BY DEF Bookkeeping, OpenIsKnown, NoneWaitsIdle, NothingLeaks
<1> QED
  BY Kept, <1>1, PTL
=============================================================================
