-------------------------- MODULE RelayHubProofs --------------------------
(***************************************************************************)
(* For any number of requests and of polls side by side: the relay and the *)
(* connector keep the promise of RequestDelivery, and no request slips     *)
(* between the queue, the polls and the loop.                              *)
(***************************************************************************)
EXTENDS RelayHub, TLAPS

Answerless == {"waiting", "expired", "gaveUp", "broken"}

\* The request the loop has a result of, if any.
Served(r) == result # "none" /\ batch # <<>> /\ r = Head(batch)

\* No request is in two places or twice in one, so that none is drained or served
\* again.
Apart ==
    /\ IsInjective(pending) /\ IsInjective(batch)
    /\ \A p \in Polls : IsInjective(carried[p])
    /\ \A r \in Requests :
           /\ r \in ToSet(pending) => r \notin ToSet(batch) \cup lingering
           /\ \A p \in Polls : r \in ToSet(carried[p]) =>
                  /\ r \notin ToSet(pending) \cup ToSet(batch) \cup lingering
                  /\ \A q \in Polls \ {p} : r \notin ToSet(carried[q])
           /\ r \in ToSet(batch) \cap lingering => Served(r)

\* What waits to be served has no answer and was not executed.
Unserved(r) ==
    /\ phone[r] \in Answerless
    /\ waiter[r] \in {"absent", "open"}
    /\ \A a \in Answers : <<r, a>> \notin late

Waiting(r) ==
    \/ r \in ToSet(pending)
    \/ \E p \in Polls : r \in ToSet(carried[p])
    \/ r \in ToSet(batch) /\ ~ Served(r)

WaitingIsUnserved ==
    \A r \in Requests :
        /\ Waiting(r) => executed[r] = 0
        /\ Waiting(r) \/ r \in ToSet(batch) => Unserved(r)

\* What was never queued left no trace.
NotQueuedIsNew ==
    \A r \in Requests :
        phone[r] \in {"idle", "asking", "turnedAway"} =>
            /\ ~ Underway(r)
            /\ executed[r] = 0
            /\ \A a \in Answers : <<r, a>> \notin late

AnswerIsKnown(r) ==
    \/ phone[r] = "answered"
    \/ waiter[r] = "executed"
    \/ <<r, "executed">> \in late
    \/ Served(r) /\ result = "executed"

ExecutionsCount ==
    \A r \in Requests :
        /\ executed[r] \in {0, 1}
        /\ r \in lingering => executed[r] = 0
        /\ AnswerIsKnown(r) => executed[r] = 1

\* What the loop has served is executed, lost or lingering.
ServedIsAccounted ==
    \A r \in Requests : Served(r) => executed[r] > 0 \/ r \in lost \/ r \in lingering

\* Only a poll that returns carries requests, and only a batch has a result.
NothingLeftBehind ==
    /\ \A p \in Polls : poll[p] # "returning" => carried[p] = <<>>
    /\ batch = <<>> => result = "none"

RelayInv ==
    /\ TypeOK
    /\ RecordsArePhones
    /\ Apart
    /\ WaitingIsUnserved
    /\ NotQueuedIsNew
    /\ ExecutionsCount
    /\ ServedIsAccounted
    /\ NothingLeftBehind
    /\ NoneSlipsThrough

-----------------------------------------------------------------------------
LEMMA ToSetOf ==
    ASSUME NEW S, NEW s \in Seq(S)
    PROVE  /\ ToSet(s) \subseteq S
           /\ ToSet(<<>>) = {} /\ IsInjective(<<>>)
           /\ s # <<>> => /\ Head(s) \in S
                          /\ Tail(s) \in Seq(S)
                          /\ ToSet(s) = {Head(s)} \cup ToSet(Tail(s))
<1>1. ToSet(s) \subseteq S
  BY DEF ToSet
<1>2. ToSet(<<>>) = {} /\ IsInjective(<<>>)
  BY DEF ToSet, IsInjective
<1>3. ASSUME s # <<>>
      PROVE  /\ Head(s) \in S
             /\ Tail(s) \in Seq(S)
             /\ ToSet(s) = {Head(s)} \cup ToSet(Tail(s))
  <2>1. Head(s) \in S /\ Tail(s) \in Seq(S) /\ 1 \in DOMAIN s /\ Head(s) = s[1]
    BY <1>3
  <2>2. \A i \in DOMAIN Tail(s) : i + 1 \in DOMAIN s /\ Tail(s)[i] = s[i + 1]
    BY <1>3
  <2>3. \A i \in DOMAIN s : i # 1 => i - 1 \in DOMAIN Tail(s) /\ Tail(s)[i - 1] = s[i]
    BY <1>3
  <2>4. {Head(s)} \cup ToSet(Tail(s)) \subseteq ToSet(s)
    BY <2>1, <2>2 DEF ToSet
  <2>5. ASSUME NEW i \in DOMAIN s
        PROVE  s[i] \in {Head(s)} \cup ToSet(Tail(s))
    BY <2>1, <2>3 DEF ToSet
  <2>6. ToSet(s) \subseteq {Head(s)} \cup ToSet(Tail(s))
    BY <2>5 DEF ToSet
  <2> QED
    BY <2>1, <2>4, <2>6
<1> QED
  BY <1>1, <1>2, <1>3

LEMMA TailOfInjective ==
    ASSUME NEW S, NEW s \in Seq(S), s # <<>>, IsInjective(s)
    PROVE  IsInjective(Tail(s)) /\ Head(s) \notin ToSet(Tail(s))
<1>1. Head(s) = s[1] /\ 1 \in DOMAIN s
  OBVIOUS
<1>2. \A i \in DOMAIN Tail(s) : i + 1 \in DOMAIN s /\ i + 1 # 1 /\ Tail(s)[i] = s[i + 1]
  OBVIOUS
<1>3. Head(s) \notin ToSet(Tail(s))
  BY <1>1, <1>2 DEF IsInjective, ToSet
<1>4. ASSUME NEW i \in DOMAIN Tail(s), NEW j \in DOMAIN Tail(s), Tail(s)[i] = Tail(s)[j]
      PROVE  i = j
  <2>1. i + 1 = j + 1
    BY <1>2, <1>4 DEF IsInjective
  <2>2. i \in Nat /\ j \in Nat
    OBVIOUS
  <2> QED
    BY <2>1, <2>2
<1> QED
  BY <1>3, <1>4 DEF IsInjective

LEMMA AppendToInjective ==
    ASSUME NEW S, NEW s \in Seq(S), NEW x \in S
    PROVE  /\ Append(s, x) \in Seq(S)
           /\ ToSet(Append(s, x)) = ToSet(s) \cup {x}
           /\ IsInjective(s) /\ x \notin ToSet(s) => IsInjective(Append(s, x))
<1>1. DOMAIN Append(s, x) = DOMAIN s \cup {Len(s) + 1}
  OBVIOUS
<1>2. /\ \A i \in DOMAIN s : Append(s, x)[i] = s[i]
      /\ Append(s, x)[Len(s) + 1] = x
  OBVIOUS
<1>3. ToSet(Append(s, x)) = ToSet(s) \cup {x}
  BY <1>1, <1>2 DEF ToSet
<1>4. ASSUME IsInjective(s), x \notin ToSet(s)
      PROVE  IsInjective(Append(s, x))
  <2>1. \A i \in DOMAIN s : s[i] # x
    BY <1>4 DEF ToSet
  <2> QED
    BY <1>1, <1>2, <1>4, <2>1 DEF IsInjective
<1> QED
  BY <1>3, <1>4

-----------------------------------------------------------------------------
LEMMA InitRelayInv == Init => RelayInv
<1> SUFFICES ASSUME Init
             PROVE  RelayInv
  OBVIOUS
<1>1. ToSet(<<>>) = {} /\ IsInjective(<<>>)
  BY DEF ToSet, IsInjective
<1>2. TypeOK
  <2>1. <<>> \in Seq(Requests)
    OBVIOUS
  <2>2. executed \in [Requests -> Nat] /\ carried \in [Polls -> Seq(Requests)]
    BY <2>1 DEF Init
  <2> QED
    BY <2>1, <2>2 DEF Init, TypeOK
<1>3. Apart
  BY <1>1 DEF Init, Apart
<1>4. \A r \in Requests : ~ Underway(r) /\ ~ Served(r) /\ ~ Waiting(r) /\ r \notin ToSet(batch)
  BY <1>1 DEF Init, Underway, Served, Waiting
<1>5. RecordsArePhones /\ NothingLeftBehind /\ NoneSlipsThrough
  BY DEF Init, RecordsArePhones, NothingLeftBehind, NoneSlipsThrough, Accepted
<1>6. WaitingIsUnserved /\ NotQueuedIsNew /\ ServedIsAccounted
  BY <1>4 DEF Init, WaitingIsUnserved, NotQueuedIsNew, ServedIsAccounted
<1>7. ExecutionsCount
  BY <1>4 DEF Init, ExecutionsCount, AnswerIsKnown
<1> QED
  BY <1>2, <1>3, <1>5, <1>6, <1>7 DEF RelayInv

\* The steps that move no request: those of a phone's thread after its submission,
\* the beginning and the failure of a poll, the ageing of the heartbeat.
Places == <<pending, carried, batch, result, lingering>>

LEMMA PlacesStay ==
    ASSUME UNCHANGED Places
    PROVE  /\ Apart' <=> Apart
           /\ \A r \in Requests : /\ Served(r)' <=> Served(r)
                                  /\ Waiting(r)' <=> Waiting(r)
                                  /\ Underway(r)' <=> Underway(r)
BY DEF Places, Apart, Served, Waiting, Underway

LEMMA LoopAsideStep ==
    ASSUME RelayInv, (\E p \in Polls : PollsAgain(p)) \/ PollFails \/ HeartbeatAges
    PROVE  RelayInv'
<1> USE DEF PollsAgain, MayPoll, PollFails, HeartbeatAges, relayVars, desktopVars, history
<1>1. UNCHANGED Places /\ UNCHANGED <<phone, waiter, late, executed, lost>>
  BY DEF Places
<1>2. TypeOK'
  BY PollsAssumption DEF RelayInv, TypeOK
<1>3. NothingLeftBehind'
  BY DEF RelayInv, TypeOK, NothingLeftBehind
<1>4. RecordsArePhones' /\ NoneSlipsThrough'
  BY <1>1, PlacesStay DEF RelayInv, RecordsArePhones, NoneSlipsThrough, Accepted
<1>5. WaitingIsUnserved' /\ NotQueuedIsNew'
  BY <1>1, PlacesStay DEF RelayInv, WaitingIsUnserved, Unserved, NotQueuedIsNew, Places
<1>6. ExecutionsCount' /\ ServedIsAccounted'
  BY <1>1, PlacesStay DEF RelayInv, ExecutionsCount, AnswerIsKnown, ServedIsAccounted, Places
<1> QED
  BY <1>1, <1>2, <1>3, <1>4, <1>5, <1>6, PlacesStay DEF RelayInv

LEMMA PhoneEndsStep ==
    ASSUME RelayInv, NEW r \in Requests,
           Asks(r) \/ TakesAnswer(r) \/ TimesOut(r) \/ GivesUp(r)
    PROVE  RelayInv'
<1> USE DEF Asks, TakesAnswer, TimesOut, GivesUp, EndsWith, relayVars, desktopVars, history
<1>1. UNCHANGED Places /\ UNCHANGED <<poll, late, executed, lost>>
  BY DEF Places
<1>2. TypeOK'
  BY DEF RelayInv, TypeOK, Open, Ended, Answers
<1>3. NothingLeftBehind'
  BY <1>1 DEF RelayInv, NothingLeftBehind, Places
<1>4. RecordsArePhones'
  BY DEF RelayInv, TypeOK, RecordsArePhones, Answers
<1>5. NotQueuedIsNew'
  BY <1>1, PlacesStay DEF RelayInv, TypeOK, NotQueuedIsNew
<1>6. NoneSlipsThrough'
  BY <1>1, PlacesStay DEF RelayInv, TypeOK, NoneSlipsThrough, Accepted
<1>7. ServedIsAccounted'
  BY <1>1, PlacesStay DEF RelayInv, ServedIsAccounted, Places
<1>8. ExecutionsCount'
  BY <1>1, PlacesStay DEF RelayInv, TypeOK, ExecutionsCount, AnswerIsKnown, Places
<1>9. WaitingIsUnserved'
  <2>1. phone[r] = "idle" => ~ Waiting(r) /\ r \notin ToSet(batch)
    BY DEF RelayInv, NotQueuedIsNew, Underway, Waiting
  <2>2. waiter[r] \in Answers => ~ Waiting(r) /\ r \notin ToSet(batch)
    BY DEF RelayInv, WaitingIsUnserved, Unserved, Answers
  <2> QED
    BY <1>1, <2>1, <2>2, PlacesStay
    DEF RelayInv, TypeOK, WaitingIsUnserved, Unserved, Answerless, Places
<1> QED
  BY <1>1, <1>2, <1>3, <1>4, <1>5, <1>6, <1>7, <1>8, <1>9, PlacesStay DEF RelayInv

LEMMA SubmitsStep ==
    ASSUME RelayInv, NEW r \in Requests, Submits(r)
    PROVE  RelayInv'
<1> USE DEF Submits, desktopVars, history
<1>1. /\ ~ Underway(r) /\ executed[r] = 0 /\ r \in Requests
      /\ \A a \in Answers : <<r, a>> \notin late
  BY DEF RelayInv, NotQueuedIsNew
<1>2. /\ pending' \in Seq(Requests)
      /\ ToSet(pending') = ToSet(pending) \cup {r}
      /\ IsInjective(pending')
  BY <1>1, AppendToInjective DEF RelayInv, TypeOK, Apart, Underway
<1>3. TypeOK'
  BY <1>2 DEF RelayInv, TypeOK, Open
<1>4. RecordsArePhones'
  BY DEF RelayInv, TypeOK, RecordsArePhones
<1>5. Apart'
  BY <1>1, <1>2 DEF RelayInv, Apart, Underway, Served
<1>6. \A x \in Requests : /\ Served(x)' <=> Served(x)
                          /\ Waiting(x)' <=> (Waiting(x) \/ x = r)
                          /\ Underway(x)' <=> (Underway(x) \/ x = r)
  BY <1>2 DEF Served, Waiting, Underway
<1>7. WaitingIsUnserved'
  BY <1>1, <1>6 DEF RelayInv, TypeOK, WaitingIsUnserved, Unserved, Answerless
<1>8. NotQueuedIsNew' /\ NoneSlipsThrough'
  BY <1>6 DEF RelayInv, TypeOK, NotQueuedIsNew, NoneSlipsThrough, Accepted
<1>9. ExecutionsCount' /\ ServedIsAccounted' /\ NothingLeftBehind'
  BY <1>6 DEF RelayInv, TypeOK, ExecutionsCount, AnswerIsKnown, ServedIsAccounted,
              NothingLeftBehind
<1> QED
  BY <1>3, <1>4, <1>5, <1>7, <1>8, <1>9 DEF RelayInv

\* A poll that waited takes over the whole queue.
LEMMA PollReturnsStep ==
    ASSUME RelayInv, NEW p \in Polls, PollReturns(p)
    PROVE  RelayInv'
<1> USE DEF PollReturns, Drained, LeftAfterDrain, desktopVars, history
<1>1. /\ carried[p] = <<>> /\ pending \in Seq(Requests)
      /\ carried' \in [Polls -> Seq(Requests)]
      /\ carried'[p] = pending /\ \A q \in Polls \ {p} : carried'[q] = carried[q]
      /\ pending' = <<>>
  BY DEF RelayInv, TypeOK, NothingLeftBehind
<1>2. ToSet(<<>>) = {} /\ IsInjective(<<>>)
  BY DEF ToSet, IsInjective
<1>3. TypeOK'
  BY <1>1 DEF RelayInv, TypeOK
<1>4. \A r \in Requests : /\ Served(r)' <=> Served(r)
                          /\ Waiting(r)' <=> Waiting(r)
                          /\ Underway(r)' <=> Underway(r)
  BY <1>1, <1>2 DEF Served, Waiting, Underway
<1>5. Apart'
  BY <1>1, <1>2 DEF RelayInv, Apart, Served
<1>6. NothingLeftBehind'
  BY <1>1 DEF RelayInv, TypeOK, NothingLeftBehind
<1>7. RecordsArePhones' /\ NoneSlipsThrough' /\ NotQueuedIsNew'
  BY <1>4 DEF RelayInv, RecordsArePhones, NoneSlipsThrough, Accepted, NotQueuedIsNew
<1>8. WaitingIsUnserved' /\ ExecutionsCount' /\ ServedIsAccounted'
  BY <1>4 DEF RelayInv, WaitingIsUnserved, Unserved, ExecutionsCount, AnswerIsKnown,
              ServedIsAccounted
<1> QED
  BY <1>3, <1>5, <1>6, <1>7, <1>8 DEF RelayInv

\* The loop that listens has nothing else to do.
LEMMA PollArrivesStep ==
    ASSUME RelayInv, NEW p \in Polls, PollArrives(p)
    PROVE  RelayInv'
<1> USE DEF PollArrives, LoopAfter, history
<1>1. /\ batch = <<>> /\ result = "none"
      /\ carried \in [Polls -> Seq(Requests)]
      /\ carried' \in [Polls -> Seq(Requests)]
      /\ carried'[p] = <<>> /\ \A q \in Polls \ {p} : carried'[q] = carried[q]
      /\ batch' = carried[p] /\ batch' \in Seq(Requests)
  <2>1. connector = "polling"
    BY PollsAssumption DEF RelayInv, TypeOK
  <2>2. batch = <<>>
    BY <2>1 DEF RelayInv, TypeOK
  <2>3. carried \in [Polls -> Seq(Requests)] /\ <<>> \in Seq(Requests)
    BY DEF RelayInv, TypeOK
  <2> QED
    BY <2>2, <2>3 DEF RelayInv, NothingLeftBehind
<1>2. ToSet(<<>>) = {} /\ IsInjective(<<>>)
  BY DEF ToSet, IsInjective
<1>3. TypeOK'
  BY <1>1 DEF RelayInv, TypeOK
<1>4. \A r \in Requests : /\ ~ Served(r) /\ ~ Served(r)'
                          /\ Waiting(r)' <=> Waiting(r)
                          /\ Underway(r)' <=> Underway(r)
                          /\ r \in ToSet(batch') => Waiting(r)
  BY <1>1, <1>2 DEF Served, Waiting, Underway
<1>5. Apart'
  BY <1>1, <1>2, <1>4 DEF RelayInv, Apart
<1>6. NothingLeftBehind'
  BY <1>1 DEF RelayInv, TypeOK, NothingLeftBehind
<1>7. RecordsArePhones'
  BY DEF RelayInv, RecordsArePhones
<1>8. NoneSlipsThrough'
  BY <1>4 DEF RelayInv, NoneSlipsThrough, Accepted
<1>9. NotQueuedIsNew'
  BY <1>4 DEF RelayInv, NotQueuedIsNew
<1>10. WaitingIsUnserved'
  BY <1>4 DEF RelayInv, WaitingIsUnserved, Unserved
<1>11. ExecutionsCount'
  BY <1>4 DEF RelayInv, ExecutionsCount, AnswerIsKnown
<1>12. ServedIsAccounted'
  BY <1>4 DEF RelayInv, ServedIsAccounted
<1> QED
  BY <1>3, <1>5, <1>6, <1>7, <1>8, <1>9, <1>10, <1>11, <1>12 DEF RelayInv

LEMMA OrphanEndsStep ==
    ASSUME RelayInv, NEW p \in Polls, OrphanEnds(p)
    PROVE  RelayInv'
<1> USE DEF OrphanEnds, desktopVars
<1>1. /\ carried \in [Polls -> Seq(Requests)]
      /\ carried' \in [Polls -> Seq(Requests)]
      /\ carried'[p] = <<>> /\ \A q \in Polls \ {p} : carried'[q] = carried[q]
      /\ ToSet(carried[p]) \subseteq Requests
  <2>1. carried \in [Polls -> Seq(Requests)] /\ <<>> \in Seq(Requests)
    BY DEF RelayInv, TypeOK
  <2>2. ToSet(carried[p]) \subseteq Requests
    BY <2>1, ToSetOf
  <2> QED
    BY <2>1, <2>2
<1>2. ToSet(<<>>) = {} /\ IsInjective(<<>>)
  BY DEF ToSet, IsInjective
<1>3. TypeOK'
  BY <1>1 DEF RelayInv, TypeOK
<1>4. \A r \in Requests : /\ Served(r)' <=> Served(r)
                          /\ Waiting(r)' => Waiting(r)
                          /\ Underway(r)' => Underway(r)
                          /\ Underway(r) => Underway(r)' \/ r \in lost'
  BY <1>1, <1>2 DEF Served, Waiting, Underway
<1>5. Apart'
  BY <1>1, <1>2, <1>4 DEF RelayInv, Apart
<1>6. NothingLeftBehind'
  BY <1>1 DEF RelayInv, TypeOK, NothingLeftBehind
<1>7. RecordsArePhones'
  BY DEF RelayInv, RecordsArePhones
<1>8. NoneSlipsThrough'
  BY <1>4 DEF RelayInv, NoneSlipsThrough, Accepted
<1>9. NotQueuedIsNew'
  BY <1>4 DEF RelayInv, NotQueuedIsNew
<1>10. WaitingIsUnserved'
  BY <1>4 DEF RelayInv, WaitingIsUnserved, Unserved
<1>11. ExecutionsCount'
  BY <1>4 DEF RelayInv, ExecutionsCount, AnswerIsKnown
<1>12. ServedIsAccounted'
  BY <1>4 DEF RelayInv, ServedIsAccounted
<1> QED
  BY <1>3, <1>5, <1>6, <1>7, <1>8, <1>9, <1>10, <1>11, <1>12 DEF RelayInv

\* The first request of the batch is the only one the loop serves.
LEMMA ServesStep ==
    ASSUME RelayInv, Executes \/ LocalFails
    PROVE  RelayInv'
<1> DEFINE h == Head(batch)
<1> USE DEF Executes, LocalFails, relayVars, history
<1>1. batch \in Seq(Requests) /\ batch # <<>> /\ result = "none" /\ result' # "none"
  BY DEF RelayInv, TypeOK, Answers
<1>2. /\ h \in Requests /\ h \in ToSet(batch)
      /\ batch' = batch
  BY <1>1, ToSetOf
<1>3. \A r \in Requests : ~ Served(r) /\ (Served(r)' <=> r = h)
  BY <1>1, <1>2 DEF Served
<1>4. h \notin lingering /\ h \notin ToSet(pending) /\ Waiting(h) /\ executed[h] = 0 /\ Unserved(h)
      /\ \A p \in Polls : h \notin ToSet(carried[p])
  BY <1>2, <1>3 DEF RelayInv, Apart, WaitingIsUnserved, Waiting
<1>5. \A r \in Requests : /\ Waiting(r)' <=> Waiting(r) /\ r # h
                          /\ Underway(r)' <=> Underway(r)
  BY <1>2, <1>3, <1>4 DEF Waiting, Underway
<1>6. /\ executed \in [Requests -> Nat] /\ executed' \in [Requests -> Nat]
      /\ \A r \in Requests \ {h} : executed'[r] = executed[r]
      /\ executed'[h] \in {0, 1}
      /\ lost \subseteq lost' /\ lost' \subseteq Requests
      /\ lingering \subseteq lingering' /\ lingering' \subseteq lingering \cup {h}
      /\ executed'[h] = 1 \/ h \in lost' \/ h \in lingering'
      /\ h \in lingering' => executed'[h] = 0
      /\ result' = "executed" => executed'[h] = 1
  <2>1. /\ executed \in [Requests -> Nat] /\ executed[h] = 0
        /\ lost \subseteq Requests /\ h \in Requests
    BY <1>2, <1>4 DEF RelayInv, TypeOK
  <2>2. CASE executed' = [executed EXCEPT ![h] = @ + 1]
    <3>1. executed'[h] = 1 /\ executed' \in [Requests -> Nat]
      BY <2>1, <2>2
    <3>2. UNCHANGED <<lost, lingering>>
      BY <2>1, <2>2, <3>1
    <3> QED
      BY <1>4, <2>1, <2>2, <3>1, <3>2
  <2>3. CASE executed' = executed
    <3>1. result' = "localError"
      BY <2>1, <2>3
    <3>2. \/ lost' = lost \cup {h} /\ lingering' = lingering
          \/ lost' = lost /\ lingering' = lingering \cup {h}
      BY <2>1, <2>3
    <3> QED
      BY <1>4, <2>1, <2>3, <3>1, <3>2
  <2> QED
    BY <2>2, <2>3
<1>7. TypeOK'
  BY <1>2, <1>6 DEF RelayInv, TypeOK, Answers
<1>8. Apart'
  BY <1>2, <1>3, <1>4, <1>6 DEF RelayInv, Apart
<1>9. RecordsArePhones' /\ NothingLeftBehind'
  BY <1>1 DEF RelayInv, RecordsArePhones, NothingLeftBehind
<1>10. WaitingIsUnserved'
  BY <1>5, <1>6, <1>2 DEF RelayInv, WaitingIsUnserved, Unserved
<1>11. NotQueuedIsNew'
  BY <1>4, <1>5, <1>6 DEF RelayInv, NotQueuedIsNew, Unserved, Answerless
<1>12. ExecutionsCount'
  <2>1. \A r \in Requests : AnswerIsKnown(r)' => AnswerIsKnown(r) \/ (r = h /\ result' = "executed")
    BY <1>3 DEF AnswerIsKnown
  <2>2. ~ AnswerIsKnown(h)
    BY <1>3, <1>4 DEF Unserved, Answerless, Answers, AnswerIsKnown
  <2> QED
    BY <1>6, <2>1, <2>2 DEF RelayInv, ExecutionsCount
<1>13. ServedIsAccounted'
  BY <1>3, <1>6 DEF ServedIsAccounted
<1>14. NoneSlipsThrough'
  BY <1>2, <1>5, <1>6 DEF RelayInv, NoneSlipsThrough, Accepted, Underway
<1> QED
  BY <1>7, <1>8, <1>9, <1>10, <1>11, <1>12, <1>13, <1>14 DEF RelayInv

LEMMA ExecutesLateStep ==
    ASSUME RelayInv, NEW r \in Requests, ExecutesLate(r)
    PROVE  RelayInv'
<1> USE DEF ExecutesLate, relayVars
<1>1. r \in lingering /\ executed[r] = 0 /\ ~ Waiting(r) /\ phone[r] \notin {"idle", "asking", "turnedAway"}
  BY DEF RelayInv, ExecutionsCount, Apart, Waiting, NotQueuedIsNew, Underway
<1>2. /\ executed \in [Requests -> Nat] /\ executed' \in [Requests -> Nat]
      /\ executed'[r] = 1
      /\ \A x \in Requests \ {r} : executed'[x] = executed[x]
      /\ lingering' = lingering \ {r}
  BY <1>1 DEF RelayInv, TypeOK
<1>3. \A x \in Requests : /\ Served(x)' <=> Served(x)
                          /\ Waiting(x)' <=> Waiting(x)
                          /\ Underway(x)' => Underway(x)
                          /\ Underway(x) => Underway(x)' \/ x = r
  BY <1>2 DEF Served, Waiting, Underway
<1>4. TypeOK'
  BY <1>2 DEF RelayInv, TypeOK
<1>5. Apart'
  BY <1>2, <1>3 DEF RelayInv, Apart
<1>6. RecordsArePhones' /\ NothingLeftBehind'
  BY DEF RelayInv, RecordsArePhones, NothingLeftBehind
<1>7. WaitingIsUnserved'
  BY <1>1, <1>2, <1>3 DEF RelayInv, WaitingIsUnserved, Unserved
<1>8. NotQueuedIsNew'
  BY <1>1, <1>2, <1>3 DEF RelayInv, NotQueuedIsNew
<1>9. ExecutionsCount'
  BY <1>1, <1>2, <1>3 DEF RelayInv, ExecutionsCount, AnswerIsKnown
<1>10. ServedIsAccounted'
  BY <1>1, <1>2, <1>3 DEF RelayInv, ServedIsAccounted
<1>11. NoneSlipsThrough'
  BY <1>1, <1>2, <1>3 DEF RelayInv, NoneSlipsThrough, Accepted
<1> QED
  BY <1>4, <1>5, <1>6, <1>7, <1>8, <1>9, <1>10, <1>11 DEF RelayInv

LEMMA RespondsStep ==
    ASSUME RelayInv, Responds
    PROVE  RelayInv'
<1> DEFINE h == Head(batch)
<1> USE DEF Responds, Records, LoopAfter, relayVars, history
<1>1. batch \in Seq(Requests) /\ batch # <<>> /\ result \in Answers
  BY DEF RelayInv, TypeOK
<1>2. /\ h \in Requests /\ batch' = Tail(batch) /\ batch' \in Seq(Requests)
      /\ ToSet(batch) = {h} \cup ToSet(batch')
  BY <1>1, ToSetOf
<1>3. IsInjective(batch') /\ h \notin ToSet(batch')
  BY <1>1, <1>2, TailOfInjective DEF RelayInv, Apart
<1>4. /\ \A x \in Requests \ {h} : waiter'[x] = waiter[x]
      /\ waiter'[h] \in {waiter[h], result}
      /\ waiter'[h] = "absent" <=> waiter[h] = "absent"
      /\ waiter' \in [Requests -> {"absent", "open"} \cup Answers]
      /\ late \subseteq late' /\ late' \subseteq late \cup {<<h, result>>}
  BY <1>1, <1>2 DEF RelayInv, TypeOK, Answers
<1>5. Served(h) /\ \A x \in Requests : ~ Served(x)' /\ (Served(x) => x = h)
  BY <1>1 DEF Served, Answers
<1>6. /\ h \in ToSet(batch) /\ h \notin ToSet(pending)
      /\ \A p \in Polls : h \notin ToSet(carried[p])
  BY <1>2 DEF RelayInv, Apart
<1>7. \A x \in Requests : /\ Waiting(x)' <=> Waiting(x)
                          /\ Waiting(x)' => x # h
                          /\ Underway(x)' => Underway(x)
                          /\ Underway(x) => Underway(x)' \/ x = h
                          /\ x \in ToSet(batch') => Waiting(x)
  BY <1>2, <1>3, <1>5, <1>6 DEF Waiting, Underway
<1>8. TypeOK'
  BY <1>1, <1>2, <1>4 DEF RelayInv, TypeOK
<1>9. Apart'
  BY <1>2, <1>3, <1>5 DEF RelayInv, Apart
<1>10. RecordsArePhones' /\ NothingLeftBehind'
  BY <1>4 DEF RelayInv, TypeOK, RecordsArePhones, NothingLeftBehind
<1>11. WaitingIsUnserved'
  BY <1>4, <1>7 DEF RelayInv, WaitingIsUnserved, Unserved
<1>12. NotQueuedIsNew'
  <2>1. phone[h] \notin {"idle", "asking", "turnedAway"}
    BY <1>2, <1>6 DEF RelayInv, WaitingIsUnserved, Unserved, Answerless
  <2> QED
    BY <1>4, <1>7, <2>1 DEF RelayInv, NotQueuedIsNew
<1>13. ExecutionsCount'
  <2>1. \A x \in Requests : AnswerIsKnown(x)' => AnswerIsKnown(x)
    BY <1>2, <1>4, <1>5 DEF AnswerIsKnown
  <2> QED
    BY <2>1 DEF RelayInv, ExecutionsCount
<1>14. ServedIsAccounted'
  BY <1>5 DEF ServedIsAccounted
<1>15. NoneSlipsThrough'
  <2>1. executed[h] > 0 \/ h \in lost \/ h \in lingering
    BY <1>2, <1>5 DEF RelayInv, ServedIsAccounted
  <2> QED
    BY <1>7, <2>1 DEF RelayInv, NoneSlipsThrough, Accepted, Underway
<1> QED
  BY <1>8, <1>9, <1>10, <1>11, <1>12, <1>13, <1>14, <1>15 DEF RelayInv

LEMMA ArrivesLateStep ==
    ASSUME RelayInv, NEW r \in Requests, NEW a \in Answers, ArrivesLate(r, a)
    PROVE  RelayInv'
<1> USE DEF ArrivesLate, Records, desktopVars
<1>1. UNCHANGED Places /\ UNCHANGED <<phone, poll, executed, lost>>
  BY DEF Places
<1>2. <<r, a>> \in late /\ ~ Waiting(r) /\ r \notin ToSet(batch)
  BY DEF RelayInv, WaitingIsUnserved, Unserved
<1>3. /\ \A x \in Requests \ {r} : waiter'[x] = waiter[x]
      /\ waiter'[r] \in {waiter[r], a}
      /\ waiter'[r] = "absent" <=> waiter[r] = "absent"
      /\ waiter' \in [Requests -> {"absent", "open"} \cup Answers]
      /\ late' \subseteq late
  BY DEF RelayInv, TypeOK, Answers
<1>4. TypeOK'
  BY <1>3 DEF RelayInv, TypeOK
<1>5. RecordsArePhones' /\ NothingLeftBehind'
  BY <1>3 DEF RelayInv, RecordsArePhones, NothingLeftBehind
<1>6. WaitingIsUnserved'
  BY <1>1, <1>2, <1>3, PlacesStay DEF RelayInv, WaitingIsUnserved, Unserved, Places
<1>7. NotQueuedIsNew' /\ NoneSlipsThrough'
  BY <1>1, <1>3, PlacesStay DEF RelayInv, NotQueuedIsNew, NoneSlipsThrough, Accepted
<1>8. ExecutionsCount'
  <2>1. \A x \in Requests : AnswerIsKnown(x)' => AnswerIsKnown(x)
    BY <1>1, <1>2, <1>3, PlacesStay DEF AnswerIsKnown, Places
  <2> QED
    BY <1>1, <2>1 DEF RelayInv, ExecutionsCount, Places
<1>9. ServedIsAccounted'
  BY <1>1, PlacesStay DEF RelayInv, ServedIsAccounted, Places
<1> QED
  BY <1>1, <1>4, <1>5, <1>6, <1>7, <1>8, <1>9, PlacesStay DEF RelayInv

LEMMA DesktopRestartsStep ==
    ASSUME RelayInv, DesktopRestarts
    PROVE  RelayInv'
<1> USE DEF DesktopRestarts, relayVars
<1>1. ToSet(<<>>) = {} /\ IsInjective(<<>>) /\ <<>> \in Seq(Requests)
  BY DEF ToSet, IsInjective
<1>2. ToSet(batch) \subseteq Requests
  BY ToSetOf DEF RelayInv, TypeOK
<1>3. TypeOK'
  BY <1>1, <1>2, PollsAssumption DEF RelayInv, TypeOK
<1>4. \A x \in Requests : /\ ~ Served(x)'
                          /\ Waiting(x)' => Waiting(x)
                          /\ Underway(x)' => Underway(x)
                          /\ Underway(x) => \/ Underway(x)'
                                            \/ x \in ToSet(batch) \cup lingering
  BY <1>1 DEF Served, Waiting, Underway
<1>5. Apart'
  BY <1>1, <1>4 DEF RelayInv, Apart
<1>6. RecordsArePhones' /\ NothingLeftBehind'
  BY DEF RelayInv, RecordsArePhones, NothingLeftBehind
<1>7. WaitingIsUnserved'
  BY <1>1, <1>4 DEF RelayInv, WaitingIsUnserved, Unserved
<1>8. NotQueuedIsNew'
  BY <1>4 DEF RelayInv, NotQueuedIsNew
<1>9. ExecutionsCount' /\ ServedIsAccounted'
  BY <1>4 DEF RelayInv, ExecutionsCount, AnswerIsKnown, ServedIsAccounted
<1>10. NoneSlipsThrough'
  BY <1>2, <1>4 DEF RelayInv, TypeOK, NoneSlipsThrough, Accepted, ExecutionsCount
<1> QED
  BY <1>3, <1>5, <1>6, <1>7, <1>8, <1>9, <1>10 DEF RelayInv

LEMMA RelayRestartsStep ==
    ASSUME RelayInv, RelayRestarts
    PROVE  RelayInv'
<1> USE DEF RelayRestarts
<1>1. ToSet(<<>>) = {} /\ IsInjective(<<>>) /\ <<>> \in Seq(Requests)
  BY DEF ToSet, IsInjective
<1>2. \A p \in Polls : ToSet(carried[p]) \subseteq Requests
  BY ToSetOf DEF RelayInv, TypeOK
<1>3. ToSet(pending) \subseteq Requests
  BY ToSetOf DEF RelayInv, TypeOK
<1>4. TypeOK'
  <2>1. lost' \subseteq Requests
    BY <1>2, <1>3 DEF RelayInv, TypeOK
  <2>2. phone' \in [Requests -> {"idle"} \cup Open \cup Ended]
    BY DEF RelayInv, TypeOK, Ended
  <2>3. /\ carried' \in [Polls -> Seq(Requests)]
        /\ poll' \in [Polls -> {"free", "waiting", "returning"}]
        /\ waiter' \in [Requests -> {"absent", "open"} \cup Answers]
    BY <1>1
  <2>4. /\ connector' \in {"down", "ready", "polling", "serving"}
        /\ connector' # "polling" /\ current' = None
        /\ connector' = "serving" <=> batch' # <<>>
    BY DEF RelayInv, TypeOK
  <2> QED
    BY <1>1, <2>1, <2>2, <2>3, <2>4 DEF RelayInv, TypeOK
<1>5. \A x \in Requests : /\ Served(x)' <=> Served(x)
                          /\ Waiting(x)' => Waiting(x)
                          /\ Underway(x)' => Underway(x)
                          /\ Underway(x) => Underway(x)' \/ x \in lost'
  BY <1>1 DEF Served, Waiting, Underway
<1>6. Apart'
  BY <1>1, <1>5 DEF RelayInv, Apart
<1>7. RecordsArePhones'
  BY DEF RelayInv, TypeOK, RecordsArePhones, Open
<1>8. NothingLeftBehind'
  BY DEF RelayInv, NothingLeftBehind
<1>9. WaitingIsUnserved'
  BY <1>5 DEF RelayInv, TypeOK, WaitingIsUnserved, Unserved, Answerless, Open
<1>10. NotQueuedIsNew'
  BY <1>5 DEF RelayInv, TypeOK, NotQueuedIsNew, Open
<1>11. ExecutionsCount' /\ ServedIsAccounted'
  BY <1>5 DEF RelayInv, TypeOK, ExecutionsCount, AnswerIsKnown, ServedIsAccounted, Open
<1>12. NoneSlipsThrough'
  <2>1. \A x \in Requests : Accepted(x)' => Accepted(x) \/ x \in lost'
    <3> SUFFICES ASSUME NEW x \in Requests, Accepted(x)', ~ Accepted(x)
                 PROVE  x \in lost'
      OBVIOUS
    <3>1. phone'[x] = IF phone[x] \in Open THEN "broken" ELSE phone[x]
      OBVIOUS
    <3>2. phone[x] = "asking"
      BY <3>1 DEF Accepted, Open
    <3> QED
      BY <3>2
  <2> QED
    BY <1>5, <2>1 DEF RelayInv, NoneSlipsThrough
<1> QED
  BY <1>4, <1>6, <1>7, <1>8, <1>9, <1>10, <1>11, <1>12 DEF RelayInv

-----------------------------------------------------------------------------
LEMMA NextRelayInv == RelayInv /\ [Next]_vars => RelayInv'
<1> SUFFICES ASSUME RelayInv, [Next]_vars
             PROVE  RelayInv'
  OBVIOUS
<1>1. CASE \E r \in Requests : PhoneStep(r)
  BY <1>1, PhoneEndsStep, SubmitsStep DEF PhoneStep
<1>2. CASE \E r \in Requests : ExecutesLate(r)
  BY <1>2, ExecutesLateStep
<1>3. CASE \E p \in Polls : PollStep(p)
  BY <1>3, LoopAsideStep, PollReturnsStep, PollArrivesStep, OrphanEndsStep DEF PollStep
<1>4. CASE LoopStep
  BY <1>4, LoopAsideStep, ServesStep, RespondsStep DEF LoopStep
<1>5. CASE \E r \in Requests, answer \in Answers : ArrivesLate(r, answer)
  BY <1>5, ArrivesLateStep
<1>6. CASE HeartbeatAges
  BY <1>6, LoopAsideStep
<1>7. CASE DesktopRestarts
  BY <1>7, DesktopRestartsStep
<1>8. CASE RelayRestarts
  BY <1>8, RelayRestartsStep
<1>9. CASE UNCHANGED vars
  <2>1. UNCHANGED Places /\ UNCHANGED <<phone, waiter, poll, connected, fresh, connector,
                                       current, late, executed, lost>>
    BY <1>9 DEF vars, relayVars, desktopVars, history, Places
  <2>2. TypeOK' /\ RecordsArePhones' /\ NothingLeftBehind'
    BY <2>1 DEF RelayInv, TypeOK, RecordsArePhones, NothingLeftBehind, Places
  <2>3. WaitingIsUnserved' /\ NotQueuedIsNew' /\ NoneSlipsThrough'
    BY <2>1, PlacesStay DEF RelayInv, WaitingIsUnserved, Unserved, NotQueuedIsNew,
                            NoneSlipsThrough, Accepted, Places
  <2>4. ExecutionsCount' /\ ServedIsAccounted'
    BY <2>1, PlacesStay DEF RelayInv, ExecutionsCount, AnswerIsKnown, ServedIsAccounted, Places
  <2> QED
    BY <2>1, <2>2, <2>3, <2>4, PlacesStay DEF RelayInv
<1> QED
  BY <1>1, <1>2, <1>3, <1>4, <1>5, <1>6, <1>7, <1>8, <1>9 DEF Next

\* The invariant of the relay and the connector.
THEOREM RelaySafety == Spec => []RelayInv
BY InitRelayInv, NextRelayInv, PTL DEF Spec

\* The relay keeps a record of exactly the requests a phone waits for.
THEOREM NoRecordLeaks == Spec => []RecordsArePhones
<1>1. RelayInv => RecordsArePhones
  BY DEF RelayInv
<1> QED
  BY <1>1, RelaySafety, PTL

\* A queued request is underway, executed, or dropped by a failure.
THEOREM NoneSlips == Spec => []NoneSlipsThrough
<1>1. RelayInv => NoneSlipsThrough
  BY DEF RelayInv
<1> QED
  BY <1>1, RelaySafety, PTL

-----------------------------------------------------------------------------
\* A request in a phase is one whose phone is in one of the states that stand for it.
LEMMA PhaseIs ==
    ASSUME RelayInv, NEW r \in Requests
    PROVE  /\ Phase(r) = "idle" <=> phone[r] = "idle"
           /\ Phase(r) = "open" <=> phone[r] \in Open
           /\ Phase(r) = "unanswered" <=> phone[r] \in {"gaveUp", "broken"}
           /\ Phase(r) = "failed" <=> phone[r] = "failed"
BY DEF RelayInv, TypeOK, Phase, Open, Ended

\* One request changes for its phone.
LEMMA OneBecomes ==
    ASSUME RelayInv, NEW r \in Requests, NEW to,
           phone' = [phone EXCEPT ![r] = to]
    PROVE  [x \in Requests |-> Phase(x)'] =
               [[x \in Requests |-> Phase(x)] EXCEPT ![r] = Phase(r)']
BY DEF RelayInv, TypeOK, Phase

\* A request is executed when it waits in the loop or lingers: for the first time, and
\* while its phone waits or has no answer.
LEMMA ExecutesOnce ==
    ASSUME RelayInv, NEW r \in Requests,
           r \in lingering \/ (r \in ToSet(batch) /\ ~ Served(r)),
           executed' = [executed EXCEPT ![r] = @ + 1],
           phone' = phone
    PROVE  Delivery!Execute(r)
<1>1. executed[r] = 0
  BY DEF RelayInv, ExecutionsCount, WaitingIsUnserved, Waiting
<1>2. phone[r] \in Open \cup {"gaveUp", "broken", "failed"}
  <2>1. Underway(r)
    BY DEF Underway
  <2>2. phone[r] # "answered"
    <3>1. AnswerIsKnown(r) => executed[r] = 1
      BY DEF RelayInv, ExecutionsCount
    <3>2. phone[r] = "answered" => AnswerIsKnown(r)
      BY DEF AnswerIsKnown
    <3> QED
      BY <1>1, <3>1, <3>2
  <2> QED
    BY <2>1, <2>2 DEF RelayInv, TypeOK, NotQueuedIsNew, Open, Ended
<1>3. Phase(r) \in {"open", "unanswered", "failed"}
  BY <1>2, PhaseIs DEF Open
<1>4. executed' = [executed EXCEPT ![r] = 1]
  BY <1>1 DEF RelayInv, TypeOK
<1>5. [x \in Requests |-> Phase(x)'] = [x \in Requests |-> Phase(x)]
  BY DEF Phase
<1> QED
  BY <1>1, <1>3, <1>4, <1>5 DEF Delivery!Execute

LEMMA PhoneMaps ==
    ASSUME RelayInv, NEW r \in Requests, PhoneStep(r)
    PROVE  [Delivery!Next]_(Delivery!deliveryVars)
<1> USE DEF EndsWith, relayVars, history
<1>1. \A x \in Requests : phone'[x] = phone[x] => Phase(x)' = Phase(x)
  BY DEF Phase
<1>2. CASE Asks(r)
  <2>1. \E to \in {"asking", "turnedAway"} : phone' = [phone EXCEPT ![r] = to]
    BY <1>2 DEF Asks
  <2>2. PICK to \in {"asking", "turnedAway"} : phone' = [phone EXCEPT ![r] = to]
    BY <2>1
  <2>3. Phase(r) = "idle" /\ Phase(r)' \in {"open", "turnedAway"}
    BY <1>2, <2>2 DEF Asks, RelayInv, TypeOK, Phase, Open
  <2>4. Delivery!Ask(r) \/ Delivery!TurnAway(r)
    BY <1>2, <2>2, <2>3, OneBecomes
       DEF Asks, Delivery!Ask, Delivery!TurnAway, Delivery!Becomes
  <2> QED
    BY <2>4 DEF Delivery!Next
<1>3. CASE Submits(r) \/ TimesOut(r)
  <2>1. \E to \in Open : phone' = [phone EXCEPT ![r] = to] /\ phone[r] \in Open
    BY <1>3 DEF Submits, TimesOut, Open
  <2>2. \A x \in Requests : Phase(x)' = Phase(x)
    BY <1>1, <2>1 DEF RelayInv, TypeOK, Phase
  <2> QED
    BY <1>3, <2>2 DEF Submits, TimesOut, Delivery!deliveryVars
<1>4. CASE TakesAnswer(r)
  <2>1. CASE waiter[r] = "executed"
    <3>1. AnswerIsKnown(r)
      BY <2>1 DEF AnswerIsKnown
    <3>2. executed[r] = 1
      BY <3>1 DEF RelayInv, ExecutionsCount
    <3>3. phone' = [phone EXCEPT ![r] = "answered"]
      BY <1>4, <2>1 DEF TakesAnswer
    <3>4. Phase(r) = "open" /\ Phase(r)' = "answered"
      BY <1>4, <3>3 DEF TakesAnswer, RelayInv, TypeOK, Phase, Open
    <3>5. Delivery!Answer(r)
      BY <1>4, <3>2, <3>3, <3>4, OneBecomes
         DEF TakesAnswer, Delivery!Answer, Delivery!Becomes
    <3> QED
      BY <3>5 DEF Delivery!Next
  <2>2. CASE waiter[r] # "executed"
    <3>1. phone' = [phone EXCEPT ![r] = "failed"]
      BY <1>4, <2>2 DEF TakesAnswer
    <3>2. Phase(r) = "open" /\ Phase(r)' = "failed"
      BY <1>4, <3>1 DEF TakesAnswer, RelayInv, TypeOK, Phase, Open
    <3>3. Delivery!Fail(r)
      BY <1>4, <3>1, <3>2, OneBecomes DEF TakesAnswer, Delivery!Fail, Delivery!Becomes
    <3> QED
      BY <3>3 DEF Delivery!Next
  <2> QED
    BY <2>1, <2>2
<1>5. CASE GivesUp(r)
  <2>1. phone' = [phone EXCEPT ![r] = "gaveUp"] /\ executed' = executed
    BY <1>5 DEF GivesUp
  <2>2. Phase(r) = "open" /\ Phase(r)' = "unanswered"
    BY <1>5, <2>1 DEF GivesUp, RelayInv, TypeOK, Phase, Open
  <2>3. \A x \in Requests : Phase(x)' = IF x \in {r} THEN "unanswered" ELSE Phase(x)
    BY <1>1, <2>1, <2>2 DEF RelayInv, TypeOK
  <2>4. Delivery!GiveUp({r})
    BY <2>1, <2>2, <2>3 DEF Delivery!GiveUp
  <2> QED
    BY <2>4 DEF Delivery!Next
<1> QED
  BY <1>2, <1>3, <1>4, <1>5 DEF PhoneStep

LEMMA LoopMaps ==
    ASSUME RelayInv, LoopStep
    PROVE  [Delivery!Next]_(Delivery!deliveryVars)
<1> USE DEF relayVars, history
<1>1. CASE phone' = phone /\ executed' = executed
  BY <1>1 DEF Delivery!deliveryVars, Phase
<1>2. CASE PollFails \/ Responds
  BY <1>1, <1>2 DEF PollFails, Responds, Records
<1>3. CASE Executes \/ LocalFails
  <2>1. phone' = phone
    BY <1>3 DEF Executes, LocalFails
  <2>2. Head(batch) \in Requests /\ Head(batch) \in ToSet(batch) /\ ~ Served(Head(batch))
    BY <1>3, ToSetOf DEF Executes, LocalFails, RelayInv, TypeOK, Served
  <2>3. CASE executed' = [executed EXCEPT ![Head(batch)] = @ + 1]
    BY <2>1, <2>2, <2>3, ExecutesOnce DEF Delivery!Next
  <2> QED
    BY <1>1, <1>3, <2>1, <2>3 DEF Executes, LocalFails
<1> QED
  BY <1>2, <1>3 DEF LoopStep

LEMMA RestartMaps ==
    ASSUME RelayInv, RelayRestarts
    PROVE  [Delivery!Next]_(Delivery!deliveryVars)
<1> DEFINE S == {r \in Requests : phone[r] \in Open}
<1>1. /\ phone' = [r \in Requests |-> IF phone[r] \in Open THEN "broken" ELSE phone[r]]
      /\ executed' = executed
  BY DEF RelayRestarts
<1>2. \A r \in S : Phase(r) = "open"
  BY DEF Phase
<1>3. \A r \in Requests : Phase(r)' = IF r \in S THEN "unanswered" ELSE Phase(r)
  BY <1>1 DEF Phase, Open
<1> HIDE DEF S
<1>4. S \in SUBSET Requests
  BY DEF S
<1>5. Delivery!GiveUp(S)
  BY <1>1, <1>2, <1>3, <1>4 DEF Delivery!GiveUp
<1> QED
  BY <1>4, <1>5 DEF Delivery!Next

\* Every step is one of the promise or leaves what it speaks of alone.
LEMMA NextMaps == RelayInv /\ [Next]_vars => [Delivery!Next]_(Delivery!deliveryVars)
<1> SUFFICES ASSUME RelayInv, [Next]_vars
             PROVE  [Delivery!Next]_(Delivery!deliveryVars)
  OBVIOUS
<1>1. CASE phone' = phone /\ executed' = executed
  BY <1>1 DEF Delivery!deliveryVars, Phase
<1>2. CASE \E r \in Requests : PhoneStep(r)
  BY <1>2, PhoneMaps
<1>3. CASE \E r \in Requests : ExecutesLate(r)
  BY <1>3, ExecutesOnce DEF ExecutesLate, Delivery!Next
<1>4. CASE \E p \in Polls : PollStep(p)
  BY <1>1, <1>4 DEF PollStep, PollsAgain, PollReturns, PollArrives, OrphanEnds, history
<1>5. CASE LoopStep
  BY <1>5, LoopMaps
<1>6. CASE \E r \in Requests, answer \in Answers : ArrivesLate(r, answer)
  BY <1>1, <1>6 DEF ArrivesLate, Records
<1>7. CASE HeartbeatAges \/ DesktopRestarts
  BY <1>1, <1>7 DEF HeartbeatAges, DesktopRestarts, history
<1>8. CASE RelayRestarts
  BY <1>8, RestartMaps
<1>9. CASE UNCHANGED vars
  BY <1>1, <1>9 DEF vars, history
<1> QED
  BY <1>2, <1>3, <1>4, <1>5, <1>6, <1>7, <1>8, <1>9 DEF Next

\* The relay and the connector keep their promise to the phones: at most one execution,
\* an answer only after it, none for a request that was turned away.
THEOREM PromiseIsKept == Spec => ImplementsDelivery
<1>1. Init => Delivery!Init
  BY DEF Init, Delivery!Init, Phase, Open
<1> QED
  BY <1>1, NextMaps, RelaySafety, PTL DEF Spec, ImplementsDelivery, Delivery!Spec
=============================================================================
