--------------------------- MODULE LauncherProofs ---------------------------
(***************************************************************************)
(* Proofs about the launcher, for every list of children and every policy. *)
(* The delays matter to none of them but the types.                        *)
(***************************************************************************)
EXTENDS Launcher, SequenceTheorems, WellFoundedInduction, TLAPS

Typed ==
    /\ launcher \in {"off", "starting", "up", "stopping"}
    /\ place \in 0 .. Len(Order) + 1
    /\ launcher = "stopping" => place <= Len(Order)
    /\ state \in [Children -> States]
    /\ proc \in [Children -> Procs]
    /\ wish \in [Children -> {"up", "down"}]

(* What the operator has paused, or the user has ended, does not wait for a restart. *)
NoneWaitsUnwished ==
    \A c \in Children : wish[c] = "down" =>
        /\ state[c] # "crashed"
        /\ state[c] = "running" => proc[c] # "broken"

(* What start_all has not come to is as it was made. *)
NotYetStarted ==
    launcher = "starting" =>
        /\ place # 0
        /\ \A i \in DOMAIN Order : i >= place =>
              wish[Order[i]] = "up" /\ proc[Order[i]] = "none"

IInv == Typed /\ NoneForgotten /\ DownStaysDown /\ NothingLeftBehind
        /\ NoneWaitsUnwished /\ NotYetStarted

-----------------------------------------------------------------------------
(* The order numbers the children. *)
LEMMA Numbered ==
    /\ Len(Order) \in Nat /\ DOMAIN Order = 1 .. Len(Order)
    /\ \A i \in DOMAIN Order : Order[i] \in Children
    /\ \A i, j \in DOMAIN Order : Order[i] = Order[j] => i = j
BY OrderAssumption DEF Children

LEMMA InitEstablishes == Init => IInv
BY Numbered DEF Init, States, Procs, IInv, Typed, NoneForgotten, DownStaysDown,
                NothingLeftBehind, NoneWaitsUnwished, NotYetStarted

(* A launcher that comes or goes begins with new children. *)
LEMMA NewSupervisorKeeps ==
    ASSUME NEW wanted \in {"up", "down"}, NewSupervisor(wanted),
           launcher' \in {"off", "starting"},
           launcher' = "starting" => wanted = "up"
    PROVE  IInv'
BY Numbered DEF NewSupervisor, States, Procs, IInv, Typed, NoneForgotten, DownStaysDown,
                NothingLeftBehind, NoneWaitsUnwished, NotYetStarted

(* The shutdown begins behind the last child; a request and time touch no child. *)
LEMMA OthersKeep ==
    IInv /\ (LoopEnds \/ UserQuits \/ StopRequested \/ TimePasses \/ UNCHANGED vars) => IInv'
BY Numbered DEF LoopEnds, UserQuits, StopRequested, TimePasses, vars, children,
                IInv, Typed, NoneForgotten, DownStaysDown,
                NothingLeftBehind, NoneWaitsUnwished, NotYetStarted

LEMMA StartsNextKeeps == IInv /\ StartsNext => IInv'
<1> SUFFICES ASSUME IInv, StartsNext PROVE IInv'
    OBVIOUS
<1>0. place \in DOMAIN Order /\ place' = place + 1
  <2>1. place \in 0 .. Len(Order) + 1 /\ place # 0 /\ place <= Len(Order)
    BY DEF IInv, Typed, NotYetStarted, StartsNext
  <2>2. place' = place + 1
    BY DEF StartsNext
  <2> QED
    BY <2>1, <2>2, Numbered
<1> USE Numbered DEF IInv, StartsNext, Started, Becomes
<1>1. place \in DOMAIN Order /\ place' = place + 1
      /\ wish[Order[place]] = "up" /\ Order[place] \in Children
  BY <1>0 DEF Typed, NotYetStarted
<1>2. Typed'
  BY <1>1 DEF Typed, States, Procs
<1>3. NoneForgotten' /\ DownStaysDown' /\ NoneWaitsUnwished'
  BY <1>1 DEF Typed, NoneForgotten, DownStaysDown, NoneWaitsUnwished
<1>4. NothingLeftBehind'
  BY DEF NothingLeftBehind
<1>5. NotYetStarted'
  BY <1>1 DEF Typed, NotYetStarted
<1> QED
  BY <1>2, <1>3, <1>4, <1>5

LEMMA StopsNextKeeps == IInv /\ StopsNext => IInv'
<1> SUFFICES ASSUME IInv, StopsNext PROVE IInv'
    OBVIOUS
<1>0. place \in DOMAIN Order /\ place' = place - 1
  <2>1. place \in 0 .. Len(Order) + 1 /\ place > 0 /\ place <= Len(Order)
    BY DEF IInv, Typed, StopsNext
  <2>2. place' = place - 1
    BY DEF StopsNext
  <2> QED
    BY <2>1, <2>2, Numbered
<1> USE Numbered DEF IInv, StopsNext, Halted, Becomes
<1>1. Typed'
  BY <1>0 DEF Typed, States, Procs
<1>2. NoneForgotten' /\ DownStaysDown' /\ NoneWaitsUnwished'
  BY <1>0 DEF Typed, NoneForgotten, DownStaysDown, NoneWaitsUnwished
<1>3. NothingLeftBehind'
  BY DEF Typed, NothingLeftBehind
<1>4. NotYetStarted'
  BY DEF NotYetStarted
<1> QED
  BY <1>1, <1>2, <1>3, <1>4

(* While the launcher is up only one child's part of the invariant is at stake. *)
LEMMA OneChildKeeps ==
    ASSUME IInv, NEW c \in Children, NEW s \in States, NEW p \in Procs,
           state' = [state EXCEPT ![c] = s],
           proc' = [proc EXCEPT ![c] = p],
           UNCHANGED <<launcher, place>>,
           wish' \in [Children -> {"up", "down"}],
           \A d \in Children \ {c} : wish'[d] = wish[d],
           p = "alive" => s = "running",
           wish'[c] = "down" =>
               /\ p # "alive"
               /\ s # "crashed"
               /\ s = "running" => p # "broken",
           launcher = "up"
    PROVE  IInv'
<1>1. Typed'
  BY DEF IInv, Typed
<1>2. NoneForgotten' /\ DownStaysDown' /\ NoneWaitsUnwished'
  BY DEF IInv, Typed, NoneForgotten, DownStaysDown, NoneWaitsUnwished
<1>3. NothingLeftBehind' /\ NotYetStarted'
  BY DEF NothingLeftBehind, NotYetStarted
<1> QED
  BY <1>1, <1>2, <1>3 DEF IInv

(* A process may end at any time, but only one that has been started. *)
LEMMA EndingKeeps == ASSUME NEW c \in Children, IInv, Exits(c) \/ Crashes(c) PROVE IInv'
<1> USE DEF IInv, Exits, Crashes, ProcessEnds
<1>1. proc[c] = "alive" /\ wish[c] = "up" /\ state[c] = "running"
  BY DEF Typed, DownStaysDown, NoneForgotten
<1>2. Typed'
  BY DEF Typed, Procs
<1>3. NoneForgotten' /\ DownStaysDown'
  BY <1>1 DEF Typed, NoneForgotten, DownStaysDown
<1>4. NoneWaitsUnwished'
  BY <1>1 DEF Typed, NoneWaitsUnwished
<1>5. NothingLeftBehind'
  BY <1>1, Numbered DEF Typed, NothingLeftBehind
<1>6. NotYetStarted'
  BY <1>1, Numbered DEF Typed, NotYetStarted
<1> QED
  BY <1>2, <1>3, <1>4, <1>5, <1>6

(* A start, or an attempt at one, of a child that is wanted. *)
LEMMA StartKeeps ==
    ASSUME IInv, NEW c \in Children, StartedOrNot(c), launcher = "up",
           UNCHANGED <<launcher, place>>,
           \/ wish' = wish /\ wish[c] = "up"
           \/ wish' = [wish EXCEPT ![c] = "up"]
    PROVE  IInv'
<1>1. /\ wish' \in [Children -> {"up", "down"}] /\ wish'[c] = "up"
      /\ \A d \in Children \ {c} : wish'[d] = wish[d]
  BY DEF IInv, Typed
<1>2. state[c] # "running" => proc[c] # "alive"
  BY DEF IInv, NoneForgotten
<1>3. PICK s \in States, p \in Procs :
          /\ state' = [state EXCEPT ![c] = s] /\ proc' = [proc EXCEPT ![c] = p]
          /\ p = "alive" => s = "running"
  <2> USE <1>2 DEF StartedOrNot, Becomes, IInv, Typed, States, Procs
  <2>1. CASE Started(c)
    BY <2>1 DEF Started
  <2>2. CASE NotStarted(c)
    BY <2>2 DEF NotStarted
  <2>3. CASE NoOutput(c)
    BY <2>3 DEF NoOutput
  <2> QED
    BY <2>1, <2>2, <2>3
<1> QED
  BY <1>1, <1>3, OneChildKeeps

LEMMA PollsKeep == ASSUME NEW c \in Children, IInv, Polls(c) PROVE IInv'
<1>1. /\ state \in [Children -> States] /\ proc \in [Children -> Procs]
      /\ wish \in [Children -> {"up", "down"}]
  BY DEF IInv, Typed
<1>2. CASE NoticesExit(c)
  <2>1. /\ state' = [state EXCEPT ![c] = "stopped"] /\ proc' = [proc EXCEPT ![c] = "exited"]
        /\ launcher = "up" /\ UNCHANGED <<launcher, place, wish>>
    BY <1>1, <1>2 DEF NoticesExit, Observes
  <2> QED
    BY <1>1, <2>1, OneChildKeeps DEF States, Procs
<1>3. CASE NoticesCrash(c)
  <2>1. wish[c] # "down"
    BY <1>3 DEF NoticesCrash, Observes, IInv, NoneWaitsUnwished
  <2>2. PICK s \in {"failed", "crashed"} :
            /\ state' = [state EXCEPT ![c] = s] /\ proc' = [proc EXCEPT ![c] = "broken"]
            /\ launcher = "up" /\ UNCHANGED <<launcher, place, wish>>
    BY <1>1, <1>3 DEF NoticesCrash, Observes, Answer
  <2> QED
    BY <1>1, <2>1, <2>2, OneChildKeeps DEF States, Procs
<1>4. CASE RestartsCrashed(c)
  <2>1. wish[c] = "up"
    BY <1>1, <1>4 DEF RestartsCrashed, Observes, IInv, NoneWaitsUnwished
  <2> QED
    BY <1>4, <2>1, StartKeeps DEF RestartsCrashed, Observes
<1> QED
  BY <1>2, <1>3, <1>4 DEF Polls

LEMMA MenuKeeps ==
    ASSUME NEW c \in Children, IInv, Pause(c) \/ Resume(c) \/ Restart(c) PROVE IInv'
<1>1. /\ state \in [Children -> States] /\ proc \in [Children -> Procs]
      /\ wish \in [Children -> {"up", "down"}]
  BY DEF IInv, Typed
<1>2. CASE Pause(c)
  <2>1. state[c] # "running" => proc[c] # "alive"
    BY DEF IInv, NoneForgotten
  <2>2. PICK p \in Procs \ {"alive"} :
            state' = [state EXCEPT ![c] = "paused"] /\ proc' = [proc EXCEPT ![c] = p]
    BY <1>1, <1>2, <2>1 DEF Pause, Paused, Halted, Becomes, Procs
  <2>3. launcher = "up" /\ UNCHANGED <<launcher, place>> /\ wish' = [wish EXCEPT ![c] = "down"]
    BY <1>2 DEF Pause, Ordered
  <2> QED
    BY <1>1, <2>2, <2>3, OneChildKeeps DEF States
<1>3. CASE Resume(c) \/ Restart(c)
  BY <1>3, StartKeeps DEF Resume, Restart, Ordered
<1> QED
  BY <1>2, <1>3

LEMMA StepKeeps == IInv /\ [Next]_vars => IInv'
<1> SUFFICES ASSUME IInv, [Next]_vars PROVE IInv'
    OBVIOUS
<1>1. CASE Launch
  BY <1>1, NewSupervisorKeeps DEF Launch
<1>2. CASE StartAllFails \/ LauncherDies \/ Ends
  BY <1>2, NewSupervisorKeeps DEF StartAllFails, LauncherDies, Ends, Leaves
<1>3. CASE \E c \in Children : Polls(c) \/ Exits(c) \/ Crashes(c)
  BY <1>3, PollsKeep, EndingKeeps
<1>4. CASE \E c \in Children : Pause(c) \/ Resume(c) \/ Restart(c)
  BY <1>4, MenuKeeps
<1> QED
  BY <1>1, <1>2, <1>3, <1>4, StartsNextKeeps, StopsNextKeeps, OthersKeep DEF Next

(* The invariant the theorems below rest on. *)
THEOREM Supervision == Spec => []IInv
BY InitEstablishes, StepKeeps, PTL DEF Spec

(* No process of a child runs that the supervisor does not count as running. *)
THEOREM NoProcessIsForgotten == Spec => []NoneForgotten
<1>1. IInv => NoneForgotten
  BY DEF IInv
<1> QED
  BY <1>1, Supervision, PTL

(* Supervisor.pause and a clean exit are final until the child is asked for. *)
THEOREM WishesAreKept == Spec => []DownStaysDown
<1>1. IInv => DownStaysDown
  BY DEF IInv
<1> QED
  BY <1>1, Supervision, PTL

(* Supervisor.shutdown leaves no process behind, whatever state each child is in. *)
THEOREM ShutdownIsComplete == Spec => []NothingLeftBehind
<1>1. IInv => NothingLeftBehind
  BY DEF IInv
<1> QED
  BY <1>1, Supervision, PTL

-----------------------------------------------------------------------------
(***************************************************************************)
(* The budget.  The restarts of a child are remembered the oldest first;   *)
(* so what is within the window is the end of the list, and what was       *)
(* answered lately is that end.                                            *)
(***************************************************************************)

OldestFirst(ages) == \A i, j \in DOMAIN ages : i < j => ages[i] >= ages[j]

(* A set of numbers that is not empty has a least one. *)
LEMMA Least ==
    ASSUME NEW T \in SUBSET Nat, T # {}
    PROVE  Min(T) \in T /\ \A m \in T : Min(T) <= m
<1>1. IsWellFoundedOn(OpToRel(<, Nat), Nat)
  BY NatLessThanWellFounded
<1>2. PICK n \in T : \A m \in T : ~(<<m, n>> \in OpToRel(<, Nat))
  BY <1>1, WFMin
<1>3. \A m \in T : m \in Nat /\ n \in Nat /\ ~(m < n)
  BY <1>2 DEF OpToRel
<1>4. n \in T /\ \A m \in T : n <= m
  BY <1>3
<1> QED
  BY <1>4 DEF Min

(* Where the part within the window begins. *)
LEMMA YoungBegins ==
    ASSUME NEW s \in Seq(Ages), OldestFirst(s)
    PROVE  /\ YoungFrom(s) \in 1 .. Len(s) + 1
           /\ \A i \in DOMAIN s : s[i] <= Window <=> i >= YoungFrom(s)
<1> DEFINE T == {i \in 1 .. Len(s) + 1 : \A j \in i .. Len(s) : s[j] <= Window}
<1> USE PolicyAssumption
<1>1. Len(s) \in Nat /\ DOMAIN s = 1 .. Len(s) /\ \A i \in DOMAIN s : s[i] \in Nat
  BY DEF Ages
<1>2. T \in SUBSET Nat /\ Len(s) + 1 \in T
  BY <1>1
<1>3. Min(T) \in T /\ \A m \in T : Min(T) <= m
  BY <1>2, Least
<1>4. YoungFrom(s) = Min(T)
  BY DEF YoungFrom
<1>5. ASSUME NEW i \in DOMAIN s, s[i] <= Window PROVE i >= Min(T)
  <2>1. \A j \in i .. Len(s) : s[j] <= Window
    BY <1>1, <1>5 DEF OldestFirst
  <2>2. i \in T
    BY <1>1, <2>1
  <2> QED
    BY <1>1, <1>3, <2>2
<1>6. ASSUME NEW i \in DOMAIN s, i >= Min(T) PROVE s[i] <= Window
  BY <1>1, <1>3, <1>6
<1> QED
  BY <1>3, <1>4, <1>5, <1>6

(* It begins at one place only. *)
LEMMA YoungBeginsOnce ==
    ASSUME NEW s \in Seq(Ages), OldestFirst(s), NEW n \in 1 .. Len(s) + 1,
           \A i \in DOMAIN s : s[i] <= Window <=> i >= n
    PROVE  YoungFrom(s) = n
<1>1. Len(s) \in Nat /\ DOMAIN s = 1 .. Len(s)
  OBVIOUS
<1>2. CASE YoungFrom(s) < n
  BY <1>1, <1>2, YoungBegins
<1>3. CASE n < YoungFrom(s)
  BY <1>1, <1>3, YoungBegins
<1> QED
  BY <1>1, <1>2, <1>3, YoungBegins

(* What is left of a list. *)
LEMMA PrunedIs ==
    ASSUME NEW s \in Seq(Ages), OldestFirst(s)
    PROVE  /\ Pruned(s) \in Seq(Ages) /\ OldestFirst(Pruned(s))
           /\ Len(Pruned(s)) = Len(s) - YoungFrom(s) + 1
           /\ \A i \in 1 .. Len(Pruned(s)) :
                 Pruned(s)[i] = s[YoungFrom(s) + i - 1] /\ Pruned(s)[i] <= Window
<1> DEFINE n == YoungFrom(s)
<1>1. /\ Len(s) \in Nat /\ DOMAIN s = 1 .. Len(s) /\ n \in 1 .. Len(s) + 1
      /\ \A i \in DOMAIN s : s[i] <= Window <=> i >= n
  BY YoungBegins
<1>2. Len(s) \in n - 1 .. Len(s)
  BY <1>1
<1>3. /\ SubSeq(s, n, Len(s)) \in Seq(Ages)
      /\ Len(SubSeq(s, n, Len(s))) = Len(s) - n + 1
      /\ \A i \in 1 .. Len(s) - n + 1 : SubSeq(s, n, Len(s))[i] = s[n + i - 1]
  BY <1>1, <1>2, SubSeqProperties
<1>4. Pruned(s) = SubSeq(s, n, Len(s))
  BY DEF Pruned
<1> HIDE DEF n
<1>5. \A i \in 1 .. Len(Pruned(s)) :
         n + i - 1 \in DOMAIN s /\ n + i - 1 >= n /\ Pruned(s)[i] = s[n + i - 1]
  BY <1>1, <1>3, <1>4
<1>6. OldestFirst(Pruned(s))
  BY <1>1, <1>3, <1>4, <1>5 DEF OldestFirst
<1>7. \A i \in 1 .. Len(Pruned(s)) : Pruned(s)[i] <= Window
  BY <1>1, <1>5
<1> QED
  BY <1>3, <1>4, <1>5, <1>6, <1>7 DEF n

(* A list that is within the window loses nothing. *)
LEMMA AllYoung ==
    ASSUME NEW s \in Seq(Ages), OldestFirst(s), \A i \in DOMAIN s : s[i] <= Window
    PROVE  Pruned(s) = s
<1>1. Len(s) \in Nat /\ DOMAIN s = 1 .. Len(s)
  OBVIOUS
<1>2. YoungFrom(s) = 1
  BY <1>1, YoungBeginsOnce
<1>3. /\ Pruned(s) \in Seq(Ages) /\ Len(Pruned(s)) = Len(s)
      /\ \A i \in 1 .. Len(s) : Pruned(s)[i] = s[i]
  BY <1>1, <1>2, PrunedIs
<1> QED
  BY <1>3, SeqEqual

Aged(s) == [i \in DOMAIN s |-> Older(s[i])]

LEMMA AgedIs ==
    ASSUME NEW s \in Seq(Ages), OldestFirst(s)
    PROVE  /\ Aged(s) \in Seq(Ages) /\ Len(Aged(s)) = Len(s) /\ OldestFirst(Aged(s))
           /\ \A i \in DOMAIN s :
                 Aged(s)[i] = Older(s[i]) /\ (Aged(s)[i] <= Window => s[i] <= Window)
<1>1. Len(s) \in Nat /\ DOMAIN s = 1 .. Len(s) /\ \A i \in DOMAIN s : s[i] \in Ages
  OBVIOUS
<1>2. \A a \in Ages : Older(a) \in Ages /\ (Older(a) <= Window => a <= Window)
  BY PolicyAssumption DEF Older, Ages
<1>3. \A a, b \in Ages : a >= b => Older(a) >= Older(b)
  BY PolicyAssumption DEF Older, Ages
<1>4. Aged(s) \in Seq(Ages) /\ Len(Aged(s)) = Len(s) /\ DOMAIN Aged(s) = DOMAIN s
      /\ \A i \in DOMAIN s : Aged(s)[i] = Older(s[i])
  BY <1>1, <1>2 DEF Aged
<1>5. OldestFirst(Aged(s))
  BY <1>1, <1>3, <1>4 DEF OldestFirst
<1> QED
  BY <1>1, <1>2, <1>4, <1>5

(* What has left the window does not come back. *)
LEMMA PrunedThenAged ==
    ASSUME NEW s \in Seq(Ages), OldestFirst(s)
    PROVE  Pruned(Aged(Pruned(s))) = Pruned(Aged(s))
<1> DEFINE n == YoungFrom(s)
           m == YoungFrom(Aged(s))
           p == Pruned(s)
           q == Pruned(Aged(s))
           pq == Pruned(Aged(p))
<1>1. /\ Len(s) \in Nat /\ DOMAIN s = 1 .. Len(s) /\ n \in 1 .. Len(s) + 1
      /\ \A i \in DOMAIN s : s[i] <= Window <=> i >= n
  BY YoungBegins
<1>2. /\ p \in Seq(Ages) /\ OldestFirst(p) /\ Len(p) = Len(s) - n + 1
      /\ DOMAIN p = 1 .. Len(p)
      /\ \A i \in 1 .. Len(p) : p[i] = s[n + i - 1]
  BY PrunedIs
<1>3. /\ Aged(s) \in Seq(Ages) /\ Len(Aged(s)) = Len(s) /\ OldestFirst(Aged(s))
      /\ DOMAIN Aged(s) = DOMAIN s
      /\ \A i \in DOMAIN s :
            Aged(s)[i] = Older(s[i]) /\ (Aged(s)[i] <= Window => s[i] <= Window)
  BY AgedIs
<1>4. /\ Aged(p) \in Seq(Ages) /\ Len(Aged(p)) = Len(p) /\ OldestFirst(Aged(p))
      /\ DOMAIN Aged(p) = DOMAIN p
      /\ \A i \in DOMAIN p : Aged(p)[i] = Older(p[i])
  BY <1>2, AgedIs
<1>5. /\ m \in 1 .. Len(s) + 1
      /\ \A i \in DOMAIN s : Aged(s)[i] <= Window <=> i >= m
  BY <1>3, YoungBegins
<1>6. /\ q \in Seq(Ages) /\ Len(q) = Len(s) - m + 1
      /\ \A i \in 1 .. Len(q) : q[i] = Aged(s)[m + i - 1]
  BY <1>3, PrunedIs
<1> HIDE DEF n, m, p, q, pq
<1>7. m >= n
  BY <1>1, <1>3, <1>5
<1>8. ASSUME NEW i \in 1 .. Len(p)
      PROVE  n + i - 1 \in DOMAIN s /\ Aged(p)[i] = Aged(s)[n + i - 1]
  <2>1. n + i - 1 \in DOMAIN s
    BY <1>1, <1>2
  <2>2. Aged(s)[n + i - 1] = Older(s[n + i - 1])
    BY <1>3, <2>1
  <2>3. Aged(p)[i] = Older(p[i]) /\ p[i] = s[n + i - 1]
    BY <1>2, <1>4
  <2> QED
    BY <2>1, <2>2, <2>3
<1>9. YoungFrom(Aged(p)) = m - n + 1
  <2>1. m - n + 1 \in 1 .. Len(Aged(p)) + 1
    BY <1>1, <1>2, <1>4, <1>5, <1>7
  <2>2. ASSUME NEW i \in DOMAIN Aged(p)
        PROVE  Aged(p)[i] <= Window <=> i >= m - n + 1
    <3>1. i \in 1 .. Len(p)
      BY <1>2, <1>4
    <3>2. Aged(s)[n + i - 1] <= Window <=> n + i - 1 >= m
      BY <1>5, <1>8, <3>1
    <3>3. n + i - 1 >= m <=> i >= m - n + 1
      BY <1>1, <1>5, <3>1, <1>2
    <3> QED
      BY <1>8, <3>1, <3>2, <3>3
  <2> QED
    BY <1>4, <2>1, <2>2, YoungBeginsOnce
<1>10. /\ pq \in Seq(Ages) /\ Len(pq) = Len(Aged(p)) - (m - n + 1) + 1
       /\ \A i \in 1 .. Len(pq) : pq[i] = Aged(p)[m - n + 1 + i - 1]
  BY <1>4, <1>9, PrunedIs DEF pq
<1>11. Len(pq) = Len(q)
  BY <1>1, <1>2, <1>4, <1>5, <1>6, <1>10
<1>12. ASSUME NEW i \in 1 .. Len(pq) PROVE pq[i] = q[i]
  <2>1. q[i] = Aged(s)[m + i - 1]
    BY <1>6, <1>11
  <2>2. m - n + 1 + i - 1 \in 1 .. Len(p) /\ n + (m - n + 1 + i - 1) - 1 = m + i - 1
    BY <1>1, <1>2, <1>4, <1>5, <1>7, <1>10
  <2>3. Aged(p)[m - n + 1 + i - 1] = Aged(s)[m + i - 1]
    BY <1>8, <2>2
  <2> QED
    BY <1>10, <2>1, <2>3
<1> QED
  BY <1>6, <1>10, <1>11, <1>12, SeqEqual DEF q, pq, p

(* One restart more. *)
LEMMA OneMore ==
    ASSUME NEW s \in Seq(Ages), OldestFirst(s)
    PROVE  LET more == Append(Pruned(s), 0) IN
           /\ more \in Seq(Ages) /\ OldestFirst(more) /\ Pruned(more) = more
           /\ Len(more) = Len(Pruned(s)) + 1
<1> DEFINE p == Pruned(s)
           more == Append(p, 0)
<1>1. /\ p \in Seq(Ages) /\ OldestFirst(p) /\ Len(p) \in Nat /\ DOMAIN p = 1 .. Len(p)
      /\ \A i \in 1 .. Len(p) : p[i] <= Window /\ p[i] \in Nat
  BY PrunedIs, PolicyAssumption DEF Ages
<1> HIDE DEF p
<1>2. /\ more \in Seq(Ages) /\ Len(more) = Len(p) + 1 /\ DOMAIN more = 1 .. Len(p) + 1
      /\ \A i \in 1 .. Len(p) : more[i] = p[i]
      /\ more[Len(p) + 1] = 0
  BY <1>1, PolicyAssumption DEF Ages
<1> HIDE DEF more
<1>3. OldestFirst(more)
  BY <1>1, <1>2 DEF OldestFirst
<1>4. \A i \in DOMAIN more : more[i] <= Window
  BY <1>1, <1>2, PolicyAssumption
<1> QED
  BY <1>2, <1>3, <1>4, AllYoung DEF more, p

-----------------------------------------------------------------------------
(* The types, and what the supervisor remembers: no more than the budget, and of
   the crashes it answered those that are within the window. *)
Remembers(c) ==
    /\ recent[c] \in Seq(Ages) /\ OldestFirst(recent[c])
    /\ Len(recent[c]) <= MaxRestarts
    /\ answered[c] = Pruned(recent[c])

Budgeted ==
    /\ mode \in {"tray", "headless"} /\ sentinel \in BOOLEAN
    /\ due \in [Children -> Ages]
    /\ DOMAIN recent = Children /\ DOMAIN answered = Children
    /\ \A c \in Children : Remembers(c)

(* A supervisor that begins remembers nothing. *)
LEMMA NothingRemembered ==
    <<>> \in Seq(Ages) /\ OldestFirst(<<>>) /\ Len(<<>>) <= MaxRestarts /\ Pruned(<<>>) = <<>>
<1>1. <<>> \in Seq(Ages) /\ DOMAIN <<>> = {} /\ Len(<<>>) = 0
  OBVIOUS
<1>2. OldestFirst(<<>>) /\ \A i \in DOMAIN <<>> : <<>>[i] <= Window
  BY <1>1 DEF OldestFirst
<1>3. Pruned(<<>>) = <<>>
  BY <1>1, <1>2, AllYoung
<1> QED
  BY <1>1, <1>2, <1>3, PolicyAssumption

LEMMA BudgetBegins == Init => Budgeted
<1> SUFFICES ASSUME Init PROVE Budgeted
    OBVIOUS
<1>1. /\ mode \in {"tray", "headless"} /\ sentinel \in BOOLEAN
      /\ DOMAIN recent = Children /\ DOMAIN answered = Children
  BY DEF Init
<1>2. \A c \in Children : recent[c] = <<>> /\ answered[c] = <<>>
  BY DEF Init
<1>3. Never \in Ages
  BY PolicyAssumption DEF Ages, Never
<1>4. due \in [Children -> Ages]
  BY <1>3 DEF Init
<1> QED
  BY <1>1, <1>2, <1>4, NothingRemembered DEF Budgeted, Remembers

LEMMA NewSupervisorForgets ==
    ASSUME NEW wanted, NewSupervisor(wanted),
           mode' \in {"tray", "headless"}, sentinel' \in BOOLEAN
    PROVE  Budgeted'
<1>1. /\ due' \in [Children -> Ages]
      /\ DOMAIN recent' = Children /\ DOMAIN answered' = Children
  BY PolicyAssumption DEF NewSupervisor, Ages, Never
<1>2. \A c \in Children : recent'[c] = <<>> /\ answered'[c] = <<>>
  BY DEF NewSupervisor
<1> QED
  BY <1>1, <1>2, NothingRemembered DEF Budgeted, Remembers

(* A child that is started, stopped or paused is remembered as it was. *)
LEMMA BecomesRemembers ==
    ASSUME Budgeted, NEW c \in Children, NEW s, NEW p, Becomes(c, s, p),
           UNCHANGED <<mode, sentinel, answered>>
    PROVE  Budgeted'
BY PolicyAssumption DEF Becomes, Budgeted, Remembers, Ages, Never

LEMMA StartRemembers ==
    ASSUME Budgeted, NEW c \in Children, StartedOrNot(c),
           UNCHANGED <<mode, sentinel, answered>>
    PROVE  Budgeted'
BY BecomesRemembers DEF StartedOrNot, Started, NotStarted, NoOutput

LEMMA DelayFits == ASSUME NEW n \in Nat PROVE BackoffFor(n) \in Ages
<1>1. CASE Backoff = <<>>
  BY <1>1, PolicyAssumption DEF BackoffFor, Ages
<1>2. CASE Backoff # <<>>
  <2>1. Backoff \in Seq(0 .. Window) /\ Len(Backoff) \in Nat /\ Len(Backoff) # 0
        /\ \A i \in 1 .. Len(Backoff) : Backoff[i] \in 0 .. Window
    BY <1>2, PolicyAssumption
  <2>2. (IF n < Len(Backoff) THEN n + 1 ELSE Len(Backoff)) \in 1 .. Len(Backoff)
    BY <2>1
  <2> QED
    BY <1>2, <2>1, <2>2, PolicyAssumption DEF BackoffFor, Ages
<1> QED
  BY <1>1, <1>2

(* A crash is answered within the budget, and what is too old is forgotten. *)
LEMMA AnswerRemembers ==
    ASSUME Budgeted, NEW c \in Children, Answer(c), UNCHANGED <<mode, sentinel>>
    PROVE  Budgeted'
<1> DEFINE kept == Pruned(recent[c])
<1>1. /\ recent[c] \in Seq(Ages) /\ OldestFirst(recent[c]) /\ answered[c] = kept
      /\ Len(recent[c]) <= MaxRestarts
  BY DEF Budgeted, Remembers
<1>2. /\ kept \in Seq(Ages) /\ OldestFirst(kept) /\ Pruned(kept) = kept
      /\ Len(kept) \in Nat /\ Len(kept) <= MaxRestarts
  <2>1. YoungFrom(recent[c]) \in 1 .. Len(recent[c]) + 1 /\ Len(recent[c]) \in Nat
    BY <1>1, YoungBegins
  <2>2. /\ kept \in Seq(Ages) /\ OldestFirst(kept)
        /\ Len(kept) = Len(recent[c]) - YoungFrom(recent[c]) + 1
        /\ \A i \in 1 .. Len(kept) : kept[i] <= Window
    BY <1>1, PrunedIs
  <2> HIDE DEF kept
  <2>3. Pruned(kept) = kept
    BY <2>2, AllYoung
  <2> QED
    BY <1>1, <2>1, <2>2, <2>3, PolicyAssumption
<1>3. LET more == Append(kept, 0) IN
      /\ more \in Seq(Ages) /\ OldestFirst(more) /\ Pruned(more) = more
      /\ Len(more) = Len(kept) + 1
  BY <1>1, OneMore
<1> HIDE DEF kept
<1>4. CASE Exhausted(kept)
  <2>1. recent' = [recent EXCEPT ![c] = kept] /\ UNCHANGED <<due, answered>>
    BY <1>4 DEF Answer, kept
  <2> QED
    BY <1>1, <1>2, <2>1 DEF Budgeted, Remembers
<1>5. CASE ~Exhausted(kept)
  <2>1. /\ recent' = [recent EXCEPT ![c] = Append(kept, 0)]
        /\ due' = [due EXCEPT ![c] = BackoffFor(Len(kept))]
        /\ answered' = [answered EXCEPT ![c] = Append(kept, 0)]
    BY <1>1, <1>5 DEF Answer, kept
  <2>2. BackoffFor(Len(kept)) \in Ages
    BY <1>2, DelayFits
  <2>3. Len(kept) + 1 <= MaxRestarts
    BY <1>2, <1>5, PolicyAssumption DEF Exhausted
  <2>4. due' \in [Children -> Ages] /\ DOMAIN recent' = Children /\ DOMAIN answered' = Children
    BY <2>1, <2>2 DEF Budgeted
  <2>5. Remembers(c)'
    BY <1>3, <2>1, <2>3 DEF Budgeted, Remembers
  <2>6. ASSUME NEW d \in Children \ {c} PROVE Remembers(d)'
    BY <2>1 DEF Budgeted, Remembers
  <2> QED
    BY <2>4, <2>5, <2>6 DEF Budgeted
<1> QED
  BY <1>4, <1>5

(* Time goes by for what was answered as for what is remembered. *)
LEMMA TimeRemembers == Budgeted /\ TimePasses => Budgeted'
<1> SUFFICES ASSUME Budgeted, TimePasses PROVE Budgeted'
    OBVIOUS
<1>1. /\ mode' \in {"tray", "headless"} /\ sentinel' \in BOOLEAN
      /\ DOMAIN recent' = Children /\ DOMAIN answered' = Children
  BY DEF Budgeted, TimePasses
<1>2. due' \in [Children -> Ages]
  BY PolicyAssumption DEF Budgeted, TimePasses, Ages, Never
<1>3. ASSUME NEW c \in Children PROVE Remembers(c)'
  <2>1. /\ recent[c] \in Seq(Ages) /\ OldestFirst(recent[c]) /\ answered[c] = Pruned(recent[c])
        /\ Len(recent[c]) <= MaxRestarts
    BY DEF Budgeted, Remembers
  <2>2. recent'[c] = Aged(recent[c]) /\ answered'[c] = Pruned(Aged(answered[c]))
    BY DEF TimePasses, Aged, InWindow, Pruned
  <2>3. Aged(recent[c]) \in Seq(Ages) /\ OldestFirst(Aged(recent[c]))
        /\ Len(Aged(recent[c])) = Len(recent[c])
    BY <2>1, AgedIs
  <2>4. Pruned(Aged(answered[c])) = Pruned(Aged(recent[c]))
    BY <2>1, PrunedThenAged
  <2> QED
    BY <2>1, <2>2, <2>3, <2>4 DEF Remembers
<1> QED
  BY <1>1, <1>2, <1>3 DEF Budgeted

(* What touches neither the memory nor the delays. *)
LEMMA UntouchedRemembers ==
    ASSUME Budgeted, UNCHANGED <<recent, due, answered, mode>>, sentinel' \in BOOLEAN
    PROVE  Budgeted'
BY DEF Budgeted, Remembers

LEMMA StepRemembers == Budgeted /\ [Next]_vars => Budgeted'
<1> SUFFICES ASSUME Budgeted, [Next]_vars PROVE Budgeted'
    OBVIOUS
<1>0. mode \in {"tray", "headless"} /\ sentinel \in BOOLEAN
  BY DEF Budgeted
<1>1. CASE Launch
  BY <1>1, NewSupervisorForgets DEF Launch
<1>2. CASE StartAllFails \/ LauncherDies \/ Ends
  BY <1>0, <1>2, NewSupervisorForgets DEF StartAllFails, LauncherDies, Ends, Leaves
<1>3. CASE LoopEnds \/ UserQuits \/ StopRequested \/ UNCHANGED vars
  BY <1>0, <1>3, UntouchedRemembers DEF LoopEnds, UserQuits, StopRequested, vars, children
<1>4. CASE StartsNext
  <2>1. Started(Order[place]) /\ UNCHANGED <<mode, sentinel, answered>>
    BY <1>4 DEF StartsNext
  <2>2. CASE Order[place] \in Children
    BY <2>1, <2>2, BecomesRemembers DEF Started
  <2>3. CASE Order[place] \notin Children
    BY <2>1, <2>3 DEF Started, Becomes, Budgeted, Remembers
  <2> QED
    BY <2>2, <2>3
<1>5. CASE StopsNext
  <2>1. Halted(Order[place], "stopped") /\ UNCHANGED <<mode, sentinel, answered>>
    BY <1>5 DEF StopsNext
  <2>2. CASE Order[place] \in Children
    BY <2>1, <2>2, BecomesRemembers DEF Halted
  <2>3. CASE Order[place] \notin Children
    BY <2>1, <2>3 DEF Halted, Becomes, Budgeted, Remembers
  <2> QED
    BY <2>2, <2>3
<1>6. ASSUME NEW c \in Children, NoticesExit(c) \/ Exits(c) \/ Crashes(c) PROVE Budgeted'
  BY <1>0, <1>6, UntouchedRemembers
     DEF NoticesExit, Observes, Exits, Crashes, ProcessEnds
<1>7. ASSUME NEW c \in Children, NoticesCrash(c) PROVE Budgeted'
  BY <1>7, AnswerRemembers DEF NoticesCrash, Observes
<1>8. ASSUME NEW c \in Children, RestartsCrashed(c) \/ Resume(c) \/ Restart(c) PROVE Budgeted'
  BY <1>8, StartRemembers DEF RestartsCrashed, Observes, Resume, Restart, Ordered
<1>9. ASSUME NEW c \in Children, Pause(c) PROVE Budgeted'
  <2>1. CASE state[c] = "running"
    BY <1>9, <2>1, BecomesRemembers DEF Pause, Ordered, Paused, Halted
  <2>2. CASE state[c] # "running"
    BY <1>0, <1>9, <2>2, UntouchedRemembers DEF Pause, Ordered, Paused
  <2> QED
    BY <2>1, <2>2
<1> QED
  BY <1>1, <1>2, <1>3, <1>4, <1>5, <1>6, <1>7, <1>8, <1>9, TimeRemembers DEF Next, Polls

LEMMA Memory == Spec => []Budgeted
BY BudgetBegins, StepRemembers, PTL DEF Spec

(* Every variable of the launcher has its type, and the list of restarts that
   Supervisor keeps for each child never outgrows the budget. *)
THEOREM TypeCorrect == Spec => []TypeOK
<1>1. IInv /\ Budgeted => TypeOK
  BY DEF IInv, Typed, Budgeted, Remembers, TypeOK
<1> QED
  BY <1>1, Supervision, Memory, PTL

(* Whatever is restarted by hand in between, no window of time holds more crashes
   that RestartPolicy has answered than its max_restarts. *)
THEOREM Budget == Spec => []RestartBudget
<1>1. Budgeted => RestartBudget
  <2> SUFFICES ASSUME Budgeted, NEW c \in Children PROVE Len(answered[c]) <= MaxRestarts
    BY DEF RestartBudget
  <2>1. /\ recent[c] \in Seq(Ages) /\ OldestFirst(recent[c])
        /\ Len(recent[c]) <= MaxRestarts /\ answered[c] = Pruned(recent[c])
    BY DEF Budgeted, Remembers
  <2>2. YoungFrom(recent[c]) \in 1 .. Len(recent[c]) + 1 /\ Len(recent[c]) \in Nat
    BY <2>1, YoungBegins
  <2>3. Len(Pruned(recent[c])) = Len(recent[c]) - YoungFrom(recent[c]) + 1
    BY <2>1, PrunedIs
  <2> QED
    BY <2>1, <2>2, <2>3, PolicyAssumption
<1> QED
  BY <1>1, Memory, PTL

=============================================================================
