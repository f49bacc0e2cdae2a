--------------------------- MODULE RecoveryProofs ---------------------------
(***************************************************************************)
(* Proofs about the scheduling core one write at a time, for any number of *)
(* Recommendations, Events and Disturbers and any number of mishaps.       *)
(*                                                                         *)
(* What makes the store bootable after any write is a fact about single    *)
(* steps: Runtime State never has two Events running, and an operation     *)
(* that makes one run lets go of another only in the step that stores it.  *)
(* So what runs in the store and what runs in Runtime State is one Event.  *)
(*                                                                         *)
(* From the same invariant follows the order in which the store changes:   *)
(* nothing in it goes back, and it passes the execution slot on as         *)
(* ExecutionSlot has it, one write at a time.                              *)
(***************************************************************************)
EXTENDS Recovery, FiniteSetTheorems, WellFoundedInduction, SequenceTheorems, TLAPS

Names(f) ==
    IF f \in {"event", "window"} THEN Events
    ELSE IF f = "rec" THEN Recommendations ELSE Disturbers

Stores ==
    [event : [Events -> EventStatus \cup {Absent}],
     window : [Events -> WindowStatus \cup {Absent}],
     rec : [Recommendations -> RecommendationStatus \cup {Absent}],
     disturber : [Disturbers -> DisturberStatus \cup {Absent}]]

States ==
    [event : [Events -> EventStatus \cup {Absent}],
     window : [Events -> WindowStatus \cup {Absent}],
     rec : [Recommendations -> RecommendationStatus \cup {Absent}],
     disturber : [Disturbers -> DisturberStatus \cup {Absent}],
     context : Events \cup {Idle}, scheduling : BOOLEAN]

WriteSet ==
    [mem : States, file : Files \cup {"none", "error"},
     of : Events \cup Recommendations \cup Disturbers \cup {Absent}, new : BOOLEAN]

(* An Event that runs, and a window that is open, exclude all others. *)
Hot(f, v) ==
    \/ f = "event" /\ v \in RunningStates
    \/ f = "window" /\ v = "Active"

Exclusive(d) ==
    \A f \in {"event", "window"} : \A e1, e2 \in Events :
        Hot(f, d[f][e1]) /\ Hot(f, d[f][e2]) => e1 = e2

(* A window belongs to an Event that is there. *)
Owned(d) == \A e \in Events : d.window[e] # Absent => d.event[e] # Absent

(* What a write puts where. *)
StoresAt(w, f, x) == w.file = f /\ w.of = x

Value(w) == w.mem[w.file][w.of]

(* Runtime State before the i-th write of an operation that begins in m. *)
Before(m, ws, i) == IF i = 1 THEN m ELSE ws[i - 1].mem

-----------------------------------------------------------------------------
(* A step from n: it stores something, Runtime State is exclusive, no window is
   without its Event, and what was consumed stays so. *)
StepOK(n, w) ==
    /\ w.file \in Files => w.of \in Names(w.file) /\ Value(w) # Absent
    /\ Exclusive(w.mem)
    /\ Owned(n) => Owned(w.mem)
    /\ \A r \in Recommendations : n.rec[r] = "Consumed" => w.mem.rec[r] = "Consumed"

AllSteps(m, ws) ==
    /\ ws \in Seq(WriteSet)
    /\ \A i \in DOMAIN ws : StepOK(Before(m, ws, i), ws[i])

(* What an operation lets go of it stores in the same step. *)
Prompt(m, ws) ==
    \A i \in DOMAIN ws : \A f \in {"event", "window"}, e \in Events :
        Hot(f, Before(m, ws, i)[f][e]) /\ ~Hot(f, ws[i].mem[f][e]) => StoresAt(ws[i], f, e)

(* An operation makes nothing run and opens no window. *)
Quiet(m, ws) ==
    \A i \in DOMAIN ws : \A f \in {"event", "window"}, e \in Events :
        Hot(f, ws[i].mem[f][e]) => Hot(f, Before(m, ws, i)[f][e])

(* What an operation changes it stores, then or later, but for what it owes. *)
Covered(m, ws, owed) ==
    \A i \in DOMAIN ws : \A f \in Files : \A x \in Names(f) :
        \/ ws[i].mem[f][x] = Before(m, ws, i)[f][x]
        \/ \E j \in DOMAIN ws : j >= i /\ StoresAt(ws[j], f, x)
        \/ <<f, x>> \in owed

(* A window is new only after its Event. *)
EventFirst(ws) ==
    \A i \in DOMAIN ws : \A e \in Events :
        StoresAt(ws[i], "window", e) /\ ws[i].new =>
            \E j \in DOMAIN ws : j < i /\ StoresAt(ws[j], "event", e)

NewCopy(w, r) ==
    w.file = "event" /\ w.new /\ \E k \in 1 .. MaxCopies : w.of = <<r, k>>

Settles(w, r) == StoresAt(w, "rec", r) /\ Value(w) = "Consumed"

(* A copy of the Event of r is admitted in the writes before the i-th. *)
AdmittedBefore(ws, i, r, k) ==
    \A f \in {"event", "window"} : \E j \in DOMAIN ws : j < i /\ StoresAt(ws[j], f, <<r, k>>)

(* Consumed is stored only after a copy. *)
CopyFirst(ws) ==
    \A i \in DOMAIN ws : \A r \in Recommendations :
        Settles(ws[i], r) => \E k \in 1 .. MaxCopies : AdmittedBefore(ws, i, r, k)

(* There is one copy at most, of what was not consumed, and Consumed is stored after it. *)
OneCopy(m, ws) ==
    \A i \in DOMAIN ws : \A r \in Recommendations :
        NewCopy(ws[i], r) =>
            /\ m.rec[r] # "Consumed"
            /\ \E j \in DOMAIN ws : j > i /\ Settles(ws[j], r)
            /\ \A j \in DOMAIN ws : NewCopy(ws[j], r) => j = i

(* What every operation is, when it begins. *)
Sound(m, ws) ==
    /\ AllSteps(m, ws)
    /\ Prompt(m, ws) \/ Quiet(m, ws)
    /\ ~Raising(ws) => Covered(m, ws, {})
    /\ EventFirst(ws)
    /\ CopyFirst(ws)
    /\ OneCopy(m, ws)

-----------------------------------------------------------------------------
Typed ==
    /\ mem \in States /\ disk \in Stores
    /\ todo \in Seq(WriteSet)
    /\ up \in BOOLEAN /\ ahead \in BOOLEAN
    /\ cut \in SUBSET Recommendations

HasCopy(r, k) == disk.event[<<r, k>>] # Absent /\ disk.window[<<r, k>>] # Absent

(* What runs in the store runs in Runtime State. *)
StoreFollows ==
    \A f \in {"event", "window"}, e \in Events : Hot(f, disk[f][e]) => Hot(f, mem[f][e])

(* What runs in either is one Event. *)
Together ==
    \A f \in {"event", "window"}, e1, e2 \in Events :
        /\ Hot(f, disk[f][e1]) \/ Hot(f, mem[f][e1])
        /\ Hot(f, disk[f][e2]) \/ Hot(f, mem[f][e2])
        => e1 = e2

NothingForgotten ==
    /\ \A f \in Files : \A x \in Names(f) :
          \/ mem[f][x] = disk[f][x]
          \/ \E j \in DOMAIN todo : StoresAt(todo[j], f, x)
    /\ Covered(mem, todo, {})

WindowsOwned ==
    /\ Owned(mem) /\ Owned(disk)
    /\ \A i \in DOMAIN todo : \A e \in Events :
          StoresAt(todo[i], "window", e) /\ todo[i].new =>
              \/ disk.event[e] # Absent
              \/ \E j \in DOMAIN todo : j < i /\ StoresAt(todo[j], "event", e)

CopiesKept ==
    /\ ConsumedBecameEvent
    /\ \A i \in DOMAIN todo : \A r \in Recommendations :
          Settles(todo[i], r) =>
              \E k \in 1 .. MaxCopies : \A f \in {"event", "window"} :
                  \/ disk[f][<<r, k>>] # Absent
                  \/ \E j \in DOMAIN todo : j < i /\ StoresAt(todo[j], f, <<r, k>>)

StoredCopy(r, k) == disk.event[<<r, k>>] # Absent

SingleCopy(r) ==
    /\ \A k, l \in 1 .. MaxCopies : StoredCopy(r, k) /\ StoredCopy(r, l) => k = l
    /\ (\E k \in 1 .. MaxCopies : StoredCopy(r, k)) =>
          disk.rec[r] = "Consumed" \/ \E i \in DOMAIN todo : Settles(todo[i], r)
    /\ \A i \in DOMAIN todo : NewCopy(todo[i], r) =>
          /\ \A k \in 1 .. MaxCopies : ~StoredCopy(r, k)
          /\ \E j \in DOMAIN todo : j > i /\ Settles(todo[j], r)
          /\ \A j \in DOMAIN todo : NewCopy(todo[j], r) => j = i

ConsumedKnown ==
    \A r \in Recommendations : disk.rec[r] = "Consumed" => mem.rec[r] = "Consumed"

IInv ==
    /\ Typed
    /\ ~up => todo = <<>> /\ ahead
    /\ up => Exclusive(mem)
    /\ AllSteps(mem, todo)
    /\ ~ahead => Together /\ ((StoreFollows /\ Prompt(mem, todo)) \/ Quiet(mem, todo))
    /\ ~ahead /\ ~Raising(todo) => NothingForgotten
    /\ WindowsOwned
    /\ CopiesKept
    /\ ConsumedKnown
    /\ \A r \in Recommendations \ cut : SingleCopy(r)

-----------------------------------------------------------------------------
(***************************************************************************)
(* Sequences, sets and numbers.                                            *)
(***************************************************************************)

LEMMA SeqFacts ==
    ASSUME NEW S, NEW s \in Seq(S)
    PROVE  /\ Len(s) \in Nat /\ DOMAIN s = 1 .. Len(s)
           /\ \A i \in DOMAIN s : s[i] \in S
           /\ s # <<>> <=> Len(s) # 0
OBVIOUS

(* What is left of the writes when the first has been made. *)
LEMMA TailFacts ==
    ASSUME NEW S, NEW ws \in Seq(S), ws # <<>>
    PROVE  /\ Len(ws) \in Nat \ {0} /\ Head(ws) = ws[1] /\ 1 \in DOMAIN ws
           /\ Tail(ws) \in Seq(S) /\ Len(Tail(ws)) = Len(ws) - 1
           /\ DOMAIN Tail(ws) = 1 .. Len(ws) - 1
           /\ \A i \in DOMAIN Tail(ws) : i + 1 \in DOMAIN ws /\ Tail(ws)[i] = ws[i + 1]
           /\ \A i \in DOMAIN ws : i = 1 \/ (i - 1 \in DOMAIN Tail(ws) /\ Tail(ws)[i - 1] = ws[i])
<1>1. /\ Len(ws) \in Nat \ {0} /\ Head(ws) = ws[1] /\ DOMAIN ws = 1 .. Len(ws)
      /\ Tail(ws) \in Seq(S) /\ Len(Tail(ws)) = Len(ws) - 1
      /\ DOMAIN Tail(ws) = 1 .. Len(ws) - 1
  OBVIOUS
<1>2. \A i \in 1 .. Len(ws) - 1 : Tail(ws)[i] = ws[i + 1]
  OBVIOUS
<1>3. \A i \in 1 .. Len(ws) : i = 1 \/ (i - 1 \in 1 .. Len(ws) - 1 /\ (i - 1) + 1 = i)
  BY <1>1
<1>4. ASSUME NEW i \in DOMAIN ws
      PROVE  i = 1 \/ (i - 1 \in DOMAIN Tail(ws) /\ Tail(ws)[i - 1] = ws[i])
  <2>1. CASE i = 1
    BY <2>1
  <2>2. CASE i - 1 \in 1 .. Len(ws) - 1 /\ (i - 1) + 1 = i
    <3>1. Tail(ws)[i - 1] = ws[(i - 1) + 1]
      BY <1>2, <2>2
    <3> QED
      BY <1>1, <2>2, <3>1
  <2> QED
    BY <1>1, <1>3, <2>1, <2>2
<1> QED
  BY <1>1, <1>2, <1>4

(* Writes one after the other. *)
LEMMA ConcatFacts ==
    ASSUME NEW S, NEW s \in Seq(S), NEW t \in Seq(S)
    PROVE  /\ s \o t \in Seq(S) /\ Len(s) \in Nat /\ Len(t) \in Nat
           /\ Len(s \o t) = Len(s) + Len(t)
           /\ DOMAIN s = 1 .. Len(s) /\ DOMAIN t = 1 .. Len(t)
           /\ DOMAIN (s \o t) = 1 .. Len(s) + Len(t)
           /\ \A i \in DOMAIN s : (s \o t)[i] = s[i]
           /\ \A i \in DOMAIN t : (s \o t)[Len(s) + i] = t[i]
OBVIOUS

(* The place of an element of a concatenation. *)
LEMMA ConcatCases ==
    ASSUME NEW S, NEW s \in Seq(S), NEW t \in Seq(S), NEW i \in DOMAIN (s \o t)
    PROVE  \/ i \in DOMAIN s /\ (s \o t)[i] = s[i]
           \/ \E j \in DOMAIN t : i = Len(s) + j /\ (s \o t)[i] = t[j]
<1>1. /\ Len(s) \in Nat /\ Len(t) \in Nat
      /\ DOMAIN s = 1 .. Len(s) /\ DOMAIN t = 1 .. Len(t)
      /\ DOMAIN (s \o t) = 1 .. Len(s) + Len(t)
      /\ \A j \in DOMAIN s : (s \o t)[j] = s[j]
      /\ \A j \in DOMAIN t : (s \o t)[Len(s) + j] = t[j]
  BY ConcatFacts
<1>2. CASE i <= Len(s)
  BY <1>1, <1>2
<1>3. CASE i > Len(s)
  <2>1. i - Len(s) \in DOMAIN t /\ i = Len(s) + (i - Len(s))
    BY <1>1, <1>3
  <2> QED
    BY <1>1, <2>1
<1> QED
  BY <1>1, <1>2, <1>3

LEMMA TwoWrites ==
    ASSUME NEW v, NEW w
    PROVE  LET s == <<v>> \o <<w>> IN
           s = <<v, w>> /\ DOMAIN s = {1, 2} /\ s[1] = v /\ s[2] = w
<1>1. /\ <<v>> \in Seq({v, w}) /\ Len(<<v>>) = 1 /\ DOMAIN <<v>> = {1} /\ <<v>>[1] = v
      /\ <<w>> \in Seq({v, w}) /\ Len(<<w>>) = 1 /\ DOMAIN <<w>> = {1} /\ <<w>>[1] = w
  OBVIOUS
<1> DEFINE s == <<v>> \o <<w>>
<1>2. /\ DOMAIN s = 1 .. Len(<<v>>) + Len(<<w>>)
      /\ s \in Seq({v, w}) /\ Len(s) = Len(<<v>>) + Len(<<w>>)
      /\ s[1] = v /\ s[Len(<<v>>) + 1] = w
  BY <1>1, ConcatFacts
<1>3. 1 .. 1 + 1 = {1, 2} /\ 1 + 1 = 2
  OBVIOUS
<1> HIDE DEF s
<1>4. DOMAIN s = {1, 2} /\ s[1] = v /\ s[2] = w
  BY <1>1, <1>2, <1>3
<1>5. s = <<v, w>>
  <2>1. <<v, w>> \in Seq({v, w}) /\ Len(<<v, w>>) = 2
    OBVIOUS
  <2>2. \A i \in 1 .. Len(s) : s[i] = <<v, w>>[i]
    BY <1>1, <1>2, <1>3, <1>4
  <2> QED
    BY <1>1, <1>2, <1>3, <2>1, <2>2, SeqEqual
<1> QED
  BY <1>4, <1>5 DEF s

(* A set of numbers that is not empty has a least one. *)
LEMMA Least ==
    ASSUME NEW T \in SUBSET Nat, T # {}
    PROVE  Min(T) \in T
<1>1. IsWellFoundedOn(OpToRel(<, Nat), Nat)
  BY NatLessThanWellFounded
<1>2. PICK n \in T : \A m \in T : ~(<<m, n>> \in OpToRel(<, Nat))
  BY <1>1, WFMin
<1>3. \A m \in T : m \in Nat /\ n \in Nat /\ ~(m < n)
  BY <1>2 DEF OpToRel
<1>4. n \in T /\ \A m \in T : n <= m
  BY <1>3
<1> QED
  BY <1>4 DEF Min

(* A finite set as a sequence has each element once. *)
LEMMA SetAsSeq ==
    ASSUME NEW S, IsFiniteSet(S)
    PROVE  /\ SetToSeq(S) \in Seq(S) /\ Len(SetToSeq(S)) \in Nat
           /\ DOMAIN SetToSeq(S) = 1 .. Len(SetToSeq(S))
           /\ \A i \in DOMAIN SetToSeq(S) : SetToSeq(S)[i] \in S
           /\ \A i, j \in DOMAIN SetToSeq(S) : SetToSeq(S)[i] = SetToSeq(S)[j] => i = j
           /\ \A x \in S : \E i \in DOMAIN SetToSeq(S) : SetToSeq(S)[i] = x
           /\ Len(SetToSeq(S)) = Cardinality(S)
<1> DEFINE n == Cardinality(S)
<1>1. n \in Nat /\ ExistsBijection(1 .. n, S)
  BY FS_CardinalityType
<1>2. PICK b \in Bijection(1 .. n, S) : TRUE
  BY <1>1 DEF ExistsBijection
<1>3. b \in [1 .. n -> S] /\ IsInjective(b)
  BY <1>2 DEF Bijection, Injection, IsInjective
<1>4. SetToSeq(S) \in [1 .. n -> S] /\ IsInjective(SetToSeq(S))
  BY <1>3 DEF SetToSeq
<1> DEFINE q == SetToSeq(S)
<1> HIDE DEF q
<1>5. q \in Injection(1 .. n, S)
  BY <1>4 DEF Injection, IsInjective, q
<1>6. Cardinality(1 .. n) = n /\ IsFiniteSet(1 .. n)
  BY <1>1, FS_Interval
<1>7. q \in Surjection(1 .. n, S)
  BY <1>5, <1>6, FS_Injection
<1>8. \A x \in S : \E i \in 1 .. n : q[i] = x
  BY <1>7 DEF Surjection
<1>9. q \in Seq(S) /\ Len(q) = n /\ DOMAIN q = 1 .. n
  BY <1>1, <1>4 DEF q
<1>10. /\ \A i \in 1 .. n : q[i] \in S
       /\ \A i, j \in 1 .. n : q[i] = q[j] => i = j
  BY <1>4 DEF IsInjective, q
<1> QED
  BY <1>1, <1>8, <1>9, <1>10 DEF q

-----------------------------------------------------------------------------
(***************************************************************************)
(* A write is made.                                                        *)
(***************************************************************************)

Patch(d, w) == [d EXCEPT ![w.file][w.of] = w.mem[w.file][w.of]]

LEMMA Patched ==
    ASSUME NEW d \in Stores, NEW w \in WriteSet, w.file \in Files, w.of \in Names(w.file)
    PROVE  /\ Patch(d, w) \in Stores
           /\ \A f \in Files : \A x \in Names(f) :
                 Patch(d, w)[f][x] = IF StoresAt(w, f, x) THEN w.mem[f][x] ELSE d[f][x]
<1> USE DEF Patch, Stores, WriteSet, States, Names, StoresAt, Files
<1>1. CASE w.file = "event"
  BY <1>1
<1>2. CASE w.file = "window"
  BY <1>2
<1>3. CASE w.file = "rec"
  BY <1>3
<1>4. CASE w.file = "disturber"
  BY <1>4
<1> QED
  BY <1>1, <1>2, <1>3, <1>4

(* Of the writes that are left the first was the second. *)
LEMMA Shifted ==
    ASSUME NEW m, NEW ws \in Seq(WriteSet), ws # <<>>, NEW i \in DOMAIN Tail(ws)
    PROVE  /\ i + 1 \in DOMAIN ws /\ Tail(ws)[i] = ws[i + 1]
           /\ Before(Head(ws).mem, Tail(ws), i) = Before(m, ws, i + 1)
<1>1. /\ i \in Nat \ {0} /\ i + 1 \in DOMAIN ws /\ Tail(ws)[i] = ws[i + 1]
      /\ Head(ws) = ws[1]
  BY TailFacts
<1>2. CASE i = 1
  BY <1>1, <1>2 DEF Before
<1>3. CASE i # 1
  <2>1. i - 1 \in DOMAIN Tail(ws) /\ (i - 1) + 1 = i /\ i + 1 # 1 /\ (i + 1) - 1 = i
    BY <1>1, <1>3, TailFacts
  <2>2. Tail(ws)[i - 1] = ws[i]
    BY <2>1, TailFacts
  <2> QED
    BY <1>1, <1>3, <2>1, <2>2 DEF Before
<1> QED
  BY <1>1, <1>2, <1>3

(* What holds of all steps holds of those that are left. *)
LEMMA TailKeeps ==
    ASSUME NEW m, NEW ws, AllSteps(m, ws), ws # <<>>
    PROVE  /\ AllSteps(Head(ws).mem, Tail(ws))
           /\ Prompt(m, ws) => Prompt(Head(ws).mem, Tail(ws))
           /\ Quiet(m, ws) => Quiet(Head(ws).mem, Tail(ws))
           /\ Covered(m, ws, {}) => Covered(Head(ws).mem, Tail(ws), {})
<1>0. ws \in Seq(WriteSet)
  BY DEF AllSteps
<1>1. \A i \in DOMAIN Tail(ws) :
          /\ i + 1 \in DOMAIN ws /\ Tail(ws)[i] = ws[i + 1]
          /\ Before(Head(ws).mem, Tail(ws), i) = Before(m, ws, i + 1)
  BY <1>0, Shifted
<1>2. Tail(ws) \in Seq(WriteSet) /\ DOMAIN Tail(ws) \in SUBSET Nat
  BY <1>0, TailFacts
<1>3. AllSteps(Head(ws).mem, Tail(ws))
  BY <1>1, <1>2 DEF AllSteps
<1>4. Prompt(m, ws) => Prompt(Head(ws).mem, Tail(ws))
  BY <1>1 DEF Prompt
<1>5. Quiet(m, ws) => Quiet(Head(ws).mem, Tail(ws))
  BY <1>1 DEF Quiet
<1>6. ASSUME Covered(m, ws, {}), NEW i \in DOMAIN Tail(ws), NEW f \in Files, NEW x \in Names(f),
             Tail(ws)[i].mem[f][x] # Before(Head(ws).mem, Tail(ws), i)[f][x]
      PROVE  \E j \in DOMAIN Tail(ws) : j >= i /\ StoresAt(Tail(ws)[j], f, x)
  <2>1. PICK j \in DOMAIN ws : j >= i + 1 /\ StoresAt(ws[j], f, x)
    BY <1>1, <1>6 DEF Covered
  <2>2. j \in Nat /\ i \in Nat /\ i >= 1
    BY <1>0, TailFacts, SeqFacts
  <2>3. j - 1 \in DOMAIN Tail(ws) /\ Tail(ws)[j - 1] = ws[j] /\ j - 1 >= i
    BY <1>0, <2>1, <2>2, TailFacts
  <2> QED
    BY <2>1, <2>3
<1>7. Covered(m, ws, {}) => Covered(Head(ws).mem, Tail(ws), {})
  BY <1>6 DEF Covered
<1> QED
  BY <1>3, <1>4, <1>5, <1>7

LEMMA WritesKeep == IInv /\ Writes => IInv'
<1> SUFFICES ASSUME IInv, Writes PROVE IInv'
    OBVIOUS
<1> DEFINE w == Head(todo)
<1>0. /\ mem \in States /\ disk \in Stores /\ todo \in Seq(WriteSet)
      /\ up \in BOOLEAN /\ ahead \in BOOLEAN /\ cut \in SUBSET Recommendations
      /\ todo # <<>> /\ AllSteps(mem, todo)
  BY DEF IInv, Typed, Writes
<1>1. /\ mem' = w.mem /\ todo' = Tail(todo) /\ Storable(w)
      /\ UNCHANGED <<up, ahead, cut>>
      /\ disk' = IF w.file = "none" THEN disk
                 ELSE [disk EXCEPT ![w.file][w.of] = w.mem[w.file][w.of]]
  BY DEF Writes
<1>2. w = todo[1] /\ 1 \in DOMAIN todo /\ w \in WriteSet /\ StepOK(mem, w)
  <2>1. w = todo[1] /\ 1 \in DOMAIN todo
    BY <1>0, TailFacts
  <2>2. StepOK(Before(mem, todo, 1), todo[1]) /\ todo[1] \in WriteSet
    BY <1>0, <2>1, SeqFacts DEF AllSteps
  <2> QED
    BY <2>1, <2>2 DEF Before
<1>3. /\ \A i \in DOMAIN todo' : i + 1 \in DOMAIN todo /\ todo'[i] = todo[i + 1]
      /\ \A i \in DOMAIN todo :
            i = 1 \/ (i - 1 \in DOMAIN todo' /\ todo'[i - 1] = todo[i])
      /\ todo' \in Seq(WriteSet)
      /\ DOMAIN todo' \in SUBSET Nat /\ DOMAIN todo \in SUBSET Nat
  BY <1>0, <1>1, TailFacts, SeqFacts
<1> HIDE DEF w
<1>4. /\ w.mem \in States /\ Exclusive(w.mem) /\ (Owned(mem) => Owned(w.mem))
      /\ \A r \in Recommendations : mem.rec[r] = "Consumed" => w.mem.rec[r] = "Consumed"
      /\ w.file \in Files => w.of \in Names(w.file) /\ Value(w) # Absent
      /\ w.file = "none" \/ w.file \in Files
  BY <1>1, <1>2 DEF WriteSet, StepOK, Storable
<1>5. /\ disk' \in Stores
      /\ \A f \in Files : \A x \in Names(f) :
            disk'[f][x] = IF StoresAt(w, f, x) THEN w.mem[f][x] ELSE disk[f][x]
  <2>1. CASE w.file = "none"
    BY <1>0, <1>1, <2>1 DEF StoresAt, Files
  <2>2. CASE w.file # "none"
    <3>1. w.file \in Files /\ w.of \in Names(w.file)
      BY <1>4, <2>2
    <3>2. disk' = Patch(disk, w)
      BY <1>1, <2>2 DEF Patch
    <3>3. disk \in Stores /\ w \in WriteSet
      BY <1>0, <1>2
    <3> QED
      BY <3>1, <3>2, <3>3, Patched
  <2> QED
    BY <2>1, <2>2
<1>6. Typed'
  BY <1>0, <1>1, <1>4, <1>5, <1>3 DEF Typed
<1>7. up /\ (~up' => todo' = <<>> /\ ahead')
  BY <1>0, <1>1 DEF IInv
<1>8. (up => Exclusive(mem))'
  BY <1>1, <1>4 DEF Exclusive
<1>9. /\ AllSteps(mem, todo)'
      /\ Prompt(mem, todo) => Prompt(mem, todo)'
      /\ Quiet(mem, todo) => Quiet(mem, todo)'
      /\ Covered(mem, todo, {}) => Covered(mem, todo, {})'
  <2>1. /\ AllSteps(mem', todo')
        /\ Prompt(mem, todo) => Prompt(mem', todo')
        /\ Quiet(mem, todo) => Quiet(mem', todo')
        /\ Covered(mem, todo, {}) => Covered(mem', todo', {})
    BY <1>0, <1>1, TailKeeps DEF w
  <2> QED
    BY <2>1 DEF AllSteps, Prompt, Quiet, Covered, StepOK, Before, Exclusive, Owned, Value,
                StoresAt
<1>10. (~ahead => Together /\ ((StoreFollows /\ Prompt(mem, todo)) \/ Quiet(mem, todo)))'
  <2> SUFFICES ASSUME ~ahead
               PROVE  (Together /\ ((StoreFollows /\ Prompt(mem, todo)) \/ Quiet(mem, todo)))'
    BY <1>1
  <2>0. /\ \A f \in {"event", "window"} : f \in Files /\ Names(f) = Events
        /\ Before(mem, todo, 1) = mem
    BY DEF Files, Names, Before
  <2>1. CASE StoreFollows /\ Prompt(mem, todo)
    <3>1. StoreFollows'
      BY <1>1, <1>2, <1>5, <2>0, <2>1 DEF StoreFollows, Prompt
    <3>2. Together'
      BY <1>1, <1>4, <3>1 DEF Together, StoreFollows, Exclusive
    <3> QED
      BY <1>9, <2>1, <3>1, <3>2
  <2>2. CASE Quiet(mem, todo)
    <3>1. \A f \in {"event", "window"}, e \in Events :
              /\ Hot(f, mem'[f][e]) => Hot(f, mem[f][e])
              /\ Hot(f, disk'[f][e]) => Hot(f, mem[f][e]) \/ Hot(f, disk[f][e])
      BY <1>1, <1>2, <1>5, <2>0, <2>2 DEF Quiet
    <3>2. Together
      BY DEF IInv
    <3>3. Together'
      BY <3>1, <3>2 DEF Together
    <3> QED
      BY <1>9, <2>2, <3>3
  <2> QED
    BY <2>1, <2>2 DEF IInv
<1>11. (~ahead /\ ~Raising(todo) => NothingForgotten)'
  <2> SUFFICES ASSUME ~ahead, ~Raising(todo') PROVE NothingForgotten'
    BY <1>1 DEF Raising
  <2>1. ~Raising(todo)
    <3>1. /\ Len(todo) \in Nat \ {0} /\ Len(todo') = Len(todo) - 1
          /\ todo' # <<>> <=> Len(todo') # 0
      BY <1>0, <1>1, <1>3, TailFacts, SeqFacts
    <3>2. CASE Len(todo) = 1
      BY <1>2, <1>4, <3>2 DEF Raising, Last, Files
    <3>3. CASE Len(todo) # 1
      <4>1. Len(todo') \in DOMAIN todo' /\ Len(todo') + 1 = Len(todo) /\ todo' # <<>>
        BY <1>0, <1>1, <3>1, <3>3, TailFacts
      <4>2. Last(todo') = Last(todo)
        BY <1>3, <4>1 DEF Last
      <4> QED
        BY <4>1, <4>2 DEF Raising
    <3> QED
      BY <3>2, <3>3
  <2>2. NothingForgotten
    BY <2>1 DEF IInv
  <2>3. ASSUME NEW f \in Files, NEW x \in Names(f), mem'[f][x] # disk'[f][x]
        PROVE  \E j \in DOMAIN todo' : StoresAt(todo'[j], f, x)
    <3>1. ~StoresAt(w, f, x) /\ disk'[f][x] = disk[f][x] /\ w.mem[f][x] # disk[f][x]
      BY <1>1, <1>5, <2>3
    <3>2. PICK j \in DOMAIN todo : StoresAt(todo[j], f, x)
      <4>1. CASE w.mem[f][x] = mem[f][x]
        BY <2>2, <3>1, <4>1 DEF NothingForgotten
      <4>2. CASE w.mem[f][x] # mem[f][x]
        BY <1>2, <2>2, <4>2 DEF NothingForgotten, Covered, Before
      <4> QED
        BY <4>1, <4>2
    <3>3. j # 1
      BY <1>2, <3>1, <3>2
    <3> QED
      BY <1>3, <3>2, <3>3
  <2>4. Covered(mem, todo, {})'
    BY <1>9, <2>2 DEF NothingForgotten
  <2> QED
    BY <2>3, <2>4 DEF NothingForgotten
<1>12. ConsumedKnown'
  BY <1>1, <1>4, <1>5 DEF ConsumedKnown, IInv, StoresAt, Files, Names
<1>13. \A f \in {"event", "window"} : \A e \in Events :
           /\ disk[f][e] # Absent => disk'[f][e] # Absent
           /\ StoresAt(w, f, e) => disk'[f][e] # Absent
  BY <1>4, <1>5 DEF StoresAt, Files, Names, Value
<1>14. \A r \in Recommendations :
           disk'.rec[r] = IF StoresAt(w, "rec", r) THEN w.mem.rec[r] ELSE disk.rec[r]
  BY <1>5 DEF Files, Names
<1>15. \A r \in Recommendations, k \in 1 .. MaxCopies : <<r, k>> \in Events
  BY DEF Events
<1>16. CopiesKept'
  <2>1. ASSUME NEW r \in Recommendations, disk'.rec[r] = "Consumed"
        PROVE  \E k \in 1 .. MaxCopies :
                   disk'.event[<<r, k>>] # Absent /\ disk'.window[<<r, k>>] # Absent
    <3>1. CASE disk.rec[r] = "Consumed"
      <4>1. PICK k \in 1 .. MaxCopies :
                disk.event[<<r, k>>] # Absent /\ disk.window[<<r, k>>] # Absent
        BY <3>1 DEF IInv, CopiesKept, ConsumedBecameEvent
      <4> QED
        BY <1>13, <1>15, <4>1
    <3>2. CASE disk.rec[r] # "Consumed"
      <4>1. Settles(todo[1], r)
        BY <1>2, <1>14, <2>1, <3>2 DEF Settles, Value, StoresAt
      <4>2. PICK k \in 1 .. MaxCopies : \A f \in {"event", "window"} :
                \/ disk[f][<<r, k>>] # Absent
                \/ \E j \in DOMAIN todo : j < 1 /\ StoresAt(todo[j], f, <<r, k>>)
        BY <1>2, <4>1 DEF IInv, CopiesKept
      <4>3. \A j \in DOMAIN todo : ~(j < 1)
        BY <1>0, SeqFacts
      <4>4. disk["event"][<<r, k>>] # Absent /\ disk["window"][<<r, k>>] # Absent
        BY <4>2, <4>3
      <4> QED
        BY <1>13, <1>15, <4>4
    <3> QED
      BY <3>1, <3>2
  <2>2. ASSUME NEW i \in DOMAIN todo', NEW r \in Recommendations, Settles(todo'[i], r)
        PROVE  \E k \in 1 .. MaxCopies : \A f \in {"event", "window"} :
                  \/ disk'[f][<<r, k>>] # Absent
                  \/ \E j \in DOMAIN todo' : j < i /\ StoresAt(todo'[j], f, <<r, k>>)
    <3>1. i \in Nat /\ i + 1 \in DOMAIN todo /\ Settles(todo[i + 1], r)
      BY <1>3, <2>2
    <3>2. PICK k \in 1 .. MaxCopies : \A f \in {"event", "window"} :
              \/ disk[f][<<r, k>>] # Absent
              \/ \E j \in DOMAIN todo : j < i + 1 /\ StoresAt(todo[j], f, <<r, k>>)
      BY <3>1 DEF IInv, CopiesKept
    <3>3. ASSUME NEW f \in {"event", "window"}
          PROVE  \/ disk'[f][<<r, k>>] # Absent
                 \/ \E j \in DOMAIN todo' : j < i /\ StoresAt(todo'[j], f, <<r, k>>)
      <4>1. CASE disk[f][<<r, k>>] # Absent
        BY <1>13, <1>15, <4>1
      <4>2. ASSUME NEW j \in DOMAIN todo, j < i + 1, StoresAt(todo[j], f, <<r, k>>)
            PROVE  \/ disk'[f][<<r, k>>] # Absent
                   \/ \E l \in DOMAIN todo' : l < i /\ StoresAt(todo'[l], f, <<r, k>>)
        <5>1. CASE j = 1
          BY <1>2, <1>13, <1>15, <4>2, <5>1
        <5>2. CASE j # 1
          <6>1. j \in Nat /\ j - 1 \in DOMAIN todo' /\ todo'[j - 1] = todo[j] /\ j - 1 < i
            BY <1>3, <3>1, <4>2, <5>2
          <6> QED
            BY <4>2, <6>1
        <5> QED
          BY <5>1, <5>2
      <4> QED
        BY <3>2, <4>1, <4>2
    <3> QED
      BY <3>3
  <2> QED
    BY <2>1, <2>2 DEF CopiesKept, ConsumedBecameEvent, Settles, Value, StoresAt
<1>17. ASSUME NEW r \in Recommendations \ cut' PROVE SingleCopy(r)'
  <2>0. SingleCopy(r)
    BY <1>1, <1>17 DEF IInv
  <2>1. \A k \in 1 .. MaxCopies : StoredCopy(r, k)' =>
            StoredCopy(r, k) \/ (NewCopy(w, r) /\ w.of = <<r, k>>)
    <3> SUFFICES ASSUME NEW k \in 1 .. MaxCopies, disk'.event[<<r, k>>] # Absent,
                        disk.event[<<r, k>>] = Absent
                 PROVE  NewCopy(w, r) /\ w.of = <<r, k>>
      BY DEF StoredCopy
    <3>1. StoresAt(w, "event", <<r, k>>)
      BY <1>5, <1>15 DEF Files, Names
    <3>2. w.new
      BY <1>1, <3>1 DEF Storable, StoresAt, Files, w
    <3> QED
      BY <3>1, <3>2 DEF NewCopy, StoresAt
  <2>2. NewCopy(w, r) => \A k \in 1 .. MaxCopies : ~StoredCopy(r, k)
    BY <1>2, <2>0 DEF SingleCopy
  <2>3. \A k, l \in 1 .. MaxCopies : StoredCopy(r, k)' /\ StoredCopy(r, l)' => k = l
    BY <2>0, <2>1, <2>2 DEF SingleCopy
  <2>4. ASSUME NEW i \in DOMAIN todo, Settles(todo[i], r)
        PROVE  disk'.rec[r] = "Consumed" \/ \E j \in DOMAIN todo' : Settles(todo'[j], r)
    <3>1. CASE i = 1
      BY <1>2, <1>14, <2>4, <3>1 DEF Settles, Value, StoresAt
    <3>2. CASE i # 1
      BY <1>3, <2>4, <3>2
    <3> QED
      BY <3>1, <3>2
  <2>5. disk.rec[r] = "Consumed" => disk'.rec[r] = "Consumed"
    BY <1>4, <1>14 DEF IInv, ConsumedKnown
  <2>6. (\E k \in 1 .. MaxCopies : StoredCopy(r, k)') =>
            disk'.rec[r] = "Consumed" \/ \E j \in DOMAIN todo' : Settles(todo'[j], r)
    <3>1. CASE \E k \in 1 .. MaxCopies : StoredCopy(r, k)
      BY <2>0, <2>4, <2>5, <3>1 DEF SingleCopy
    <3>2. CASE NewCopy(w, r)
      BY <1>2, <2>0, <2>4, <3>2 DEF SingleCopy
    <3> QED
      BY <2>1, <3>1, <3>2
  <2>7. ASSUME NEW i \in DOMAIN todo', NewCopy(todo'[i], r)
        PROVE  /\ \A k \in 1 .. MaxCopies : ~StoredCopy(r, k)'
               /\ \E j \in DOMAIN todo' : j > i /\ Settles(todo'[j], r)
               /\ \A j \in DOMAIN todo' : NewCopy(todo'[j], r) => j = i
    <3>1. i \in Nat /\ i + 1 \in DOMAIN todo /\ NewCopy(todo[i + 1], r) /\ i + 1 # 1
      BY <1>0, <1>1, <1>3, <2>7, TailFacts
    <3>2. /\ \A k \in 1 .. MaxCopies : ~StoredCopy(r, k)
          /\ \E j \in DOMAIN todo : j > i + 1 /\ Settles(todo[j], r)
          /\ \A j \in DOMAIN todo : NewCopy(todo[j], r) => j = i + 1
      BY <2>0, <3>1 DEF SingleCopy
    <3>3. ~NewCopy(w, r)
      BY <1>2, <3>1, <3>2
    <3>4. PICK j \in DOMAIN todo : j > i + 1 /\ Settles(todo[j], r)
      BY <3>2
    <3>5. j \in Nat /\ j - 1 \in DOMAIN todo' /\ todo'[j - 1] = todo[j] /\ j - 1 > i
      BY <1>3, <3>1, <3>4
    <3>6. ASSUME NEW l \in DOMAIN todo', NewCopy(todo'[l], r) PROVE l = i
      <4>1. l \in Nat /\ l + 1 \in DOMAIN todo /\ todo[l + 1] = todo'[l]
        BY <1>3
      <4>2. l + 1 = i + 1
        BY <3>2, <3>6, <4>1
      <4> QED
        BY <3>1, <4>1, <4>2
    <3> QED
      BY <2>1, <3>2, <3>3, <3>4, <3>5, <3>6
  <2> QED
    BY <2>3, <2>6, <2>7 DEF SingleCopy, Settles, Value, StoresAt, NewCopy
<1>18. WindowsOwned'
  <2>0. WindowsOwned
    BY DEF IInv
  <2>1. Owned(mem)'
    BY <1>1, <1>4, <2>0 DEF WindowsOwned, Owned
  <2>2. ASSUME NEW e \in Events, disk'.window[e] # Absent PROVE disk'.event[e] # Absent
    <3>1. CASE disk.window[e] # Absent
      BY <1>13, <2>0, <3>1 DEF WindowsOwned, Owned
    <3>2. CASE disk.window[e] = Absent
      <4>1. StoresAt(w, "window", e)
        BY <1>5, <2>2, <3>2 DEF Files, Names
      <4>2. w.new
        BY <1>1, <3>2, <4>1 DEF Storable, StoresAt, Files, w
      <4>3. disk.event[e] # Absent
        <5>1. \A j \in DOMAIN todo : ~(j < 1)
          BY <1>0, SeqFacts
        <5> QED
          BY <1>2, <2>0, <4>1, <4>2, <5>1 DEF WindowsOwned
      <4> QED
        BY <1>13, <4>3
    <3> QED
      BY <3>1, <3>2
  <2>3. ASSUME NEW i \in DOMAIN todo', NEW e \in Events,
               StoresAt(todo'[i], "window", e), todo'[i].new
        PROVE  \/ disk'.event[e] # Absent
               \/ \E j \in DOMAIN todo' : j < i /\ StoresAt(todo'[j], "event", e)
    <3>1. i \in Nat /\ i + 1 \in DOMAIN todo /\ todo'[i] = todo[i + 1]
      BY <1>3
    <3>2. CASE disk.event[e] # Absent
      BY <1>13, <3>2
    <3>3. ASSUME NEW j \in DOMAIN todo, j < i + 1, StoresAt(todo[j], "event", e)
          PROVE  \/ disk'.event[e] # Absent
                 \/ \E l \in DOMAIN todo' : l < i /\ StoresAt(todo'[l], "event", e)
      <4>1. CASE j = 1
        BY <1>2, <1>13, <3>3, <4>1
      <4>2. CASE j # 1
        <5>1. j \in Nat /\ j - 1 \in DOMAIN todo' /\ todo'[j - 1] = todo[j] /\ j - 1 < i
          BY <1>3, <3>1, <3>3, <4>2
        <5> QED
          BY <3>3, <5>1
      <4> QED
        BY <4>1, <4>2
    <3> QED
      BY <2>0, <2>3, <3>1, <3>2, <3>3 DEF WindowsOwned
  <2> QED
    BY <2>1, <2>2, <2>3 DEF WindowsOwned, Owned, StoresAt
<1> QED
  BY <1>6, <1>7, <1>8, <1>9, <1>10, <1>11, <1>12, <1>16, <1>17, <1>18 DEF IInv

-----------------------------------------------------------------------------
(***************************************************************************)
(* The process ends, or a write fails.                                     *)
(***************************************************************************)

LEMMA FiniteEvents == IsFiniteSet(Events)
<1>1. IsFiniteSet(1 .. MaxCopies)
  BY FinitelyMany, FS_Interval
<1>2. IsFiniteSet(Recommendations \X (1 .. MaxCopies))
  BY <1>1, FinitelyMany, FS_Product
<1> QED
  BY <1>2, FinitelyMany, FS_Union DEF Events

LEMMA AtMostOne ==
    ASSUME NEW S, IsFiniteSet(S)
    PROVE  Cardinality(S) <= 1 <=> \A x, y \in S : x = y
<1>1. Cardinality(S) \in Nat /\ (Cardinality(S) = 0 <=> S = {})
      /\ (Cardinality(S) = 1 <=> \E x : S = {x})
  BY FS_CardinalityType, FS_EmptySet, FS_Singleton
<1>2. ASSUME Cardinality(S) <= 1 PROVE \A x, y \in S : x = y
  BY <1>1, <1>2
<1>3. ASSUME \A x, y \in S : x = y PROVE Cardinality(S) <= 1
  <2>1. CASE S = {}
    BY <1>1, <2>1
  <2>2. CASE S # {}
    <3>1. PICK x \in S : TRUE
      BY <2>2
    <3>2. S = {x}
      BY <1>3, <3>1
    <3> QED
      BY <1>1, <3>2
  <2> QED
    BY <2>1, <2>2
<1> QED
  BY <1>2, <1>3

(* What InvariantChecker demands. *)
LEMMA BootableIs == ASSUME NEW d PROVE Bootable(d) <=> Exclusive(d)
<1>1. RunningIn(d) \in SUBSET Events /\ OpenIn(d) \in SUBSET Events
  BY DEF RunningIn, OpenIn
<1>2. IsFiniteSet(RunningIn(d)) /\ IsFiniteSet(OpenIn(d))
  BY <1>1, FiniteEvents, FS_Subset
<1>3. Bootable(d) <=> /\ \A x, y \in RunningIn(d) : x = y
                      /\ \A x, y \in OpenIn(d) : x = y
  BY <1>2, AtMostOne DEF Bootable
<1>4. Exclusive(d) <=>
          /\ \A x, y \in Events :
                d.event[x] \in RunningStates /\ d.event[y] \in RunningStates => x = y
          /\ \A x, y \in Events : d.window[x] = "Active" /\ d.window[y] = "Active" => x = y
  BY DEF Exclusive, Hot
<1> QED
  BY <1>3, <1>4 DEF RunningIn, OpenIn

(* When nothing is left to write. *)
LEMMA NothingLeft ==
    ASSUME NEW m
    PROVE  /\ <<>> \in Seq(WriteSet) /\ DOMAIN <<>> = {}
           /\ AllSteps(m, <<>>) /\ Prompt(m, <<>>) /\ Quiet(m, <<>>) /\ Covered(m, <<>>, {})
<1>1. <<>> \in Seq(WriteSet) /\ DOMAIN <<>> = {}
  OBVIOUS
<1> QED
  BY <1>1 DEF AllSteps, Prompt, Quiet, Covered

(* The consumptions that are cut short are those that had been begun. *)
LEMMA CutKeepsSingle ==
    ASSUME IInv, NEW r \in Recommendations \ (cut \cup HalfConsumed)
    PROVE  /\ \A k, l \in 1 .. MaxCopies : StoredCopy(r, k) /\ StoredCopy(r, l) => k = l
           /\ (\E k \in 1 .. MaxCopies : StoredCopy(r, k)) => disk.rec[r] = "Consumed"
<1>1. SingleCopy(r)
  BY DEF IInv
<1>2. (\E k \in 1 .. MaxCopies : StoredCopy(r, k)) => \A i \in DOMAIN todo : ~Settles(todo[i], r)
  BY DEF HalfConsumed, StoredCopy, Settles, StoresAt, Value
<1> QED
  BY <1>1, <1>2 DEF SingleCopy

(* Whatever ends an operation leaves nothing to write. *)
LEMMA EndKeeps ==
    ASSUME IInv, todo' = <<>>, UNCHANGED disk, cut' = cut \cup HalfConsumed,
           mem' \in States, up' \in BOOLEAN, ahead' \in BOOLEAN,
           ~up' => ahead',
           up' => Exclusive(mem'), Owned(mem'),
           \A r \in Recommendations : disk.rec[r] = "Consumed" => mem'.rec[r] = "Consumed",
           ~ahead' => /\ Exclusive(mem')
                      /\ \A f \in Files : \A x \in Names(f) : mem'[f][x] = disk[f][x]
    PROVE  IInv'
<1>1. /\ todo' \in Seq(WriteSet) /\ DOMAIN todo' = {}
      /\ AllSteps(mem', todo') /\ Prompt(mem', todo') /\ Quiet(mem', todo')
      /\ Covered(mem', todo', {})
  BY NothingLeft
<1>2. Typed'
  BY <1>1 DEF IInv, Typed, HalfConsumed
<1>3. (up => Exclusive(mem))'
  BY DEF Exclusive
<1>4. AllSteps(mem, todo)' /\ Quiet(mem, todo)' /\ Covered(mem, todo, {})'
  BY <1>1 DEF AllSteps, Quiet, Covered, StepOK, Before, Exclusive, Owned, Value, StoresAt
<1>5. (~ahead => Together)'
  <2> SUFFICES ASSUME ~ahead' PROVE Together'
    OBVIOUS
  <2>1. \A f \in {"event", "window"}, e \in Events : mem'[f][e] = disk'[f][e]
    BY DEF Files, Names
  <2> QED
    BY <2>1 DEF Together, Exclusive
<1>6. (~ahead => NothingForgotten)'
  BY <1>4 DEF NothingForgotten
<1>7. CopiesKept'
  BY <1>1 DEF IInv, CopiesKept, ConsumedBecameEvent
<1>8. ConsumedKnown'
  BY DEF ConsumedKnown
<1>9. ASSUME NEW r \in Recommendations \ cut' PROVE SingleCopy(r)'
  BY <1>1, CutKeepsSingle DEF SingleCopy, StoredCopy
<1>10. WindowsOwned'
  BY <1>1 DEF IInv, WindowsOwned, Owned
<1> QED
  BY <1>2, <1>3, <1>4, <1>5, <1>6, <1>7, <1>8, <1>9, <1>10 DEF IInv

LEMMA FailsKeep == IInv /\ Fails => IInv'
<1> SUFFICES ASSUME IInv, Fails PROVE IInv'
    OBVIOUS
<1>1. /\ todo # <<>> /\ mem' = Head(todo).mem /\ todo' = <<>>
      /\ ahead' = (ahead \/ Stored(mem') # disk)
      /\ cut' = cut \cup HalfConsumed /\ UNCHANGED <<disk, up>>
  BY DEF Fails
<1>2. /\ disk \in Stores /\ todo \in Seq(WriteSet) /\ AllSteps(mem, todo)
      /\ up = TRUE /\ ahead \in BOOLEAN
  BY <1>1 DEF IInv, Typed
<1>3. mem' \in States /\ StepOK(mem, Head(todo))
  <2>1. Head(todo) = todo[1] /\ 1 \in DOMAIN todo /\ todo[1] \in WriteSet
    BY <1>1, <1>2, TailFacts, SeqFacts
  <2>2. StepOK(Before(mem, todo, 1), todo[1])
    BY <1>2, <2>1 DEF AllSteps
  <2> QED
    BY <1>1, <2>1, <2>2 DEF Before, WriteSet
<1>4. Exclusive(mem') /\ Owned(mem')
      /\ \A r \in Recommendations : mem.rec[r] = "Consumed" => mem'.rec[r] = "Consumed"
  BY <1>1, <1>3 DEF StepOK, IInv, WindowsOwned
<1>5. \A r \in Recommendations : disk.rec[r] = "Consumed" => mem'.rec[r] = "Consumed"
  BY <1>4 DEF IInv, ConsumedKnown
<1>6. ~ahead' => \A f \in Files : \A x \in Names(f) : mem'[f][x] = disk[f][x]
  <2>1. \A f \in Files : Stored(mem')[f] = mem'[f]
    BY DEF Stored, Files
  <2>2. ~ahead' => Stored(mem') = disk
    BY <1>1
  <2> QED
    BY <2>1, <2>2
<1> QED
  BY <1>1, <1>2, <1>3, <1>4, <1>5, <1>6, EndKeeps

LEMMA RestartsKeep == IInv /\ Restarts => IInv'
<1> SUFFICES ASSUME IInv, Restarts PROVE IInv'
    OBVIOUS
<1>1. /\ todo' = <<>> /\ mem' = Loaded(disk) /\ cut' = cut \cup HalfConsumed
      /\ up' = Bootable(disk) /\ ahead' = (ahead /\ ~Bootable(disk)) /\ UNCHANGED disk
  BY DEF Restarts
<1>2. disk \in Stores /\ ahead \in BOOLEAN
  BY DEF IInv, Typed
<1>3. mem' \in States
  <2>1. (IF RunningIn(disk) = {} THEN Idle ELSE CHOOSE e \in RunningIn(disk) : TRUE)
            \in Events \cup {Idle}
    BY DEF RunningIn
  <2> QED
    BY <1>1, <1>2, <2>1 DEF Loaded, States, Stores
<1>4. \A f \in Files : \A x \in Names(f) : mem'[f][x] = disk[f][x]
  BY <1>1 DEF Loaded, Files
<1>5. Exclusive(disk) => Exclusive(mem')
  BY <1>4 DEF Exclusive, Files, Names
<1>6. ~ahead => Exclusive(disk)
  BY DEF IInv, Together, Exclusive
<1>7. Bootable(disk) <=> Exclusive(disk)
  BY BootableIs
<1>8. up' \in BOOLEAN
  BY <1>1 DEF Bootable
<1>9. Owned(mem')
  BY <1>4 DEF IInv, WindowsOwned, Owned, Files, Names
<1> QED
  BY <1>1, <1>2, <1>3, <1>4, <1>5, <1>6, <1>7, <1>8, <1>9, EndKeeps DEF Files, Names

(* An operation begins when the one before has made all of its writes. *)
LEMMA BeginKeeps ==
    ASSUME IInv, up, todo = <<>>, NEW ws, Sound(mem, ws), todo' = ws,
           UNCHANGED <<mem, disk, up, ahead, cut>>
    PROVE  IInv'
<1>1. DOMAIN todo = {} /\ ~Raising(todo)
  BY NothingLeft DEF Raising
<1>2. ws \in Seq(WriteSet) /\ AllSteps(mem', todo')
  BY DEF Sound, AllSteps
<1>3. AllSteps(mem, todo)'
  BY <1>2 DEF AllSteps, StepOK, Before, Exclusive, Owned, Value, StoresAt
<1>4. Typed'
  BY <1>2 DEF IInv, Typed
<1>5. ~ahead => \A f \in Files : \A x \in Names(f) : mem[f][x] = disk[f][x]
  BY <1>1 DEF IInv, NothingForgotten
<1>6. (~ahead => Together /\ ((StoreFollows /\ Prompt(mem, todo)) \/ Quiet(mem, todo)))'
  <2> SUFFICES ASSUME ~ahead
               PROVE  Together' /\ ((StoreFollows' /\ Prompt(mem', ws)) \/ Quiet(mem', ws))
    BY DEF Prompt, Quiet, Before, StoresAt
  <2>1. Together'
    BY DEF IInv, Together
  <2>2. StoreFollows'
    BY <1>5 DEF StoreFollows, Files, Names
  <2> QED
    BY <2>1, <2>2 DEF Sound
<1>7. (~ahead /\ ~Raising(todo) => NothingForgotten)'
  <2> SUFFICES ASSUME ~ahead, ~Raising(ws) PROVE NothingForgotten'
    BY DEF Raising
  <2>1. Covered(mem, ws, {})
    BY DEF Sound
  <2> QED
    BY <1>5, <2>1 DEF NothingForgotten, Covered, Before, StoresAt
<1>8. CopiesKept'
  <2>1. ConsumedBecameEvent'
    BY DEF IInv, CopiesKept, ConsumedBecameEvent
  <2>2. CopyFirst(ws)
    BY DEF Sound
  <2>3. ASSUME NEW i \in DOMAIN todo', NEW r \in Recommendations, Settles(todo[i], r)'
        PROVE  \E k \in 1 .. MaxCopies : \A f \in {"event", "window"} :
                  \/ disk'[f][<<r, k>>] # Absent
                  \/ \E j \in DOMAIN todo' : j < i /\ StoresAt(todo[j], f, <<r, k>>)'
    <3>1. i \in DOMAIN ws /\ Settles(ws[i], r)
      BY <2>3 DEF Settles, Value, StoresAt
    <3>2. PICK k \in 1 .. MaxCopies : AdmittedBefore(ws, i, r, k)
      BY <2>2, <3>1 DEF CopyFirst
    <3>3. \A f \in {"event", "window"} :
              \E j \in DOMAIN todo' : j < i /\ StoresAt(todo[j], f, <<r, k>>)'
      BY <3>2 DEF AdmittedBefore, StoresAt
    <3> QED
      BY <3>3
  <2> QED
    BY <2>1, <2>3 DEF CopiesKept
<1>9. ConsumedKnown'
  BY DEF IInv, ConsumedKnown
<1>10. ASSUME NEW r \in Recommendations \ cut' PROVE SingleCopy(r)'
  <2>1. SingleCopy(r) /\ (disk.rec[r] = "Consumed" => mem.rec[r] = "Consumed")
    BY DEF IInv, ConsumedKnown
  <2>2. /\ \A k, l \in 1 .. MaxCopies : StoredCopy(r, k) /\ StoredCopy(r, l) => k = l
        /\ (\E k \in 1 .. MaxCopies : StoredCopy(r, k)) => disk.rec[r] = "Consumed"
    BY <1>1, <2>1 DEF SingleCopy
  <2>3. OneCopy(mem, ws)
    BY DEF Sound
  <2> QED
    BY <2>1, <2>2, <2>3
       DEF SingleCopy, StoredCopy, OneCopy, NewCopy, Settles, Value, StoresAt
<1>11. (up => Exclusive(mem))'
  BY DEF IInv, Exclusive
<1>12. WindowsOwned'
  BY DEF IInv, WindowsOwned, Owned, Sound, EventFirst, StoresAt
<1> QED
  BY <1>3, <1>4, <1>6, <1>7, <1>8, <1>9, <1>10, <1>11, <1>12 DEF IInv

LEMMA UnchangedKeeps ==
    ASSUME IInv, UNCHANGED <<mem, disk, todo, up, ahead, cut>>
    PROVE  IInv'
<1>1. Typed' /\ (~up => todo = <<>> /\ ahead)' /\ (up => Exclusive(mem))'
  BY DEF IInv, Typed, Exclusive
<1>2. AllSteps(mem, todo)'
  BY DEF IInv, AllSteps, StepOK, Before, Exclusive, Owned, Value, StoresAt
<1>3. (~ahead => Together /\ ((StoreFollows /\ Prompt(mem, todo)) \/ Quiet(mem, todo)))'
  BY DEF IInv, Together, StoreFollows, Prompt, Quiet, Before, StoresAt
<1>4. (~ahead /\ ~Raising(todo) => NothingForgotten)'
  BY DEF IInv, NothingForgotten, Covered, Raising, Before, StoresAt
<1>5. CopiesKept' /\ ConsumedKnown'
  <2>1. ConsumedBecameEvent' /\ ConsumedKnown'
    BY DEF IInv, CopiesKept, ConsumedBecameEvent, ConsumedKnown
  <2>2. ASSUME NEW i \in DOMAIN todo, NEW r \in Recommendations, Settles(todo[i], r)
        PROVE  \E k \in 1 .. MaxCopies : \A f \in {"event", "window"} :
                  \/ disk[f][<<r, k>>] # Absent
                  \/ \E j \in DOMAIN todo : j < i /\ StoresAt(todo[j], f, <<r, k>>)
    BY <2>2 DEF IInv, CopiesKept
  <2>3. ASSUME NEW i \in DOMAIN todo', NEW r \in Recommendations, Settles(todo[i], r)'
        PROVE  \E k \in 1 .. MaxCopies : \A f \in {"event", "window"} :
                  \/ disk'[f][<<r, k>>] # Absent
                  \/ \E j \in DOMAIN todo' : j < i /\ StoresAt(todo[j], f, <<r, k>>)'
    <3>1. i \in DOMAIN todo /\ Settles(todo[i], r)
      BY <2>3 DEF Settles, Value, StoresAt
    <3>2. PICK k \in 1 .. MaxCopies : \A f \in {"event", "window"} :
              \/ disk[f][<<r, k>>] # Absent
              \/ \E j \in DOMAIN todo : j < i /\ StoresAt(todo[j], f, <<r, k>>)
      BY <2>2, <3>1
    <3>3. \A f \in {"event", "window"} :
              \/ disk'[f][<<r, k>>] # Absent
              \/ \E j \in DOMAIN todo' : j < i /\ StoresAt(todo[j], f, <<r, k>>)'
      BY <3>2 DEF StoresAt
    <3> QED
      BY <3>3
  <2>4. CopiesKept'
    BY <2>1, <2>3 DEF CopiesKept
  <2> QED
    BY <2>1, <2>4
<1>6. (\A r \in Recommendations \ cut : SingleCopy(r))'
  BY DEF IInv, SingleCopy, StoredCopy, Settles, Value, StoresAt, NewCopy
<1>7. WindowsOwned'
  BY DEF IInv, WindowsOwned, Owned, StoresAt
<1> QED
  BY <1>1, <1>2, <1>3, <1>4, <1>5, <1>6, <1>7 DEF IInv

LEMMA InitEstablishes == Init => IInv
<1> SUFFICES ASSUME Init PROVE IInv
    OBVIOUS
<1>1. /\ todo = <<>> /\ up = TRUE /\ ahead = FALSE /\ cut = {} /\ mem = Loaded(disk)
      /\ disk = [event |-> [e \in Events |-> Absent],
                 window |-> [e \in Events |-> Absent],
                 rec |-> [r \in Recommendations |-> Absent],
                 disturber |-> [d \in Disturbers |-> Absent]]
  BY DEF Init
<1>2. disk \in Stores
  BY <1>1 DEF Stores
<1>3. /\ \A f \in {"event", "window"}, e \in Events : disk[f][e] = Absent
      /\ \A r \in Recommendations : disk.rec[r] = Absent
  BY <1>1
<1>4. RunningIn(disk) = {}
  BY <1>3 DEF RunningIn, RunningStates, Absent
<1>5. mem \in States /\ \A f \in Files : mem[f] = disk[f]
  BY <1>1, <1>2, <1>4 DEF Loaded, States, Stores, Files
<1>6. \A f \in {"event", "window"}, e \in Events : ~Hot(f, disk[f][e]) /\ ~Hot(f, mem[f][e])
  BY <1>3, <1>5 DEF Hot, RunningStates, Absent, Files
<1>7. /\ todo \in Seq(WriteSet) /\ DOMAIN todo = {}
      /\ AllSteps(mem, todo) /\ Prompt(mem, todo) /\ Quiet(mem, todo) /\ Covered(mem, todo, {})
  BY <1>1, NothingLeft
<1>8. Typed
  BY <1>1, <1>2, <1>5, <1>7 DEF Typed
<1>9. Exclusive(mem) /\ Together
  BY <1>6 DEF Exclusive, Together
<1>10. NothingForgotten
  BY <1>5, <1>7 DEF NothingForgotten
<1>11. CopiesKept /\ ConsumedKnown
  BY <1>3, <1>7 DEF CopiesKept, ConsumedBecameEvent, ConsumedKnown, Absent
<1>12. \A r \in Recommendations : SingleCopy(r)
  BY <1>3, <1>7 DEF SingleCopy, StoredCopy, Events
<1>13. WindowsOwned
  BY <1>3, <1>5, <1>7 DEF WindowsOwned, Owned, Files
<1> QED
  BY <1>1, <1>7, <1>8, <1>9, <1>10, <1>11, <1>12, <1>13 DEF IInv

-----------------------------------------------------------------------------
(***************************************************************************)
(* Operations are put together from shorter ones.                          *)
(***************************************************************************)

(* No Recommendation is consumed. *)
Plain(ws) ==
    \A i \in DOMAIN ws : \A r \in Recommendations :
        ~NewCopy(ws[i], r) /\ ~Settles(ws[i], r)

Serves(m, ws) ==
    AllSteps(m, ws) /\ Prompt(m, ws) /\ Covered(m, ws, {}) /\ EventFirst(ws) /\ Plain(ws)

LEMMA PlainIsSound ==
    ASSUME NEW m, NEW ws, AllSteps(m, ws), Prompt(m, ws) \/ Quiet(m, ws),
           ~Raising(ws) => Covered(m, ws, {}), EventFirst(ws), Plain(ws)
    PROVE  Sound(m, ws)
BY DEF Plain, Sound, CopyFirst, OneCopy

LEMMA ServesIsSound == ASSUME NEW m, NEW ws, Serves(m, ws) PROVE Sound(m, ws)
BY PlainIsSound DEF Serves

LEMMA NothingServes == ASSUME NEW m PROVE Serves(m, <<>>) /\ After(m, <<>>) = m
BY NothingLeft DEF Serves, Plain, EventFirst, After

(* Where the second of two operations begins. *)
LEMMA AfterConcat ==
    ASSUME NEW m, NEW s \in Seq(WriteSet), NEW t \in Seq(WriteSet)
    PROVE  /\ After(m, s \o t) = After(After(m, s), t)
           /\ \A i \in DOMAIN s : Before(m, s \o t, i) = Before(m, s, i)
           /\ \A j \in DOMAIN t : Before(m, s \o t, Len(s) + j) = Before(After(m, s), t, j)
           /\ t # <<>> => (Raising(s \o t) <=> Raising(t))
<1>1. /\ s \o t \in Seq(WriteSet) /\ Len(s) \in Nat /\ Len(t) \in Nat
      /\ Len(s \o t) = Len(s) + Len(t)
      /\ DOMAIN s = 1 .. Len(s) /\ DOMAIN t = 1 .. Len(t)
      /\ \A i \in DOMAIN s : (s \o t)[i] = s[i]
      /\ \A i \in DOMAIN t : (s \o t)[Len(s) + i] = t[i]
      /\ s # <<>> <=> Len(s) # 0
      /\ t # <<>> <=> Len(t) # 0
      /\ s \o t # <<>> <=> Len(s \o t) # 0
  BY ConcatFacts, SeqFacts
<1>2. t # <<>> => Last(s \o t) = Last(t) /\ s \o t # <<>>
  BY <1>1 DEF Last
<1>3. t = <<>> => s \o t = s
  OBVIOUS
<1>4. After(m, s \o t) = After(After(m, s), t)
  BY <1>2, <1>3 DEF After
<1>5. ASSUME NEW i \in DOMAIN s PROVE Before(m, s \o t, i) = Before(m, s, i)
  BY <1>1 DEF Before
<1>6. ASSUME NEW j \in DOMAIN t
      PROVE  Before(m, s \o t, Len(s) + j) = Before(After(m, s), t, j)
  <2>1. CASE j = 1 /\ Len(s) = 0
    BY <1>1, <2>1 DEF Before, After
  <2>2. CASE j = 1 /\ Len(s) # 0
    BY <1>1, <2>2 DEF Before, After, Last
  <2>3. CASE j # 1
    <3>1. j - 1 \in DOMAIN t /\ Len(s) + j # 1 /\ (Len(s) + j) - 1 = Len(s) + (j - 1)
      BY <1>1, <2>3
    <3> QED
      BY <1>1, <2>3, <3>1 DEF Before
  <2> QED
    BY <2>1, <2>2, <2>3
<1>7. t # <<>> => (Raising(s \o t) <=> Raising(t))
  BY <1>2 DEF Raising
<1> QED
  BY <1>4, <1>5, <1>6, <1>7

LEMMA ConcatKeeps ==
    ASSUME NEW m, NEW s, NEW t, NEW owed, NEW rest,
           AllSteps(m, s), AllSteps(After(m, s), t)
    PROVE  /\ AllSteps(m, s \o t)
           /\ Prompt(m, s) /\ Prompt(After(m, s), t) => Prompt(m, s \o t)
           /\ Plain(s) /\ Plain(t) => Plain(s \o t)
           /\ EventFirst(s) /\ EventFirst(t) => EventFirst(s \o t)
           /\ /\ Covered(m, s, owed) /\ Covered(After(m, s), t, rest)
              /\ \A f \in Files : \A x \in Names(f) : <<f, x>> \in owed =>
                    <<f, x>> \in rest \/ \E j \in DOMAIN t : StoresAt(t[j], f, x)
              => Covered(m, s \o t, rest)
<1>0. s \in Seq(WriteSet) /\ t \in Seq(WriteSet)
  BY DEF AllSteps
<1> DEFINE u == s \o t
<1>1. /\ u \in Seq(WriteSet) /\ Len(s) \in Nat /\ Len(t) \in Nat
      /\ DOMAIN s = 1 .. Len(s) /\ DOMAIN t = 1 .. Len(t)
      /\ DOMAIN u = 1 .. Len(s) + Len(t)
      /\ \A i \in DOMAIN s : u[i] = s[i]
      /\ \A i \in DOMAIN t : u[Len(s) + i] = t[i]
  BY <1>0, ConcatFacts
<1>2. /\ \A i \in DOMAIN s : Before(m, u, i) = Before(m, s, i)
      /\ \A j \in DOMAIN t : Before(m, u, Len(s) + j) = Before(After(m, s), t, j)
  BY <1>0, AfterConcat
<1>3. ASSUME NEW i \in DOMAIN u
      PROVE  \/ i \in DOMAIN s /\ u[i] = s[i]
             \/ \E j \in DOMAIN t : i = Len(s) + j /\ u[i] = t[j]
  BY <1>0, ConcatCases
<1> HIDE DEF u
<1>4. AllSteps(m, u)
  BY <1>1, <1>2, <1>3 DEF AllSteps
<1>5. Prompt(m, s) /\ Prompt(After(m, s), t) => Prompt(m, u)
  <2> SUFFICES ASSUME Prompt(m, s), Prompt(After(m, s), t), NEW i \in DOMAIN u,
                      NEW f \in {"event", "window"}, NEW e \in Events,
                      Hot(f, Before(m, u, i)[f][e]), ~Hot(f, u[i].mem[f][e])
               PROVE  StoresAt(u[i], f, e)
    BY DEF Prompt
  <2>1. CASE i \in DOMAIN s /\ u[i] = s[i]
    BY <1>2, <2>1 DEF Prompt
  <2>2. CASE \E j \in DOMAIN t : i = Len(s) + j /\ u[i] = t[j]
    BY <1>2, <2>2 DEF Prompt
  <2> QED
    BY <1>3, <2>1, <2>2
<1>6. Plain(s) /\ Plain(t) => Plain(u)
  BY <1>3 DEF Plain
<1>7. ASSUME Covered(m, s, owed), Covered(After(m, s), t, rest),
             \A f \in Files : \A x \in Names(f) : <<f, x>> \in owed =>
                 <<f, x>> \in rest \/ \E j \in DOMAIN t : StoresAt(t[j], f, x)
      PROVE  Covered(m, u, rest)
  <2> SUFFICES ASSUME NEW i \in DOMAIN u, NEW f \in Files, NEW x \in Names(f),
                      u[i].mem[f][x] # Before(m, u, i)[f][x], <<f, x>> \notin rest
               PROVE  \E j \in DOMAIN u : j >= i /\ StoresAt(u[j], f, x)
    BY DEF Covered
  <2>1. ASSUME i \in DOMAIN s, u[i] = s[i]
        PROVE  \E j \in DOMAIN u : j >= i /\ StoresAt(u[j], f, x)
    <3>1. \/ \E j \in DOMAIN s : j >= i /\ StoresAt(s[j], f, x)
          \/ <<f, x>> \in owed
      BY <1>2, <1>7, <2>1 DEF Covered
    <3>2. ASSUME NEW j \in DOMAIN s, j >= i, StoresAt(s[j], f, x)
          PROVE  j \in DOMAIN u /\ j >= i /\ StoresAt(u[j], f, x)
      BY <1>1, <3>2
    <3>3. ASSUME NEW j \in DOMAIN t, StoresAt(t[j], f, x)
          PROVE  Len(s) + j \in DOMAIN u /\ Len(s) + j >= i /\ StoresAt(u[Len(s) + j], f, x)
      BY <1>1, <2>1, <3>3
    <3> QED
      BY <1>7, <3>1, <3>2, <3>3
  <2>2. ASSUME NEW j \in DOMAIN t, i = Len(s) + j, u[i] = t[j]
        PROVE  \E l \in DOMAIN u : l >= i /\ StoresAt(u[l], f, x)
    <3>1. PICK l \in DOMAIN t : l >= j /\ StoresAt(t[l], f, x)
      BY <1>2, <1>7, <2>2 DEF Covered
    <3>2. Len(s) + l \in DOMAIN u /\ Len(s) + l >= i /\ StoresAt(u[Len(s) + l], f, x)
      BY <1>1, <2>2, <3>1
    <3> QED
      BY <3>2
  <2> QED
    BY <1>3, <2>1, <2>2
<1>8. EventFirst(s) /\ EventFirst(t) => EventFirst(u)
  <2> SUFFICES ASSUME EventFirst(s), EventFirst(t), NEW i \in DOMAIN u, NEW e \in Events,
                      StoresAt(u[i], "window", e), u[i].new
               PROVE  \E j \in DOMAIN u : j < i /\ StoresAt(u[j], "event", e)
    BY DEF EventFirst
  <2>1. CASE i \in DOMAIN s /\ u[i] = s[i]
    <3>1. PICK j \in DOMAIN s : j < i /\ StoresAt(s[j], "event", e)
      BY <2>1 DEF EventFirst
    <3> QED
      BY <1>1, <3>1
  <2>2. ASSUME NEW j \in DOMAIN t, i = Len(s) + j, u[i] = t[j]
        PROVE  \E l \in DOMAIN u : l < i /\ StoresAt(u[l], "event", e)
    <3>1. PICK l \in DOMAIN t : l < j /\ StoresAt(t[l], "event", e)
      BY <2>2 DEF EventFirst
    <3>2. Len(s) + l \in DOMAIN u /\ Len(s) + l < i /\ StoresAt(u[Len(s) + l], "event", e)
      BY <1>1, <2>2, <3>1
    <3> QED
      BY <3>2
  <2> QED
    BY <1>3, <2>1, <2>2
<1> QED
  BY <1>4, <1>5, <1>6, <1>7, <1>8 DEF u

LEMMA ServesConcat ==
    ASSUME NEW m, NEW s, NEW t, Serves(m, s), Serves(After(m, s), t)
    PROVE  Serves(m, s \o t) /\ After(m, s \o t) = After(After(m, s), t)
<1>1. /\ AllSteps(m, s) /\ AllSteps(After(m, s), t)
      /\ s \in Seq(WriteSet) /\ t \in Seq(WriteSet)
  BY DEF Serves, AllSteps
<1>2. AllSteps(m, s \o t) /\ Prompt(m, s \o t) /\ Plain(s \o t) /\ EventFirst(s \o t)
  BY <1>1, ConcatKeeps DEF Serves
<1>3. Covered(m, s \o t, {})
  BY <1>1, ConcatKeeps DEF Serves
<1> QED
  BY <1>1, <1>2, <1>3, AfterConcat DEF Serves

(* An operation that begins a little elsewhere. *)
LEMMA Rebased ==
    ASSUME NEW m, NEW n, NEW ws, NEW owed, ws # <<>>, AllSteps(m, ws),
           \A r \in Recommendations : n.rec[r] = "Consumed" => m.rec[r] = "Consumed",
           Owned(n) => Owned(m)
    PROVE  /\ AllSteps(n, ws)
           /\ /\ Prompt(m, ws)
              /\ \A f \in {"event", "window"}, e \in Events :
                    Hot(f, n[f][e]) => Hot(f, m[f][e])
              => Prompt(n, ws)
           /\ /\ Covered(m, ws, owed)
              /\ \A f \in Files : \A x \in Names(f) :
                    n[f][x] = m[f][x] \/ \E j \in DOMAIN ws : StoresAt(ws[j], f, x)
              => Covered(n, ws, owed)
<1>1. ws \in Seq(WriteSet) /\ DOMAIN ws = 1 .. Len(ws) /\ Len(ws) \in Nat
  BY SeqFacts DEF AllSteps
<1>2. \A i \in DOMAIN ws : i # 1 => Before(n, ws, i) = Before(m, ws, i)
  BY DEF Before
<1>3. Before(n, ws, 1) = n /\ Before(m, ws, 1) = m
  BY DEF Before
<1>4. AllSteps(n, ws)
  BY <1>1, <1>2, <1>3 DEF AllSteps, StepOK
<1>5. ASSUME Prompt(m, ws),
             \A f \in {"event", "window"}, e \in Events : Hot(f, n[f][e]) => Hot(f, m[f][e])
      PROVE  Prompt(n, ws)
  BY <1>2, <1>3, <1>5 DEF Prompt
<1>6. ASSUME Covered(m, ws, owed),
             \A f \in Files : \A x \in Names(f) :
                 n[f][x] = m[f][x] \/ \E j \in DOMAIN ws : StoresAt(ws[j], f, x)
      PROVE  Covered(n, ws, owed)
  <2> SUFFICES ASSUME NEW i \in DOMAIN ws, NEW f \in Files, NEW x \in Names(f),
                      ws[i].mem[f][x] # Before(n, ws, i)[f][x], <<f, x>> \notin owed
               PROVE  \E j \in DOMAIN ws : j >= i /\ StoresAt(ws[j], f, x)
    BY DEF Covered
  <2>1. CASE ws[i].mem[f][x] # Before(m, ws, i)[f][x]
    BY <1>6, <2>1 DEF Covered
  <2>2. CASE ws[i].mem[f][x] = Before(m, ws, i)[f][x]
    <3>1. i = 1 /\ n[f][x] # m[f][x]
      BY <1>2, <1>3, <2>2
    <3>2. PICK j \in DOMAIN ws : StoresAt(ws[j], f, x)
      BY <1>6, <3>1
    <3> QED
      BY <1>1, <3>1, <3>2
  <2> QED
    BY <2>1, <2>2
<1> QED
  BY <1>4, <1>5, <1>6

(* An operation of one step that changes nothing but what it stores. *)
LEMMA OneStep ==
    ASSUME NEW m, NEW w \in WriteSet, StepOK(m, w),
           \A f \in Files : \A x \in Names(f) :
               w.mem[f][x] = m[f][x] \/ StoresAt(w, f, x),
           w.file = "window" => ~w.new,
           \A r \in Recommendations : ~NewCopy(w, r) /\ ~Settles(w, r)
    PROVE  Serves(m, <<w>>) /\ After(m, <<w>>) = w.mem
<1>1. /\ <<w>> \in Seq(WriteSet) /\ DOMAIN <<w>> = {1} /\ <<w>>[1] = w /\ Len(<<w>>) = 1
      /\ <<w>> # <<>>
  OBVIOUS
<1>2. Before(m, <<w>>, 1) = m
  BY DEF Before
<1>3. AllSteps(m, <<w>>)
  BY <1>1, <1>2 DEF AllSteps
<1>4. Prompt(m, <<w>>)
  BY <1>1, <1>2 DEF Prompt, Files, Names
<1>5. Covered(m, <<w>>, {})
  BY <1>1, <1>2 DEF Covered
<1>6. Plain(<<w>>)
  BY <1>1 DEF Plain
<1>7. EventFirst(<<w>>)
  BY <1>1 DEF EventFirst, StoresAt
<1> QED
  BY <1>1, <1>3, <1>4, <1>5, <1>6, <1>7 DEF Serves, After, Last

LEMMA WriteServes ==
    ASSUME NEW m, NEW n \in States, NEW f \in Files, NEW x \in Names(f), NEW w,
           \/ w = Update(n, f, x)
           \/ w = New(n, f, x) /\ f \in {"rec", "disturber"},
           \A g \in Files : \A y \in Names(g) : n[g][y] = m[g][y] \/ (g = f /\ y = x),
           n[f][x] # Absent, Exclusive(n), Owned(m) => Owned(n),
           f = "rec" => m.rec[x] # "Consumed" /\ n.rec[x] # "Consumed"
    PROVE  Serves(m, <<w>>) /\ After(m, <<w>>) = n
<1>0. x \in Events \cup Recommendations \cup Disturbers
  BY DEF Names
<1>1. w \in WriteSet
  <2>1. CASE w = Update(n, f, x)
    BY <1>0, <2>1 DEF Update, WriteSet
  <2>2. CASE w = New(n, f, x)
    BY <1>0, <2>2 DEF New, WriteSet
  <2> QED
    BY <2>1, <2>2
<1>2. w.mem = n /\ w.file = f /\ w.of = x /\ (w.new => f \in {"rec", "disturber"})
  BY DEF Update, New
<1>3. \A r \in Recommendations : m.rec[r] = "Consumed" => n.rec[r] = "Consumed"
  BY DEF Files, Names
<1>4. StepOK(m, w)
  BY <1>2, <1>3 DEF StepOK, Value
<1>5. \A r \in Recommendations : ~NewCopy(w, r) /\ ~Settles(w, r)
  BY <1>2 DEF NewCopy, Settles, StoresAt, Value
<1>6. \A g \in Files : \A y \in Names(g) : w.mem[g][y] = m[g][y] \/ StoresAt(w, g, y)
  BY <1>2 DEF StoresAt
<1>7. w.file = "window" => ~w.new
  BY <1>2
<1> QED
  BY <1>1, <1>2, <1>4, <1>5, <1>6, <1>7, OneStep

(* A step that stores nothing and changes only what is not stored, or raises. *)
LEMMA SilentServes ==
    ASSUME NEW m, NEW n \in States, NEW w, w = Unstored(n) \/ w = Raises(n),
           \A g \in Files : n[g] = m[g], Exclusive(m)
    PROVE  Serves(m, <<w>>) /\ After(m, <<w>>) = n
<1>1. w \in WriteSet
  <2>1. CASE w = Unstored(n)
    BY <2>1 DEF Unstored, WriteSet
  <2>2. CASE w = Raises(n)
    BY <2>2 DEF Raises, WriteSet
  <2> QED
    BY <2>1, <2>2
<1>2. w.mem = n /\ w.file \notin Files
  BY DEF Unstored, Raises, Files
<1>3. Exclusive(n) /\ (Owned(m) => Owned(n)) /\ n.rec = m.rec
  BY DEF Exclusive, Owned, Files
<1>4. StepOK(m, w)
  BY <1>2, <1>3 DEF StepOK
<1>5. \A r \in Recommendations : ~NewCopy(w, r) /\ ~Settles(w, r)
  BY <1>2 DEF NewCopy, Settles, StoresAt, Files
<1>6. w.file = "window" => ~w.new
  BY <1>2 DEF Files
<1> QED
  BY <1>1, <1>2, <1>4, <1>5, <1>6, OneStep

-----------------------------------------------------------------------------
(***************************************************************************)
(* The operations of the Scheduler and the Kernel.                         *)
(***************************************************************************)

LEMMA LettingGo ==
    ASSUME NEW m, NEW n, Exclusive(m),
           \A f \in {"event", "window"}, e \in Events : Hot(f, n[f][e]) => Hot(f, m[f][e])
    PROVE  Exclusive(n)
BY DEF Exclusive

LEMMA RunsAlone ==
    ASSUME NEW m, Exclusive(m), NEW e \in RunningIn(m)
    PROVE  RunningIn(m) = {e}
BY DEF Exclusive, Hot, RunningIn

LEMMA OpenAlone ==
    ASSUME NEW m, Exclusive(m), NEW e \in OpenIn(m)
    PROVE  OpenIn(m) = {e}
BY DEF Exclusive, Hot, OpenIn

(* What runs is paused and stored at once. *)
LEMMA PausingServes ==
    ASSUME NEW m \in States, Exclusive(m)
    PROVE  LET a == After(m, PauseRunning(m)) IN
           /\ Serves(m, PauseRunning(m))
           /\ a \in States /\ Exclusive(a) /\ RunningIn(a) = {}
           /\ Owned(m) => Owned(a)
           /\ a.window = m.window /\ a.rec = m.rec
           /\ \A e \in Events : m.event[e] \notin RunningStates => a.event[e] = m.event[e]
<1>1. CASE RunningIn(m) = {}
  <2>1. PauseRunning(m) = <<>>
    BY <1>1 DEF PauseRunning
  <2> QED
    BY <1>1, <2>1, NothingServes
<1>2. CASE RunningIn(m) # {}
  <2> DEFINE e == CHOOSE e \in RunningIn(m) : TRUE
             n == [m EXCEPT !.event[e] = "Paused", !.context = Idle]
  <2>1. e \in RunningIn(m) /\ PauseRunning(m) = <<Update(n, "event", e)>>
    BY <1>2 DEF PauseRunning
  <2> HIDE DEF e
  <2>2. e \in Events /\ RunningIn(m) = {e}
    BY <2>1, RunsAlone DEF RunningIn
  <2>3. /\ n \in States
        /\ n.event = [m.event EXCEPT ![e] = "Paused"]
        /\ n.window = m.window /\ n.rec = m.rec /\ n.disturber = m.disturber
    BY <2>2 DEF States, EventStatus
  <2> HIDE DEF n
  <2>4. /\ \A d \in Events : n.event[d] = IF d = e THEN "Paused" ELSE m.event[d]
    BY <2>2, <2>3 DEF States
  <2>5. \A g \in Files : \A y \in Names(g) : n[g][y] = m[g][y] \/ (g = "event" /\ y = e)
    BY <2>3, <2>4 DEF Files, Names
  <2>6. Exclusive(n)
    BY <2>3, <2>4, LettingGo DEF Hot, RunningStates
  <2>7. Owned(m) => Owned(n)
    BY <2>3, <2>4 DEF Owned, Absent
  <2>8. Serves(m, PauseRunning(m)) /\ After(m, PauseRunning(m)) = n
    <3>1. "event" \in Files /\ e \in Names("event") /\ n["event"][e] # Absent
      BY <2>2, <2>4 DEF Files, Names, Absent
    <3> QED
      BY <2>1, <2>3, <2>5, <2>6, <2>7, <3>1, WriteServes
  <2>9. RunningIn(n) = {}
    BY <2>2, <2>4 DEF RunningIn, RunningStates
  <2> QED
    BY <2>2, <2>3, <2>4, <2>6, <2>8, <2>9, <2>7 DEF RunningIn
<1> QED
  BY <1>1, <1>2

LEMMA ExpireServes ==
    ASSUME NEW m \in States, Exclusive(m), NEW e \in OpenIn(m)
    PROVE  LET a == After(m, Expire(m, e)) IN
           /\ Serves(m, Expire(m, e))
           /\ a \in States /\ Exclusive(a) /\ (Owned(m) => Owned(a))
           /\ a.event = m.event /\ a.rec = m.rec /\ a.disturber = m.disturber
           /\ a.window = [m.window EXCEPT ![e] = "Expired"]
<1> DEFINE n == [m EXCEPT !.window[e] = "Expired"]
<1>0. e \in Events /\ m.window[e] = "Active"
  BY DEF OpenIn
<1>1. Expire(m, e) = <<Update(n, "window", e)>>
  BY DEF Expire
<1>2. /\ n \in States
      /\ n.window = [m.window EXCEPT ![e] = "Expired"]
      /\ n.event = m.event /\ n.rec = m.rec /\ n.disturber = m.disturber
  BY <1>0 DEF States, WindowStatus
<1> HIDE DEF n
<1>3. \A d \in Events : n.window[d] = IF d = e THEN "Expired" ELSE m.window[d]
  BY <1>2 DEF States
<1>4. \A g \in Files : \A y \in Names(g) : n[g][y] = m[g][y] \/ (g = "window" /\ y = e)
  BY <1>2, <1>3 DEF Files, Names
<1>5. Exclusive(n) /\ (Owned(m) => Owned(n))
  <2>1. Exclusive(n)
    BY <1>2, <1>3, LettingGo DEF Hot
  <2>2. Owned(m) => Owned(n)
    BY <1>0, <1>2, <1>3 DEF Owned, Absent
  <2> QED
    BY <2>1, <2>2
<1>6. Serves(m, Expire(m, e)) /\ After(m, Expire(m, e)) = n
  <2>1. "window" \in Files /\ e \in Names("window") /\ n["window"][e] # Absent
    BY <1>0, <1>3 DEF Files, Names, Absent
  <2> QED
    BY <1>1, <1>2, <1>4, <1>5, <2>1, WriteServes
<1> QED
  BY <1>2, <1>5, <1>6

(* The window that is open is closed before another is opened. *)
LEMMA ActivateServes ==
    ASSUME NEW m \in States, Exclusive(m), NEW e \in Events
    PROVE  LET a == After(m, Activate(m, e)) IN
           /\ Serves(m, Activate(m, e)) /\ Activate(m, e) # <<>>
           /\ a \in States /\ Exclusive(a) /\ (Owned(m) => Owned(a))
           /\ a.event = m.event /\ a.rec = m.rec
<1> DEFINE others == OpenIn(m) \ {e}
           closing == IF others = {} \/ m.window[e] = Absent THEN <<>>
                      ELSE Expire(m, CHOOSE f \in others : TRUE)
           closed == After(m, closing)
           last == IF m.window[e] = "Created"
                   THEN Update([closed EXCEPT !.window[e] = "Active"], "window", e)
                   ELSE Raises(closed)
<1>1. Activate(m, e) = closing \o <<last>>
  BY DEF Activate
<1>2. /\ Serves(m, closing) /\ closed \in States /\ Exclusive(closed)
      /\ Owned(m) => Owned(closed)
      /\ closed.event = m.event /\ closed.rec = m.rec /\ closed.disturber = m.disturber
      /\ m.window[e] = "Created" =>
            OpenIn(closed) = {} /\ closed.window[e] = "Created"
  <2>1. CASE others = {} \/ m.window[e] = Absent
    <3>1. closing = <<>> /\ closed = m
      BY <2>1, NothingServes
    <3>2. m.window[e] = "Created" => OpenIn(m) = {}
      BY <2>1 DEF OpenIn, Absent
    <3> QED
      BY <3>1, <3>2, NothingServes
  <2>2. CASE ~(others = {} \/ m.window[e] = Absent)
    <3> DEFINE f == CHOOSE f \in others : TRUE
    <3>1. f \in others /\ closing = Expire(m, f)
      BY <2>2
    <3> HIDE DEF f, closing
    <3>2. f \in Events /\ f # e /\ OpenIn(m) = {f} /\ f \in OpenIn(m)
      BY <3>1, OpenAlone DEF OpenIn
    <3>3. /\ Serves(m, closing) /\ closed \in States /\ Exclusive(closed)
          /\ Owned(m) => Owned(closed)
          /\ closed.event = m.event /\ closed.rec = m.rec /\ closed.disturber = m.disturber
          /\ closed.window = [m.window EXCEPT ![f] = "Expired"]
      BY <3>1, <3>2, ExpireServes
    <3> HIDE DEF closed
    <3>4. \A d \in Events : closed.window[d] = IF d = f THEN "Expired" ELSE m.window[d]
      BY <3>2, <3>3 DEF States
    <3>5. OpenIn(closed) = {} /\ closed.window[e] = m.window[e]
      BY <3>2, <3>4 DEF OpenIn
    <3> QED
      BY <3>3, <3>5
  <2> QED
    BY <2>1, <2>2
<1> HIDE DEF closing, closed
<1>3. /\ Serves(closed, <<last>>)
      /\ LET a == After(closed, <<last>>) IN
         /\ a \in States /\ Exclusive(a) /\ (Owned(m) => Owned(a))
         /\ a.event = m.event /\ a.rec = m.rec
  <2>1. CASE m.window[e] = "Created"
    <3> DEFINE n == [closed EXCEPT !.window[e] = "Active"]
    <3>1. last = Update(n, "window", e)
      BY <2>1
    <3>2. /\ n \in States
          /\ n.window = [closed.window EXCEPT ![e] = "Active"]
          /\ n.event = m.event /\ n.rec = m.rec /\ n.disturber = m.disturber
      BY <1>2 DEF States, WindowStatus
    <3> HIDE DEF n, last
    <3>3. \A d \in Events : n.window[d] = IF d = e THEN "Active" ELSE closed.window[d]
      BY <1>2, <3>2 DEF States
    <3>4. \A g \in Files : \A y \in Names(g) :
              n[g][y] = closed[g][y] \/ (g = "window" /\ y = e)
      BY <1>2, <3>2, <3>3 DEF Files, Names
    <3>5. Exclusive(n)
      <4>1. \A d \in Events : closed.window[d] # "Active"
        BY <1>2, <2>1 DEF OpenIn
      <4> QED
        BY <1>2, <3>2, <3>3, <4>1 DEF Exclusive, Hot, States
    <3>6. (Owned(m) => Owned(n)) /\ (Owned(closed) => Owned(n))
      BY <1>2, <2>1, <3>2, <3>3 DEF Owned, Absent
    <3>7. Serves(closed, <<last>>) /\ After(closed, <<last>>) = n
      <4>1. "window" \in Files /\ e \in Names("window") /\ n["window"][e] # Absent
        BY <3>3 DEF Files, Names, Absent
      <4> QED
        BY <3>1, <3>2, <3>4, <3>5, <3>6, <4>1, WriteServes
    <3> QED
      BY <3>2, <3>5, <3>7, <3>6
  <2>2. CASE m.window[e] # "Created"
    <3>1. last = Raises(closed)
      BY <2>2
    <3>2. Serves(closed, <<last>>) /\ After(closed, <<last>>) = closed
      BY <1>2, <3>1, SilentServes
    <3> QED
      BY <1>2, <3>2
  <2> QED
    BY <2>1, <2>2
<1> HIDE DEF last
<1>4. /\ Serves(m, closing \o <<last>>)
      /\ After(m, closing \o <<last>>) = After(closed, <<last>>)
  BY <1>2, <1>3, ServesConcat DEF closed
<1>5. closing \o <<last>> # <<>>
  <2>1. closing \in Seq(WriteSet) /\ <<last>> \in Seq(WriteSet) /\ Len(<<last>>) = 1
    BY <1>2, <1>3 DEF Serves, AllSteps
  <2>2. Len(closing \o <<last>>) = Len(closing) + 1 /\ Len(closing) \in Nat
        /\ closing \o <<last>> \in Seq(WriteSet)
    BY <2>1, ConcatFacts
  <2> QED
    BY <2>2, SeqFacts
<1> QED
  BY <1>1, <1>3, <1>4, <1>5

(* An operation the first part of which is complete. *)
LEMMA Prefixed ==
    ASSUME NEW m, NEW s, NEW t, Serves(m, s), AllSteps(After(m, s), t),
           Prompt(After(m, s), t), EventFirst(t), Plain(t), t # <<>>,
           ~Raising(t) => Covered(After(m, s), t, {})
    PROVE  Sound(m, s \o t)
<1>1. AllSteps(m, s) /\ s \in Seq(WriteSet) /\ t \in Seq(WriteSet)
  BY DEF Serves, AllSteps
<1>2. AllSteps(m, s \o t) /\ Prompt(m, s \o t) /\ Plain(s \o t) /\ EventFirst(s \o t)
  BY <1>1, ConcatKeeps DEF Serves
<1>3. Raising(s \o t) <=> Raising(t)
  BY <1>1, AfterConcat
<1>4. ~Raising(t) => Covered(m, s \o t, {})
  BY <1>1, ConcatKeeps DEF Serves
<1> QED
  BY <1>2, <1>3, <1>4, PlainIsSound

(* The Event is stored after its window, unless the lifecycle raises. *)
LEMMA BeginsServes ==
    ASSUME NEW m \in States, Exclusive(m), NEW e \in Events, m.event[e] # Absent
    PROVE  /\ Serves(m, Begins(m, e)) /\ Begins(m, e) # <<>>
           /\ ~Raising(Begins(m, e)) =>
                 \E j \in DOMAIN Begins(m, e) : StoresAt(Begins(m, e)[j], "event", e)
<1> DEFINE opening == Activate(m, e)
           a == After(m, opening)
           n == [a EXCEPT !.context = e]
           w == Update(n, "event", e)
<1>1. Begins(m, e) = IF Raising(opening) THEN opening ELSE opening \o <<w>>
  BY DEF Begins, Then
<1>2. /\ Serves(m, opening) /\ opening # <<>>
      /\ a \in States /\ Exclusive(a) /\ a.event = m.event /\ a.rec = m.rec
  BY ActivateServes
<1> HIDE DEF opening, a
<1>3. CASE Raising(opening)
  BY <1>1, <1>2, <1>3
<1>4. CASE ~Raising(opening)
  <2>1. n \in States /\ \A g \in Files : n[g] = a[g]
    BY <1>2 DEF States, Files
  <2>2. Exclusive(n) /\ (Owned(a) => Owned(n)) /\ n["event"][e] # Absent
    BY <1>2, <2>1 DEF Exclusive, Owned, Files
  <2> HIDE DEF n
  <2>3. Serves(a, <<w>>)
    <3>1. "event" \in Files /\ e \in Names("event")
      BY DEF Files, Names
    <3> QED
      BY <2>1, <2>2, <3>1, WriteServes
  <2>4. Serves(m, opening \o <<w>>)
    BY <1>2, <2>3, ServesConcat DEF a
  <2>5. opening \in Seq(WriteSet) /\ <<w>> \in Seq(WriteSet)
    BY <1>2, <2>3 DEF Serves, AllSteps
  <2>6. /\ Len(opening) + 1 \in DOMAIN (opening \o <<w>>)
        /\ (opening \o <<w>>)[Len(opening) + 1] = w
    <3>1. 1 \in DOMAIN <<w>> /\ <<w>>[1] = w /\ Len(<<w>>) = 1
      OBVIOUS
    <3> QED
      BY <2>5, <3>1, ConcatFacts
  <2>7. StoresAt(w, "event", e)
    BY DEF StoresAt, Update
  <2>8. opening \o <<w>> # <<>>
    BY <2>6
  <2> QED
    BY <1>1, <1>4, <2>4, <2>6, <2>7, <2>8
<1> QED
  BY <1>3, <1>4

(* The Event that runs is paused and stored, then the other begins. *)
LEMMA StartsIsSound ==
    ASSUME NEW m \in States, Exclusive(m), NEW e \in Events
    PROVE  Sound(m, Starts(m, e))
<1> DEFINE pausing == PauseRunning(m)
           a == After(m, pausing)
           n == [a EXCEPT !.event[e] = "Started"]
           ws == Begins(n, e)
<1>1. Starts(m, e) = pausing \o ws
  BY DEF Starts
<1>2. /\ Serves(m, pausing)
      /\ a \in States /\ RunningIn(a) = {} /\ Exclusive(a)
  BY PausingServes
<1> HIDE DEF pausing, a
<1>3. /\ n \in States
      /\ n.window = a.window /\ n.rec = a.rec /\ n.disturber = a.disturber
      /\ \A d \in Events : n.event[d] = IF d = e THEN "Started" ELSE a.event[d]
  BY <1>2 DEF States, EventStatus
<1> HIDE DEF n
<1>4. Exclusive(n) /\ (Owned(a) => Owned(n)) /\ n.event[e] # Absent
  <2>1. \A d \in Events : n.event[d] \in RunningStates => d = e
    BY <1>2, <1>3 DEF RunningIn
  <2>2. Exclusive(n)
    BY <1>2, <1>3, <2>1 DEF Exclusive, Hot
  <2>3. Owned(a) => Owned(n)
    BY <1>3 DEF Owned, Absent
  <2> QED
    BY <1>3, <2>2, <2>3 DEF Absent
<1>5. /\ Serves(n, ws) /\ ws # <<>>
      /\ ~Raising(ws) => \E j \in DOMAIN ws : StoresAt(ws[j], "event", e)
  BY <1>3, <1>4, BeginsServes
<1> HIDE DEF ws
<1>6. AllSteps(a, ws)
  BY <1>3, <1>4, <1>5, Rebased DEF Serves
<1>7. Prompt(a, ws)
  <2>1. \A f \in {"event", "window"}, d \in Events : Hot(f, a[f][d]) => Hot(f, n[f][d])
    BY <1>2, <1>3 DEF Hot, RunningIn
  <2> QED
    BY <1>3, <1>4, <1>5, <2>1, Rebased DEF Serves
<1>8. ~Raising(ws) => Covered(a, ws, {})
  <2> SUFFICES ASSUME ~Raising(ws) PROVE Covered(a, ws, {})
    OBVIOUS
  <2>1. \A f \in Files : \A x \in Names(f) :
            a[f][x] = n[f][x] \/ \E j \in DOMAIN ws : StoresAt(ws[j], f, x)
    BY <1>3, <1>5 DEF Files, Names
  <2> QED
    BY <1>3, <1>4, <1>5, <2>1, Rebased DEF Serves
<1>9. EventFirst(ws) /\ Plain(ws)
  BY <1>5 DEF Serves
<1> QED
  BY <1>1, <1>2, <1>5, <1>6, <1>7, <1>8, <1>9, Prefixed DEF a

(* An Event that is reported is stored, then its window. *)
LEMMA AdmitsServes ==
    ASSUME NEW m \in States, RunningIn(m) = {}, Exclusive(m), Owned(m),
           NEW e \in Spontaneous, m.event[e] = Absent
    PROVE  LET a == After(m, Admits(m, e, "Started")) IN
           /\ Serves(m, Admits(m, e, "Started"))
           /\ a \in States /\ Exclusive(a) /\ a.event[e] # Absent
<1> DEFINE n == [m EXCEPT !.event[e] = "Started", !.window[e] = "Created"]
           ws == Admits(m, e, "Started")
<1>0. e \in Events
  BY DEF Events
<1>1. /\ n \in States /\ n.rec = m.rec /\ n.disturber = m.disturber
      /\ \A d \in Events : n.event[d] = IF d = e THEN "Started" ELSE m.event[d]
      /\ \A d \in Events : n.window[d] = IF d = e THEN "Created" ELSE m.window[d]
  BY <1>0 DEF States, EventStatus, WindowStatus
<1>2. ws = <<New(n, "event", e), New(n, "window", e)>>
  BY DEF Admits
<1> HIDE DEF n, ws
<1>3. /\ ws[1] = New(n, "event", e) /\ ws[2] = New(n, "window", e)
      /\ DOMAIN ws = {1, 2} /\ ws # <<>> /\ Last(ws) = ws[2]
  BY <1>2 DEF Last
<1>4. /\ New(n, "event", e) \in WriteSet /\ New(n, "window", e) \in WriteSet
      /\ \A i \in {1, 2} : ws[i].mem = n /\ ws[i].of = e
      /\ ws[1].file = "event" /\ ws[2].file = "window"
  BY <1>0, <1>1, <1>3 DEF New, WriteSet, Files
<1>5. ws \in Seq(WriteSet) /\ After(m, ws) = n
  BY <1>2, <1>3, <1>4 DEF After
<1>6. Before(m, ws, 1) = m /\ Before(m, ws, 2) = n
  BY <1>4 DEF Before
<1>7. Exclusive(n) /\ Owned(n) /\ n.event[e] # Absent
  <2>1. \A d \in Events : n.event[d] \in RunningStates => d = e
    BY <1>1 DEF RunningIn
  <2>2. \A d \in Events : n.window[d] = "Active" => m.window[d] = "Active"
    BY <1>1
  <2>3. Exclusive(n)
    BY <2>1, <2>2 DEF Exclusive, Hot
  <2>4. Owned(n)
    BY <1>1 DEF Owned, Absent
  <2> QED
    BY <1>0, <1>1, <2>3, <2>4 DEF Absent
<1>8. AllSteps(m, ws)
  <2>1. StepOK(m, ws[1])
    BY <1>0, <1>1, <1>4, <1>7 DEF StepOK, Value, Files, Names
  <2>2. StepOK(n, ws[2])
    BY <1>0, <1>1, <1>4, <1>7 DEF StepOK, Value, Files, Names, Absent
  <2> QED
    BY <1>3, <1>5, <1>6, <2>1, <2>2 DEF AllSteps
<1>9. Prompt(m, ws)
  <2>1. m.window[e] = Absent
    BY <1>0 DEF Owned
  <2>2. \A f \in {"event", "window"}, d \in Events : Hot(f, m[f][d]) => Hot(f, n[f][d])
    BY <1>1, <2>1 DEF Hot, RunningStates, Absent
  <2> QED
    BY <1>3, <1>4, <1>6, <2>2 DEF Prompt
<1>10. Covered(m, ws, {})
  <2>1. \A f \in Files : \A x \in Names(f) :
            n[f][x] = m[f][x] \/ (f \in {"event", "window"} /\ x = e)
    BY <1>1 DEF Files, Names
  <2>2. StoresAt(ws[1], "event", e) /\ StoresAt(ws[2], "window", e)
    BY <1>4 DEF StoresAt
  <2>3. ASSUME NEW f \in Files, NEW x \in Names(f), n[f][x] # m[f][x]
        PROVE  \E j \in {1, 2} : j >= 1 /\ StoresAt(ws[j], f, x)
    BY <2>1, <2>2, <2>3
  <2> QED
    BY <1>3, <1>4, <1>6, <2>3 DEF Covered
<1>11. EventFirst(ws)
  BY <1>3, <1>4 DEF EventFirst, StoresAt
<1>12. Plain(ws)
  <2>1. \A r \in Recommendations, k \in 1 .. MaxCopies : e # <<r, k>>
    BY NamesDiffer
  <2> QED
    BY <1>3, <1>4, <2>1 DEF Plain, NewCopy, Settles, StoresAt
<1> QED
  BY <1>1, <1>5, <1>7, <1>8, <1>9, <1>10, <1>11, <1>12 DEF Serves, ws

LEMMA ReportsIsSound ==
    ASSUME NEW m \in States, Exclusive(m), Owned(m),
           NEW e \in Spontaneous, m.event[e] = Absent
    PROVE  Sound(m, Reports(m, e))
<1> DEFINE pausing == PauseRunning(m)
           a == After(m, pausing)
           admitting == Admits(a, e, "Started")
           b == After(a, admitting)
<1>1. Reports(m, e) = pausing \o admitting \o Begins(b, e)
  <2>1. admitting # <<>>
    BY DEF Admits
  <2>2. After(m, admitting) = b
    BY <2>1 DEF After
  <2> QED
    BY <2>2 DEF Reports
<1>2. e \in Events
  BY DEF Events
<1>3. /\ Serves(m, pausing) /\ a \in States /\ RunningIn(a) = {} /\ Exclusive(a) /\ Owned(a)
      /\ a.event[e] = Absent
  BY <1>2, PausingServes DEF RunningStates, Absent
<1> HIDE DEF pausing, a
<1>4. Serves(a, admitting) /\ b \in States /\ Exclusive(b) /\ b.event[e] # Absent
  BY <1>3, AdmitsServes
<1> HIDE DEF admitting, b
<1>5. Serves(b, Begins(b, e))
  BY <1>2, <1>4, BeginsServes
<1>6. Serves(m, pausing \o admitting) /\ After(m, pausing \o admitting) = b
  BY <1>3, <1>4, ServesConcat DEF a, b
<1>7. Serves(m, pausing \o admitting \o Begins(b, e))
  BY <1>5, <1>6, ServesConcat
<1> QED
  BY <1>1, <1>7, ServesIsSound

(* One Event changes its status, and nothing begins to run. *)
LEMMA StatusServes ==
    ASSUME NEW m \in States, NEW n \in States, Exclusive(m), NEW e \in Events,
           n.window = m.window, n.rec = m.rec, n.disturber = m.disturber,
           \A d \in Events : d # e => n.event[d] = m.event[d],
           n.event[e] \notin RunningStates \cup {Absent}
    PROVE  Serves(m, <<Update(n, "event", e)>>)
           /\ After(m, <<Update(n, "event", e)>>) = n
<1>1. \A g \in Files : \A y \in Names(g) : n[g][y] = m[g][y] \/ (g = "event" /\ y = e)
  BY DEF Files, Names
<1>2. Exclusive(n)
  <2>1. \A f \in {"event", "window"}, d \in Events : Hot(f, n[f][d]) => Hot(f, m[f][d])
    BY DEF Hot
  <2> QED
    BY <2>1, LettingGo
<1>3. Owned(m) => Owned(n)
  BY DEF Owned
<1>4. "event" \in Files /\ e \in Names("event") /\ n["event"][e] # Absent
  BY DEF Files, Names
<1> QED
  BY <1>1, <1>2, <1>3, <1>4, WriteServes

LEMMA PausesIsSound ==
    ASSUME NEW m \in States, Exclusive(m), NEW e \in Events
    PROVE  Sound(m, Pauses(m, e))
<1> DEFINE p == [m EXCEPT !.event[e] = "Paused"]
           n == WithoutContext(p, e)
<1>1. Pauses(m, e) = <<Update(n, "event", e)>>
  BY DEF Pauses
<1>2. /\ n \in States /\ n.window = m.window /\ n.rec = m.rec /\ n.disturber = m.disturber
      /\ \A d \in Events : d # e => n.event[d] = m.event[d]
      /\ n.event[e] = "Paused"
  BY DEF WithoutContext, States, EventStatus
<1> HIDE DEF n
<1>3. n.event[e] \notin RunningStates \cup {Absent}
  BY <1>2 DEF RunningStates, Absent
<1> QED
  BY <1>1, <1>2, <1>3, StatusServes, ServesIsSound

LEMMA ChangesIsSound ==
    ASSUME NEW m \in States, Exclusive(m), NEW e \in Events,
           NEW status \in EventStatus \ RunningStates
    PROVE  Sound(m, Changes(m, e, status))
<1> DEFINE n == [m EXCEPT !.event[e] = status]
<1>1. Changes(m, e, status) = <<Update(n, "event", e)>>
  BY DEF Changes
<1>2. /\ n \in States /\ n.window = m.window /\ n.rec = m.rec /\ n.disturber = m.disturber
      /\ \A d \in Events : d # e => n.event[d] = m.event[d]
      /\ n.event[e] = status
  BY DEF States
<1> HIDE DEF n
<1>3. n.event[e] \notin RunningStates \cup {Absent}
  BY <1>2 DEF EventStatus, Absent
<1> QED
  BY <1>1, <1>2, <1>3, StatusServes, ServesIsSound

LEMMA ResumesIsSound ==
    ASSUME NEW m \in States, Exclusive(m), NEW e \in Events
    PROVE  Sound(m, Resumes(m, e))
<1> DEFINE pausing == PauseRunning(m)
           a == After(m, pausing)
           n == [a EXCEPT !.event[e] = "Resumed", !.context = e]
<1>1. Resumes(m, e) = pausing \o <<Update(n, "event", e)>>
  BY DEF Resumes
<1>2. Serves(m, pausing) /\ a \in States /\ RunningIn(a) = {} /\ Exclusive(a)
  BY PausingServes
<1> HIDE DEF pausing, a
<1>3. /\ n \in States /\ n.window = a.window /\ n.rec = a.rec /\ n.disturber = a.disturber
      /\ \A d \in Events : n.event[d] = IF d = e THEN "Resumed" ELSE a.event[d]
  BY <1>2 DEF States, EventStatus
<1> HIDE DEF n
<1>4. Exclusive(n) /\ (Owned(a) => Owned(n))
  <2>1. \A d \in Events : n.event[d] \in RunningStates => d = e
    BY <1>2, <1>3 DEF RunningIn
  <2>2. Exclusive(n)
    BY <1>2, <1>3, <2>1 DEF Exclusive, Hot
  <2>3. Owned(a) => Owned(n)
    BY <1>3 DEF Owned, Absent
  <2> QED
    BY <2>2, <2>3
<1>5. \A g \in Files : \A y \in Names(g) : n[g][y] = a[g][y] \/ (g = "event" /\ y = e)
  BY <1>3 DEF Files, Names
<1>6. Serves(a, <<Update(n, "event", e)>>)
  <2>1. "event" \in Files /\ e \in Names("event") /\ n["event"][e] # Absent
    BY <1>3 DEF Files, Names, Absent
  <2> QED
    BY <1>3, <1>4, <1>5, <2>1, WriteServes
<1>7. Serves(m, pausing \o <<Update(n, "event", e)>>)
  BY <1>2, <1>6, ServesConcat DEF a
<1> QED
  BY <1>1, <1>7, ServesIsSound

(* The window is closed before what has been completed is stored. *)
LEMMA CompletesIsSound ==
    ASSUME NEW m \in States, Exclusive(m), NEW e \in Events
    PROVE  Sound(m, Completes(m, e))
<1> DEFINE done == [m EXCEPT !.event[e] = "Completed"]
           closing == IF m.window[e] = "Active" THEN Expire(done, e) ELSE <<>>
           closed == After(done, closing)
           n == WithoutContext(closed, e)
           w == Update(n, "event", e)
<1>1. Completes(m, e) = closing \o <<w>>
  BY DEF Completes
<1>2. /\ done \in States
      /\ done.window = m.window /\ done.rec = m.rec /\ done.disturber = m.disturber
      /\ \A d \in Events : done.event[d] = IF d = e THEN "Completed" ELSE m.event[d]
  BY DEF States, EventStatus
<1> HIDE DEF done
<1>3. Exclusive(done) /\ (Owned(m) => Owned(done))
  <2>1. \A f \in {"event", "window"}, d \in Events : Hot(f, done[f][d]) => Hot(f, m[f][d])
    BY <1>2 DEF Hot, RunningStates
  <2>2. Exclusive(done)
    BY <2>1, LettingGo
  <2>3. Owned(m) => Owned(done)
    BY <1>2 DEF Owned, Absent
  <2> QED
    BY <2>2, <2>3
<1>4. /\ Serves(done, closing) /\ closed \in States /\ Exclusive(closed)
      /\ closed.event = done.event
      /\ \A d \in Events : closed.window[d] = "Active" => m.window[d] = "Active"
      /\ closing = <<>> \/ \E v : closing = <<v>> /\ v.mem = closed
  <2>1. CASE m.window[e] = "Active"
    <3>1. closing = Expire(done, e) /\ e \in OpenIn(done)
      BY <1>2, <2>1 DEF OpenIn
    <3>2. closing = <<Update([done EXCEPT !.window[e] = "Expired"], "window", e)>>
      BY <3>1 DEF Expire
    <3> HIDE DEF closing
    <3>3. closed = [done EXCEPT !.window[e] = "Expired"]
      BY <3>2 DEF After, Last, Update
    <3>4. /\ Serves(done, closing) /\ closed \in States /\ Exclusive(closed)
          /\ closed.event = done.event
          /\ closed.window = [done.window EXCEPT ![e] = "Expired"]
      BY <1>2, <1>3, <3>1, ExpireServes
    <3>5. closing = <<Update(closed, "window", e)>> /\ Update(closed, "window", e).mem = closed
      BY <3>2, <3>3 DEF Update
    <3>6. \A d \in Events : closed.window[d] = "Active" => m.window[d] = "Active"
      BY <1>2, <3>4 DEF States
    <3> QED
      BY <3>4, <3>5, <3>6
  <2>2. CASE m.window[e] # "Active"
    BY <1>2, <1>3, <2>2, NothingServes
  <2> QED
    BY <2>1, <2>2
<1> HIDE DEF closing, closed
<1>5. /\ n \in States /\ n.event = closed.event /\ n.window = closed.window
      /\ n.rec = closed.rec /\ n.disturber = closed.disturber
  BY <1>4 DEF WithoutContext, States
<1> HIDE DEF n
<1>6. Serves(closed, <<w>>)
  <2>1. n.event[e] \notin RunningStates \cup {Absent}
    BY <1>2, <1>4, <1>5 DEF RunningStates, Absent
  <2> QED
    BY <1>4, <1>5, <2>1, StatusServes
<1> DEFINE ws == closing \o <<w>>
<1>7. Serves(done, ws)
  BY <1>4, <1>6, ServesConcat DEF closed
<1>8. ws # <<>> /\ ws \in Seq(WriteSet) /\ \E j \in DOMAIN ws : StoresAt(ws[j], "event", e)
  <2>1. closing \in Seq(WriteSet) /\ <<w>> \in Seq(WriteSet)
    BY <1>4, <1>6 DEF Serves, AllSteps
  <2>2. 1 \in DOMAIN <<w>> /\ <<w>>[1] = w /\ Len(<<w>>) = 1
    OBVIOUS
  <2>3. ws \in Seq(WriteSet) /\ Len(closing) + 1 \in DOMAIN ws /\ ws[Len(closing) + 1] = w
    BY <2>1, <2>2, ConcatFacts
  <2>4. StoresAt(w, "event", e)
    BY DEF StoresAt, Update
  <2> QED
    BY <2>3, <2>4
<1>9. Quiet(m, ws)
  <2>1. \A f \in {"event", "window"}, d \in Events :
            /\ Hot(f, closed[f][d]) => Hot(f, m[f][d])
            /\ Hot(f, n[f][d]) => Hot(f, closed[f][d])
    BY <1>2, <1>4, <1>5 DEF Hot, RunningStates
  <2>2. w.mem = n
    BY DEF Update
  <2>3. CASE closing = <<>>
    <3>1. ws = <<w>> /\ DOMAIN ws = {1} /\ ws[1] = w
      BY <2>3
    <3> QED
      BY <2>1, <2>2, <3>1 DEF Quiet, Before
  <2>4. ASSUME NEW v, closing = <<v>>, v.mem = closed PROVE Quiet(m, ws)
    <3> HIDE DEF w
    <3>1. DOMAIN ws = {1, 2} /\ ws[1] = v /\ ws[2] = w
      BY <2>4, TwoWrites
    <3>2. Before(m, ws, 1) = m /\ Before(m, ws, 2) = closed
      BY <2>4, <3>1 DEF Before
    <3> HIDE DEF ws
    <3> QED
      BY <2>1, <2>2, <2>4, <3>1, <3>2 DEF Quiet
  <2> QED
    BY <1>4, <2>3, <2>4
<1> HIDE DEF ws
<1>10. AllSteps(m, ws) /\ Covered(m, ws, {})
  <2>1. \A f \in Files : \A x \in Names(f) :
            m[f][x] = done[f][x] \/ \E j \in DOMAIN ws : StoresAt(ws[j], f, x)
    BY <1>2, <1>8 DEF Files, Names
  <2> QED
    BY <1>2, <1>3, <1>7, <1>8, <2>1, Rebased DEF Serves
<1>11. EventFirst(ws) /\ Plain(ws)
  BY <1>7 DEF Serves
<1> QED
  BY <1>1, <1>9, <1>10, <1>11, PlainIsSound DEF ws

-----------------------------------------------------------------------------
(***************************************************************************)
(* A disturbance.                                                          *)
(***************************************************************************)

(* Which Events there are does not change. *)
SameEvents(m, n) == \A e \in Events : m.event[e] = Absent <=> n.event[e] = Absent

LEMMA DisturbsServes ==
    ASSUME NEW m \in States, Exclusive(m), Owned(m)
    PROVE  LET a == After(m, Disturbs(m)) IN
           /\ Serves(m, Disturbs(m))
           /\ a \in States /\ Exclusive(a) /\ Owned(a) /\ SameEvents(m, a)
           /\ a.rec = m.rec /\ a.disturber = m.disturber
<1>1. CASE RunningIn(m) = {}
  <2>1. Disturbs(m) = <<>>
    BY <1>1 DEF Disturbs
  <2> QED
    BY <2>1, NothingServes DEF SameEvents
<1>2. CASE RunningIn(m) # {}
  <2> DEFINE e == CHOOSE e \in RunningIn(m) : TRUE
             closing == IF m.window[e] = "Active" THEN Expire(m, e) ELSE <<>>
             closed == After(m, closing)
             n == [closed EXCEPT !.event[e] = "Interrupted"]
             o == [n EXCEPT !.context = Idle]
             rest == IF m.event[e] = "Resumed" THEN <<Raises(closed)>>
                     ELSE <<Update(n, "event", e), Unstored(o)>>
  <2>1. Disturbs(m) = closing \o rest
    BY <1>2 DEF Disturbs
  <2>2. e \in Events /\ m.event[e] \in RunningStates
    BY <1>2 DEF RunningIn
  <2> HIDE DEF e
  <2>3. /\ Serves(m, closing) /\ closed \in States /\ Exclusive(closed) /\ Owned(closed)
        /\ closed.event = m.event /\ closed.rec = m.rec /\ closed.disturber = m.disturber
    <3>1. CASE m.window[e] = "Active"
      <4>1. closing = Expire(m, e) /\ e \in OpenIn(m)
        BY <2>2, <3>1 DEF OpenIn
      <4> QED
        BY <4>1, ExpireServes
    <3>2. CASE m.window[e] # "Active"
      BY <3>2, NothingServes
    <3> QED
      BY <3>1, <3>2
  <2> HIDE DEF closing, closed
  <2>4. /\ n \in States /\ n.window = closed.window
        /\ n.rec = m.rec /\ n.disturber = m.disturber
        /\ \A d \in Events : n.event[d] = IF d = e THEN "Interrupted" ELSE m.event[d]
    BY <2>2, <2>3 DEF States, EventStatus
  <2> HIDE DEF n
  <2>5. o \in States /\ \A g \in Files : o[g] = n[g]
    BY <2>4 DEF States, Files
  <2> HIDE DEF o
  <2>6. n.event[e] \notin RunningStates \cup {Absent}
    BY <2>2, <2>4 DEF RunningStates, Absent
  <2>7. Serves(closed, <<Update(n, "event", e)>>)
        /\ After(closed, <<Update(n, "event", e)>>) = n
    BY <2>2, <2>3, <2>4, <2>6, StatusServes
  <2>8. Exclusive(n) /\ Owned(n) /\ SameEvents(m, n)
    <3>1. \A f \in {"event", "window"}, d \in Events : Hot(f, n[f][d]) => Hot(f, closed[f][d])
      BY <2>3, <2>4 DEF Hot, RunningStates
    <3>2. Exclusive(n)
      BY <2>3, <3>1, LettingGo
    <3>3. Owned(n) /\ SameEvents(m, n)
      BY <2>2, <2>3, <2>4 DEF Owned, SameEvents, RunningStates, Absent
    <3> QED
      BY <3>2, <3>3
  <2>9. Serves(n, <<Unstored(o)>>) /\ After(n, <<Unstored(o)>>) = o
    BY <2>4, <2>5, <2>8, SilentServes
  <2>10. Exclusive(o) /\ Owned(o) /\ SameEvents(m, o) /\ o.rec = m.rec /\ o.disturber = m.disturber
    BY <2>4, <2>5, <2>8 DEF Exclusive, Owned, SameEvents, Files
  <2>11. /\ Serves(closed, rest)
         /\ LET a == After(closed, rest) IN
            /\ a \in States /\ Exclusive(a) /\ Owned(a) /\ SameEvents(m, a)
            /\ a.rec = m.rec /\ a.disturber = m.disturber
    <3>1. CASE m.event[e] = "Resumed"
      <4>1. Serves(closed, rest) /\ After(closed, rest) = closed
        BY <2>3, <3>1, SilentServes
      <4> QED
        BY <2>3, <4>1 DEF SameEvents
    <3>2. CASE m.event[e] # "Resumed"
      <4>1. rest = <<Update(n, "event", e)>> \o <<Unstored(o)>>
        BY <3>2, TwoWrites
      <4> HIDE DEF rest
      <4>2. Serves(closed, rest) /\ After(closed, rest) = o
        BY <2>7, <2>9, <4>1, ServesConcat
      <4> QED
        BY <2>5, <2>10, <4>2
    <3> QED
      BY <3>1, <3>2
  <2> HIDE DEF rest
  <2>12. Serves(m, closing \o rest) /\ After(m, closing \o rest) = After(closed, rest)
    BY <2>3, <2>11, ServesConcat DEF closed
  <2> QED
    BY <2>1, <2>11, <2>12
<1> QED
  BY <1>1, <1>2

-----------------------------------------------------------------------------
(***************************************************************************)
(* The Recommendations that are consumed.                                  *)
(***************************************************************************)

Copy(m, r) == <<r, Min(Unused(m, r))>>

Copies(m, done) == {Copy(m, r) : r \in done}

LEMMA CopyIsNew ==
    ASSUME NEW m, NEW r \in Accepted(m)
    PROVE  /\ r \in Recommendations /\ m.rec[r] = "Accepted"
           /\ Min(Unused(m, r)) \in 1 .. MaxCopies
           /\ Copy(m, r) \in Events /\ m.event[Copy(m, r)] = Absent
<1>1. r \in Recommendations /\ m.rec[r] = "Accepted" /\ Unused(m, r) # {}
  BY DEF Accepted
<1>2. Unused(m, r) \in SUBSET Nat
  BY FinitelyMany DEF Unused
<1>3. Min(Unused(m, r)) \in Unused(m, r)
  BY <1>1, <1>2, Least
<1> QED
  BY <1>1, <1>3 DEF Unused, Copy, Events

LEMMA MaterialisedIs ==
    ASSUME NEW m \in States, Exclusive(m), Owned(m), NEW done \in SUBSET Accepted(m)
    PROVE  LET n == Materialised(m, done) IN
           /\ n \in States /\ n.disturber = m.disturber
           /\ n.context = m.context /\ n.scheduling = m.scheduling
           /\ \A e \in Events :
                 n.event[e] = IF e \in Copies(m, done) THEN "Scheduled" ELSE m.event[e]
           /\ \A e \in Events :
                 n.window[e] = IF e \in Copies(m, done) THEN "Created" ELSE m.window[e]
           /\ \A r \in Recommendations :
                 n.rec[r] = IF r \in done THEN "Consumed" ELSE m.rec[r]
           /\ \A r \in Accepted(m) \ done : Unused(n, r) = Unused(m, r)
<1> DEFINE n == Materialised(m, done)
<1>1. {<<r, Min(Unused(m, r))>> : r \in done} = Copies(m, done)
  BY DEF Copies, Copy
<1>2. n = [m EXCEPT
             !.event = [e \in Events |-> IF e \in Copies(m, done) THEN "Scheduled" ELSE @[e]],
             !.window = [e \in Events |-> IF e \in Copies(m, done) THEN "Created" ELSE @[e]],
             !.rec = [r \in Recommendations |-> IF r \in done THEN "Consumed" ELSE @[r]]]
  BY <1>1 DEF Materialised
<1> HIDE DEF n
<1>3. /\ n.disturber = m.disturber
      /\ n.context = m.context /\ n.scheduling = m.scheduling
      /\ n.event = [e \in Events |-> IF e \in Copies(m, done) THEN "Scheduled" ELSE m.event[e]]
      /\ n.window = [e \in Events |-> IF e \in Copies(m, done) THEN "Created" ELSE m.window[e]]
      /\ n.rec = [r \in Recommendations |-> IF r \in done THEN "Consumed" ELSE m.rec[r]]
  BY <1>2 DEF States
<1>4. n \in States
  <2>1. n.event \in [Events -> EventStatus \cup {Absent}]
    BY <1>3 DEF States, EventStatus
  <2>2. n.window \in [Events -> WindowStatus \cup {Absent}]
    BY <1>3 DEF States, WindowStatus
  <2>3. n.rec \in [Recommendations -> RecommendationStatus \cup {Absent}]
    BY <1>3 DEF States, RecommendationStatus
  <2>4. n = [event |-> n.event, window |-> n.window, rec |-> n.rec, disturber |-> n.disturber,
             context |-> n.context, scheduling |-> n.scheduling]
    BY <1>2 DEF States
  <2> QED
    BY <1>3, <2>1, <2>2, <2>3, <2>4 DEF States
<1>5. ASSUME NEW r \in Accepted(m) \ done PROVE Unused(n, r) = Unused(m, r)
  <2>1. r \in Recommendations
    BY DEF Accepted
  <2>2. \A k \in 1 .. MaxCopies : <<r, k>> \in Events /\ <<r, k>> \notin Copies(m, done)
    BY <2>1 DEF Events, Copies, Copy
  <2>3. \A k \in 1 .. MaxCopies : n.event[<<r, k>>] = m.event[<<r, k>>]
    BY <1>3, <2>2
  <2> QED
    BY <2>3 DEF Unused
<1> QED
  BY <1>3, <1>4, <1>5 DEF n

(* Nothing of what is hot is touched. *)
LEMMA CopiesAreCold ==
    ASSUME NEW m \in States, Owned(m), NEW done \in SUBSET Accepted(m)
    PROVE  \A e \in Copies(m, done) :
               e \in Events /\ m.event[e] = Absent /\ m.window[e] = Absent
BY CopyIsNew DEF Copies, Owned

(* The Recommendations are consumed one after the other. *)
Turn(m, q) == SetToSeq(Accepted(m))[q]

Done(m, q) == {Turn(m, j) : j \in 1 .. q}

Made(m, q) == Materialised(m, Done(m, q))

Admitted(m, q) ==
    LET c == Copy(m, Turn(m, q))
    IN  [Made(m, q - 1) EXCEPT !.event[c] = "Scheduled", !.window[c] = "Created"]

LEMMA Turns ==
    ASSUME NEW m
    PROVE  LET n == Len(SetToSeq(Accepted(m))) IN
           /\ n \in Nat
           /\ \A q \in 1 .. n : Turn(m, q) \in Accepted(m) /\ Turn(m, q) \notin Done(m, q - 1)
           /\ \A q \in 0 .. n : Done(m, q) \in SUBSET Accepted(m)
           /\ \A q \in 1 .. n : Done(m, q) = Done(m, q - 1) \cup {Turn(m, q)}
           /\ \A p, q \in 1 .. n : Turn(m, p) = Turn(m, q) => p = q
           /\ \A r \in Accepted(m) : \E q \in 1 .. n : Turn(m, q) = r
           /\ Done(m, 0) = {} /\ Done(m, n) = Accepted(m)
<1> DEFINE rs == SetToSeq(Accepted(m))
           n == Len(rs)
<1>1. IsFiniteSet(Accepted(m))
  <2>1. Accepted(m) \in SUBSET Recommendations
    BY DEF Accepted
  <2> QED
    BY <2>1, FinitelyMany, FS_Subset
<1>2. /\ n \in Nat /\ DOMAIN rs = 1 .. n
      /\ \A q \in 1 .. n : Turn(m, q) \in Accepted(m)
      /\ \A p, q \in 1 .. n : Turn(m, p) = Turn(m, q) => p = q
      /\ \A r \in Accepted(m) : \E q \in 1 .. n : Turn(m, q) = r
  BY <1>1, SetAsSeq DEF Turn
<1> HIDE DEF n, rs
<1>3. \A q \in 1 .. n : Turn(m, q) \notin Done(m, q - 1)
  <2>1. \A q \in 1 .. n : \A j \in 1 .. q - 1 : j \in 1 .. n /\ j # q
    BY <1>2
  <2> QED
    BY <1>2, <2>1 DEF Done
<1>4. \A q \in 0 .. n : Done(m, q) \in SUBSET Accepted(m)
  <2>1. \A q \in 0 .. n : \A j \in 1 .. q : j \in 1 .. n
    BY <1>2
  <2> QED
    BY <1>2, <2>1 DEF Done
<1>5. ASSUME NEW q \in 1 .. n PROVE Done(m, q) = Done(m, q - 1) \cup {Turn(m, q)}
  <2>1. 1 .. q = (1 .. q - 1) \cup {q}
    BY <1>2
  <2> QED
    BY <2>1 DEF Done
<1>6. Done(m, 0) = {}
  <2>1. 1 .. 0 = {}
    OBVIOUS
  <2> QED
    BY <2>1 DEF Done
<1>7. Done(m, n) = Accepted(m)
  BY <1>2 DEF Done
<1> QED
  BY <1>2, <1>3, <1>4, <1>5, <1>6, <1>7 DEF n, rs

LEMMA ThreeWrites ==
    ASSUME NEW a, NEW b, NEW c
    PROVE  LET s == <<a, b>> \o <<c>> IN s[1] = a /\ s[2] = b /\ s[3] = c
<1>1. /\ <<a, b>> \in Seq({a, b, c}) /\ Len(<<a, b>>) = 2 /\ DOMAIN <<a, b>> = {1, 2}
      /\ <<a, b>>[1] = a /\ <<a, b>>[2] = b
      /\ <<c>> \in Seq({a, b, c}) /\ DOMAIN <<c>> = {1} /\ <<c>>[1] = c
  OBVIOUS
<1> DEFINE s == <<a, b>> \o <<c>>
<1>2. s[1] = a /\ s[2] = b /\ s[Len(<<a, b>>) + 1] = c
  BY <1>1, ConcatFacts
<1> HIDE DEF s
<1>3. s[1] = a /\ s[2] = b /\ s[3] = c
  BY <1>1, <1>2
<1> QED
  BY <1>3 DEF s

(* The place of the s-th of the three steps in which the q-th is consumed. *)
Place(q, s) == 3 * (q - 1) + s

LEMMA PlaceIs ==
    ASSUME NEW n \in Nat, NEW q \in 1 .. n, NEW s \in 1 .. 3
    PROVE  /\ Place(q, s) \in 1 .. 3 * n
           /\ (Place(q, s) + 2) \div 3 = q
           /\ ((Place(q, s) + 2) % 3) + 1 = s
BY DEF Place

LEMMA Places ==
    ASSUME NEW n \in Nat
    PROVE  /\ \A i \in 1 .. 3 * n : \E q \in 1 .. n :
                 i = Place(q, 1) \/ i = Place(q, 2) \/ i = Place(q, 3)
           /\ \A q \in 1 .. n, s \in 1 .. 3 : Place(q, s) \in 1 .. 3 * n
           /\ \A p, q \in 1 .. n, s, t \in 1 .. 3 : Place(p, s) = Place(q, t) => p = q /\ s = t
           /\ \A q \in 1 .. n :
                 /\ Place(q, 1) = 1 <=> q = 1
                 /\ q # 1 => q - 1 \in 1 .. n /\ Place(q, 1) - 1 = Place(q - 1, 3)
                 /\ Place(q, 2) # 1 /\ Place(q, 2) - 1 = Place(q, 1)
                 /\ Place(q, 3) # 1 /\ Place(q, 3) - 1 = Place(q, 2)
                 /\ Place(q, 1) < Place(q, 2)
           /\ n # 0 => Place(n, 3) = 3 * n
<1>1. ASSUME NEW i \in 1 .. 3 * n
      PROVE  \E q \in 1 .. n : i = Place(q, 1) \/ i = Place(q, 2) \/ i = Place(q, 3)
  <2>1. /\ (i + 2) \div 3 \in 1 .. n
        /\ \/ i = 3 * ((i + 2) \div 3 - 1) + 1
           \/ i = 3 * ((i + 2) \div 3 - 1) + 2
           \/ i = 3 * ((i + 2) \div 3 - 1) + 3
    OBVIOUS
  <2> QED
    BY <2>1 DEF Place
<1>2. ASSUME NEW q \in 1 .. n, NEW s \in 1 .. 3
      PROVE  Place(q, s) \in 1 .. 3 * n
  BY DEF Place
<1>3. ASSUME NEW p \in 1 .. n, NEW q \in 1 .. n, NEW s \in 1 .. 3, NEW t \in 1 .. 3,
             Place(p, s) = Place(q, t)
      PROVE  p = q /\ s = t
  BY <1>3 DEF Place
<1>4. ASSUME NEW q \in 1 .. n
      PROVE  /\ Place(q, 1) = 1 <=> q = 1
             /\ q # 1 => q - 1 \in 1 .. n /\ Place(q, 1) - 1 = Place(q - 1, 3)
             /\ Place(q, 2) # 1 /\ Place(q, 2) - 1 = Place(q, 1)
             /\ Place(q, 3) # 1 /\ Place(q, 3) - 1 = Place(q, 2)
             /\ Place(q, 1) < Place(q, 2)
  BY DEF Place
<1>5. n # 0 => Place(n, 3) = 3 * n
  BY DEF Place
<1> QED
  BY <1>1, <1>2, <1>3, <1>4, <1>5

(* The three steps in which one Recommendation is consumed. *)
LEMMA MaterialisesIs ==
    ASSUME NEW m \in States, Exclusive(m), Owned(m),
           NEW q \in 1 .. Len(SetToSeq(Accepted(m)))
    PROVE  LET ws == Materialises(Made(m, q - 1), Turn(m, q))
               c == Copy(m, Turn(m, q))
           IN  /\ ws[1] = New(Admitted(m, q), "event", c)
               /\ ws[2] = New(Admitted(m, q), "window", c)
               /\ ws[3] = Unstored(Made(m, q))
<1> DEFINE r == Turn(m, q)
           c == Copy(m, r)
           p == Made(m, q - 1)
           a == Admitted(m, q)
           b == [a EXCEPT !.rec[r] = "Consumed"]
<1>1. /\ r \in Accepted(m) /\ r \notin Done(m, q - 1)
      /\ Done(m, q - 1) \in SUBSET Accepted(m) /\ Done(m, q) \in SUBSET Accepted(m)
      /\ Done(m, q) = Done(m, q - 1) \cup {r}
  <2>1. Len(SetToSeq(Accepted(m))) \in Nat
    BY Turns
  <2>2. q - 1 \in 0 .. Len(SetToSeq(Accepted(m))) /\ q \in 0 .. Len(SetToSeq(Accepted(m)))
    BY <2>1
  <2> QED
    BY <2>2, Turns
<1>2. Unused(p, r) = Unused(m, r)
  BY <1>1, MaterialisedIs DEF Made
<1>3. a = [p EXCEPT !.event[c] = "Scheduled", !.window[c] = "Created"]
  BY DEF Admitted
<1>4. <<r, Min(Unused(p, r))>> = c
  BY <1>2 DEF Copy
<1> HIDE DEF r, c, p, a
<1>5. Admits(p, <<r, Min(Unused(p, r))>>, "Scheduled") = <<New(a, "event", c), New(a, "window", c)>>
  BY <1>3, <1>4 DEF Admits
<1>6. After(p, <<New(a, "event", c), New(a, "window", c)>>) = a
  BY DEF After, Last, New
<1>7. Materialises(p, r) = <<New(a, "event", c), New(a, "window", c)>> \o <<Unstored(b)>>
  BY <1>5, <1>6 DEF Materialises
<1>8. b = Made(m, q)
  <2> DEFINE n == Made(m, q)
  <2>1. /\ p \in States /\ p.disturber = m.disturber
        /\ p.context = m.context /\ p.scheduling = m.scheduling
        /\ \A e \in Events :
              p.event[e] = IF e \in Copies(m, Done(m, q - 1)) THEN "Scheduled" ELSE m.event[e]
        /\ \A e \in Events :
              p.window[e] = IF e \in Copies(m, Done(m, q - 1)) THEN "Created" ELSE m.window[e]
        /\ \A x \in Recommendations :
              p.rec[x] = IF x \in Done(m, q - 1) THEN "Consumed" ELSE m.rec[x]
    BY <1>1, MaterialisedIs DEF Made, p
  <2>2. /\ n \in States /\ n.disturber = m.disturber
        /\ n.context = m.context /\ n.scheduling = m.scheduling
        /\ \A e \in Events :
              n.event[e] = IF e \in Copies(m, Done(m, q)) THEN "Scheduled" ELSE m.event[e]
        /\ \A e \in Events :
              n.window[e] = IF e \in Copies(m, Done(m, q)) THEN "Created" ELSE m.window[e]
        /\ \A x \in Recommendations :
              n.rec[x] = IF x \in Done(m, q) THEN "Consumed" ELSE m.rec[x]
    BY <1>1, MaterialisedIs DEF Made
  <2> HIDE DEF n
  <2>3. Copies(m, Done(m, q)) = Copies(m, Done(m, q - 1)) \cup {c}
    BY <1>1 DEF Copies, c
  <2>4. c \in Events /\ r \in Recommendations
    BY <1>1, CopyIsNew DEF c
  <2>5. b \in States
    BY <1>3, <2>1, <2>4 DEF States, EventStatus, WindowStatus, RecommendationStatus
  <2>6. /\ \A e \in Events : b.event[e] = n.event[e]
        /\ \A e \in Events : b.window[e] = n.window[e]
        /\ \A x \in Recommendations : b.rec[x] = n.rec[x]
        /\ b.disturber = n.disturber /\ b.context = n.context /\ b.scheduling = n.scheduling
    <3>1. \A e \in Events : b.event[e] = IF e = c THEN "Scheduled" ELSE p.event[e]
      BY <1>3, <2>1, <2>4 DEF States
    <3>2. \A e \in Events : b.window[e] = IF e = c THEN "Created" ELSE p.window[e]
      BY <1>3, <2>1, <2>4 DEF States
    <3>3. \A x \in Recommendations : b.rec[x] = IF x = r THEN "Consumed" ELSE p.rec[x]
      BY <1>3, <2>1, <2>4 DEF States
    <3>4. b.disturber = p.disturber /\ b.context = p.context /\ b.scheduling = p.scheduling
      BY <1>3, <2>1 DEF States
    <3> HIDE DEF b
    <3>5. \A e \in Events : b.event[e] = n.event[e]
      BY <2>1, <2>2, <2>3, <3>1
    <3>6. \A e \in Events : b.window[e] = n.window[e]
      BY <2>1, <2>2, <2>3, <3>2
    <3>7. \A x \in Recommendations : b.rec[x] = n.rec[x]
      BY <1>1, <2>1, <2>2, <3>3
    <3> QED
      BY <2>1, <2>2, <3>4, <3>5, <3>6, <3>7
  <2> HIDE DEF b
  <2>7. b.event = n.event /\ b.window = n.window /\ b.rec = n.rec
    BY <2>2, <2>5, <2>6 DEF States
  <2>8. b = n
    BY <2>2, <2>5, <2>6, <2>7 DEF States
  <2> QED
    BY <2>8 DEF n
<1>9. Materialises(p, r) = <<New(a, "event", c), New(a, "window", c)>> \o <<Unstored(Made(m, q))>>
  BY <1>7, <1>8
<1>10. /\ Materialises(p, r)[1] = New(a, "event", c) /\ Materialises(p, r)[2] = New(a, "window", c)
       /\ Materialises(p, r)[3] = Unstored(Made(m, q))
  BY <1>9, ThreeWrites
<1> QED
  BY <1>10 DEF r, c, p, a

CopyAt(m, q) == Copy(m, Turn(m, q))

LEMMA ConsumesIs ==
    ASSUME NEW m \in States, Exclusive(m), Owned(m)
    PROVE  LET n == Len(SetToSeq(Accepted(m)))
               ws == Consumes(m)
           IN  /\ Len(ws) = 3 * n /\ DOMAIN ws = 1 .. 3 * n
               /\ \A q \in 1 .. n :
                     /\ ws[Place(q, 1)] = New(Admitted(m, q), "event", CopyAt(m, q))
                     /\ ws[Place(q, 2)] = New(Admitted(m, q), "window", CopyAt(m, q))
                     /\ ws[Place(q, 3)] = Unstored(Made(m, q))
<1> DEFINE n == Len(SetToSeq(Accepted(m)))
           ws == Consumes(m)
           steps(q) == Materialises(Made(m, q - 1), Turn(m, q))
<1>0. n \in Nat
  BY Turns
<1>1. ws = [i \in 1 .. 3 * n |-> steps((i + 2) \div 3)[((i + 2) % 3) + 1]]
  BY DEF Consumes, Made, Done, Turn
<1> HIDE DEF n, ws
<1>2. Len(ws) = 3 * n /\ DOMAIN ws = 1 .. 3 * n
  <2>1. 3 * n \in Nat
    BY <1>0
  <2> HIDE DEF steps
  <2> QED
    BY <1>1, <2>1
<1>3. ASSUME NEW q \in 1 .. n, NEW s \in 1 .. 3
      PROVE  ws[Place(q, s)] = steps(q)[s]
  <2>1. /\ Place(q, s) \in 1 .. 3 * n
        /\ (Place(q, s) + 2) \div 3 = q
        /\ ((Place(q, s) + 2) % 3) + 1 = s
    BY <1>0, PlaceIs
  <2> HIDE DEF steps
  <2>2. ws[Place(q, s)]
            = steps((Place(q, s) + 2) \div 3)[((Place(q, s) + 2) % 3) + 1]
    BY <1>1, <2>1
  <2> QED
    BY <2>1, <2>2
<1>4. ASSUME NEW q \in 1 .. n
      PROVE  /\ steps(q)[1] = New(Admitted(m, q), "event", CopyAt(m, q))
             /\ steps(q)[2] = New(Admitted(m, q), "window", CopyAt(m, q))
             /\ steps(q)[3] = Unstored(Made(m, q))
  BY MaterialisesIs DEF n, CopyAt
<1> HIDE DEF steps
<1>5. ASSUME NEW q \in 1 .. n
      PROVE  /\ ws[Place(q, 1)] = New(Admitted(m, q), "event", CopyAt(m, q))
             /\ ws[Place(q, 2)] = New(Admitted(m, q), "window", CopyAt(m, q))
             /\ ws[Place(q, 3)] = Unstored(Made(m, q))
  <2>1. 1 \in 1 .. 3 /\ 2 \in 1 .. 3 /\ 3 \in 1 .. 3
    OBVIOUS
  <2>2. ws[Place(q, 1)] = steps(q)[1]
    BY <1>3, <2>1
  <2>3. ws[Place(q, 2)] = steps(q)[2]
    BY <1>3, <2>1
  <2>4. ws[Place(q, 3)] = steps(q)[3]
    BY <1>3, <2>1
  <2> QED
    BY <1>4, <2>2, <2>3, <2>4
<1> QED
  BY <1>2, <1>5 DEF n, ws

(* What Runtime State is on the way: what was hot is so, and nothing else. *)
LEMMA OnTheWay ==
    ASSUME NEW m \in States, Exclusive(m), Owned(m),
           NEW done \in SUBSET Accepted(m), NEW n,
           \A e \in Events :
               n.event[e] = IF e \in Copies(m, done) THEN "Scheduled" ELSE m.event[e],
           \A e \in Events :
               n.window[e] = IF e \in Copies(m, done) THEN "Created" ELSE m.window[e]
    PROVE  /\ \A f \in {"event", "window"}, e \in Events : Hot(f, n[f][e]) <=> Hot(f, m[f][e])
           /\ Exclusive(n) /\ Owned(n)
<1>1. \A e \in Copies(m, done) : e \in Events /\ m.event[e] = Absent /\ m.window[e] = Absent
  BY CopiesAreCold
<1>2. \A f \in {"event", "window"}, e \in Events : Hot(f, n[f][e]) <=> Hot(f, m[f][e])
  BY <1>1 DEF Hot, RunningStates, Absent
<1>3. Exclusive(n)
  BY <1>2 DEF Exclusive
<1>4. Owned(n)
  BY DEF Owned, Absent
<1> QED
  BY <1>2, <1>3, <1>4

LEMMA MadeIs ==
    ASSUME NEW m \in States, Exclusive(m), Owned(m),
           NEW q \in 0 .. Len(SetToSeq(Accepted(m)))
    PROVE  LET n == Made(m, q) IN
           /\ n \in States /\ n.disturber = m.disturber
           /\ \A f \in {"event", "window"}, e \in Events : Hot(f, n[f][e]) <=> Hot(f, m[f][e])
           /\ Exclusive(n) /\ Owned(n)
           /\ \A r \in Recommendations :
                 n.rec[r] = IF r \in Done(m, q) THEN "Consumed" ELSE m.rec[r]
<1>1. Done(m, q) \in SUBSET Accepted(m)
  BY Turns
<1> DEFINE n == Made(m, q)
<1>2. /\ n \in States /\ n.disturber = m.disturber
      /\ \A e \in Events :
            n.event[e] = IF e \in Copies(m, Done(m, q)) THEN "Scheduled" ELSE m.event[e]
      /\ \A e \in Events :
            n.window[e] = IF e \in Copies(m, Done(m, q)) THEN "Created" ELSE m.window[e]
      /\ \A r \in Recommendations :
            n.rec[r] = IF r \in Done(m, q) THEN "Consumed" ELSE m.rec[r]
  BY <1>1, MaterialisedIs DEF Made
<1> HIDE DEF n
<1>3. /\ \A f \in {"event", "window"}, e \in Events : Hot(f, n[f][e]) <=> Hot(f, m[f][e])
      /\ Exclusive(n) /\ Owned(n)
  BY <1>1, <1>2, OnTheWay
<1> QED
  BY <1>2, <1>3 DEF n

LEMMA AdmittedIs ==
    ASSUME NEW m \in States, Exclusive(m), Owned(m),
           NEW q \in 1 .. Len(SetToSeq(Accepted(m)))
    PROVE  LET n == Admitted(m, q)
               p == Made(m, q - 1)
               c == Copy(m, Turn(m, q))
           IN  /\ n \in States /\ n.disturber = p.disturber /\ n.rec = p.rec
               /\ c \in Events /\ n.event[c] = "Scheduled" /\ n.window[c] = "Created"
               /\ \A e \in Events : e # c =>
                     n.event[e] = p.event[e] /\ n.window[e] = p.window[e]
               /\ n.event = Made(m, q).event /\ n.window = Made(m, q).window
               /\ \A f \in {"event", "window"}, e \in Events :
                     Hot(f, n[f][e]) <=> Hot(f, m[f][e])
               /\ Exclusive(n) /\ Owned(n)
<1> DEFINE n == Admitted(m, q)
           p == Made(m, q - 1)
           l == Made(m, q)
           c == Copy(m, Turn(m, q))
<1>1. /\ Turn(m, q) \in Accepted(m)
      /\ Done(m, q - 1) \in SUBSET Accepted(m) /\ Done(m, q) \in SUBSET Accepted(m)
      /\ Done(m, q) = Done(m, q - 1) \cup {Turn(m, q)}
  <2>1. Len(SetToSeq(Accepted(m))) \in Nat
    BY Turns
  <2>2. q - 1 \in 0 .. Len(SetToSeq(Accepted(m))) /\ q \in 0 .. Len(SetToSeq(Accepted(m)))
    BY <2>1
  <2> QED
    BY <2>2, Turns
<1>2. n = [p EXCEPT !.event[c] = "Scheduled", !.window[c] = "Created"]
  BY DEF Admitted
<1>3. c \in Events
  BY <1>1, CopyIsNew
<1>4. /\ p \in States
      /\ \A e \in Events :
            p.event[e] = IF e \in Copies(m, Done(m, q - 1)) THEN "Scheduled" ELSE m.event[e]
      /\ \A e \in Events :
            p.window[e] = IF e \in Copies(m, Done(m, q - 1)) THEN "Created" ELSE m.window[e]
  BY <1>1, MaterialisedIs DEF Made
<1>5. /\ l \in States
      /\ \A e \in Events :
            l.event[e] = IF e \in Copies(m, Done(m, q)) THEN "Scheduled" ELSE m.event[e]
      /\ \A e \in Events :
            l.window[e] = IF e \in Copies(m, Done(m, q)) THEN "Created" ELSE m.window[e]
  BY <1>1, MaterialisedIs DEF Made
<1>6. Copies(m, Done(m, q)) = Copies(m, Done(m, q - 1)) \cup {c}
  BY <1>1 DEF Copies
<1> HIDE DEF n, p, l, c
<1>7. /\ n \in States /\ n.disturber = p.disturber /\ n.rec = p.rec
      /\ \A e \in Events : n.event[e] = IF e = c THEN "Scheduled" ELSE p.event[e]
      /\ \A e \in Events : n.window[e] = IF e = c THEN "Created" ELSE p.window[e]
  BY <1>2, <1>3, <1>4 DEF States, EventStatus, WindowStatus
<1>8. /\ \A e \in Events :
            n.event[e] = IF e \in Copies(m, Done(m, q)) THEN "Scheduled" ELSE m.event[e]
      /\ \A e \in Events :
            n.window[e] = IF e \in Copies(m, Done(m, q)) THEN "Created" ELSE m.window[e]
  BY <1>4, <1>6, <1>7
<1>9. n.event = l.event /\ n.window = l.window
  BY <1>5, <1>7, <1>8 DEF States
<1>10. /\ \A f \in {"event", "window"}, e \in Events : Hot(f, n[f][e]) <=> Hot(f, m[f][e])
       /\ Exclusive(n) /\ Owned(n)
  BY <1>1, <1>8, OnTheWay
<1> QED
  BY <1>3, <1>7, <1>9, <1>10 DEF n, p, l, c

LEMMA NothingMade ==
    ASSUME NEW m \in States, Exclusive(m), Owned(m)
    PROVE  Made(m, 0) = m
<1> DEFINE n == Made(m, 0)
<1>1. Done(m, 0) = {}
  BY Turns
<1>2. /\ n \in States /\ n.disturber = m.disturber
      /\ n.context = m.context /\ n.scheduling = m.scheduling
      /\ \A e \in Events : n.event[e] = m.event[e]
      /\ \A e \in Events : n.window[e] = m.window[e]
      /\ \A r \in Recommendations : n.rec[r] = m.rec[r]
  BY <1>1, MaterialisedIs DEF Made, Copies
<1> HIDE DEF n
<1>3. n.event = m.event /\ n.window = m.window /\ n.rec = m.rec
  BY <1>2 DEF States
<1>4. n = m
  BY <1>2, <1>3 DEF States
<1> QED
  BY <1>4 DEF n

(* Writes that make one copy of each of these, and settle none. *)
Makes(ws, acc) ==
    /\ \A i \in DOMAIN ws, r \in Recommendations : ~Settles(ws[i], r)
    /\ \A i, j \in DOMAIN ws, r \in Recommendations :
          NewCopy(ws[i], r) => r \in acc /\ (NewCopy(ws[j], r) => j = i)
    /\ \A r \in acc : \E k \in 1 .. MaxCopies : \A f \in {"event", "window"} :
          \E j \in DOMAIN ws : StoresAt(ws[j], f, <<r, k>>)

(* The writes of consumption by their places, and Runtime State before each. *)
LEMMA ConsumesPlaces ==
    ASSUME NEW m \in States, Exclusive(m), Owned(m)
    PROVE  LET ws == Consumes(m)
               n == Len(SetToSeq(Accepted(m)))
           IN  /\ ws \in Seq(WriteSet) /\ DOMAIN ws = 1 .. 3 * n
               /\ \A i \in DOMAIN ws : \E q \in 1 .. n :
                     i = Place(q, 1) \/ i = Place(q, 2) \/ i = Place(q, 3)
               /\ \A q \in 1 .. n :
                     /\ Before(m, ws, Place(q, 1)) = Made(m, q - 1)
                     /\ ws[Place(q, 1)].mem = Admitted(m, q) /\ ws[Place(q, 1)].new
                     /\ StoresAt(ws[Place(q, 1)], "event", CopyAt(m, q))
                     /\ Before(m, ws, Place(q, 2)) = Admitted(m, q)
                     /\ ws[Place(q, 2)].mem = Admitted(m, q)
                     /\ StoresAt(ws[Place(q, 2)], "window", CopyAt(m, q))
                     /\ Before(m, ws, Place(q, 3)) = Admitted(m, q)
                     /\ ws[Place(q, 3)].mem = Made(m, q) /\ ws[Place(q, 3)].file = "none"
               /\ After(m, ws) = Made(m, n)
<1> DEFINE ws == Consumes(m)
           n == Len(SetToSeq(Accepted(m)))
<1>0. n \in Nat
  BY Turns
<1>1. /\ Len(ws) = 3 * n /\ DOMAIN ws = 1 .. 3 * n
      /\ \A q \in 1 .. n :
            /\ ws[Place(q, 1)] = New(Admitted(m, q), "event", CopyAt(m, q))
            /\ ws[Place(q, 2)] = New(Admitted(m, q), "window", CopyAt(m, q))
            /\ ws[Place(q, 3)] = Unstored(Made(m, q))
  BY ConsumesIs
<1>2. ASSUME NEW q \in 1 .. n
      PROVE  /\ ws[Place(q, 1)].mem = Admitted(m, q) /\ ws[Place(q, 1)].new
             /\ StoresAt(ws[Place(q, 1)], "event", CopyAt(m, q))
             /\ ws[Place(q, 2)].mem = Admitted(m, q)
             /\ StoresAt(ws[Place(q, 2)], "window", CopyAt(m, q))
             /\ ws[Place(q, 3)].mem = Made(m, q) /\ ws[Place(q, 3)].file = "none"
  <2>1. /\ ws[Place(q, 1)] = New(Admitted(m, q), "event", CopyAt(m, q))
        /\ ws[Place(q, 2)] = New(Admitted(m, q), "window", CopyAt(m, q))
        /\ ws[Place(q, 3)] = Unstored(Made(m, q))
    BY <1>1
  <2> HIDE DEF ws
  <2> QED
    BY <2>1 DEF New, Unstored, StoresAt
<1>3. \A i \in 1 .. 3 * n : \E q \in 1 .. n :
          i = Place(q, 1) \/ i = Place(q, 2) \/ i = Place(q, 3)
  BY <1>0, Places
<1>4. \A q \in 1 .. n : q - 1 \in 0 .. n /\ q \in 0 .. n
  BY <1>0
<1>5. ASSUME NEW q \in 1 .. n
      PROVE  /\ New(Admitted(m, q), "event", CopyAt(m, q)) \in WriteSet
             /\ New(Admitted(m, q), "window", CopyAt(m, q)) \in WriteSet
             /\ Unstored(Made(m, q)) \in WriteSet
  <2>1. Made(m, q) \in States
    BY <1>4, MadeIs
  <2>2. Admitted(m, q) \in States /\ CopyAt(m, q) \in Events
    BY AdmittedIs DEF CopyAt
  <2> QED
    BY <2>1, <2>2 DEF New, Unstored, WriteSet, Files
<1> HIDE DEF n, ws
<1>6. ws \in Seq(WriteSet)
  <2>1. \A i \in 1 .. 3 * n : ws[i] \in WriteSet
    BY <1>1, <1>3, <1>5
  <2>2. ws = [i \in 1 .. 3 * n |-> ws[i]] /\ 3 * n \in Nat
    BY <1>0, <1>1, ConsumesIs DEF Consumes, ws
  <2> QED
    BY <2>1, <2>2
<1>7. ASSUME NEW q \in 1 .. n
      PROVE  /\ Before(m, ws, Place(q, 1)) = Made(m, q - 1)
             /\ Before(m, ws, Place(q, 2)) = Admitted(m, q)
             /\ Before(m, ws, Place(q, 3)) = Admitted(m, q)
  <2>1. Before(m, ws, Place(q, 1)) = Made(m, q - 1)
    <3>1. CASE q = 1
      <4>1. Place(q, 1) = 1 /\ q - 1 = 0
        BY <1>0, <3>1, Places
      <4> QED
        BY <4>1, NothingMade DEF Before
    <3>2. CASE q # 1
      <4>1. q - 1 \in 1 .. n /\ Place(q, 1) - 1 = Place(q - 1, 3) /\ Place(q, 1) # 1
        BY <1>0, <3>2, Places
      <4>2. ws[Place(q - 1, 3)].mem = Made(m, q - 1)
        BY <1>2, <4>1
      <4> QED
        BY <4>1, <4>2 DEF Before
    <3> QED
      BY <3>1, <3>2
  <2>2. /\ Place(q, 2) # 1 /\ Place(q, 2) - 1 = Place(q, 1)
        /\ Place(q, 3) # 1 /\ Place(q, 3) - 1 = Place(q, 2)
    BY <1>0, Places
  <2>3. ws[Place(q, 1)].mem = Admitted(m, q) /\ ws[Place(q, 2)].mem = Admitted(m, q)
    BY <1>2
  <2> QED
    BY <2>1, <2>2, <2>3 DEF Before
<1>8. After(m, ws) = Made(m, n)
  <2>1. CASE n = 0
    <3>1. ws = <<>>
      BY <1>1, <1>6, <2>1, SeqFacts
    <3> QED
      BY <2>1, <3>1, NothingMade DEF After
  <2>2. CASE n # 0
    <3>1. n \in 1 .. n /\ Place(n, 3) = Len(ws)
      BY <1>0, <1>1, <2>2, Places
    <3>2. ws # <<>>
      BY <1>0, <1>1, <1>6, <2>2, SeqFacts
    <3> QED
      BY <1>2, <3>1, <3>2 DEF After, Last
  <2> QED
    BY <2>1, <2>2
<1>9. \A i \in DOMAIN ws : \E q \in 1 .. n :
           i = Place(q, 1) \/ i = Place(q, 2) \/ i = Place(q, 3)
  BY <1>1, <1>3
<1> QED
  BY <1>1, <1>2, <1>6, <1>7, <1>8, <1>9 DEF n, ws

LEMMA ConsumesKeeps ==
    ASSUME NEW m \in States, Exclusive(m), Owned(m)
    PROVE  LET ws == Consumes(m)
               a == After(m, ws)
           IN  /\ AllSteps(m, ws) /\ Prompt(m, ws) /\ EventFirst(ws)
               /\ Covered(m, ws, {"rec"} \X Accepted(m))
               /\ Makes(ws, Accepted(m))
               /\ a \in States /\ Exclusive(a) /\ Owned(a) /\ a.disturber = m.disturber
               /\ \A r \in Recommendations :
                     a.rec[r] = IF r \in Accepted(m) THEN "Consumed" ELSE m.rec[r]
<1> DEFINE ws == Consumes(m)
           n == Len(SetToSeq(Accepted(m)))
<1>0. n \in Nat
  BY Turns
<1>1. /\ ws \in Seq(WriteSet) /\ DOMAIN ws = 1 .. 3 * n
      /\ \A i \in DOMAIN ws : \E q \in 1 .. n :
            i = Place(q, 1) \/ i = Place(q, 2) \/ i = Place(q, 3)
      /\ After(m, ws) = Made(m, n)
  BY ConsumesPlaces
<1>2. ASSUME NEW q \in 1 .. n
      PROVE  /\ Before(m, ws, Place(q, 1)) = Made(m, q - 1)
             /\ ws[Place(q, 1)].mem = Admitted(m, q) /\ ws[Place(q, 1)].new
             /\ StoresAt(ws[Place(q, 1)], "event", CopyAt(m, q))
             /\ Before(m, ws, Place(q, 2)) = Admitted(m, q)
             /\ ws[Place(q, 2)].mem = Admitted(m, q)
             /\ StoresAt(ws[Place(q, 2)], "window", CopyAt(m, q))
             /\ Before(m, ws, Place(q, 3)) = Admitted(m, q)
             /\ ws[Place(q, 3)].mem = Made(m, q) /\ ws[Place(q, 3)].file = "none"
  BY ConsumesPlaces
<1>3. \A q \in 1 .. n :
          /\ ws[Place(q, 1)] = New(Admitted(m, q), "event", CopyAt(m, q))
          /\ ws[Place(q, 2)] = New(Admitted(m, q), "window", CopyAt(m, q))
          /\ ws[Place(q, 3)] = Unstored(Made(m, q))
  BY ConsumesIs
<1>4. \A q \in 1 .. n : /\ Place(q, 1) \in DOMAIN ws
                        /\ Place(q, 2) \in DOMAIN ws
                        /\ Place(q, 3) \in DOMAIN ws
  <2>1. 1 \in 1 .. 3 /\ 2 \in 1 .. 3 /\ 3 \in 1 .. 3
    OBVIOUS
  <2> QED
    BY <1>0, <1>1, <2>1, Places
<1>5. \A q \in 1 .. n : q - 1 \in 0 .. n /\ q \in 0 .. n
  BY <1>0
<1> HIDE DEF n, ws
<1>6. ASSUME NEW q \in 1 .. n
      PROVE  /\ \A f \in {"event", "window"}, e \in Events :
                   /\ Hot(f, Made(m, q - 1)[f][e]) <=> Hot(f, m[f][e])
                   /\ Hot(f, Admitted(m, q)[f][e]) <=> Hot(f, m[f][e])
                   /\ Hot(f, Made(m, q)[f][e]) <=> Hot(f, m[f][e])
             /\ Exclusive(Admitted(m, q)) /\ Exclusive(Made(m, q))
             /\ Owned(Admitted(m, q)) /\ Owned(Made(m, q))
  <2>1. q - 1 \in 0 .. n /\ q \in 0 .. n
    BY <1>5
  <2> QED
    BY <2>1, MadeIs, AdmittedIs DEF n
<1>7. ASSUME NEW q \in 1 .. n
      PROVE  /\ StepOK(Made(m, q - 1), New(Admitted(m, q), "event", CopyAt(m, q)))
             /\ StepOK(Admitted(m, q), New(Admitted(m, q), "window", CopyAt(m, q)))
             /\ StepOK(Admitted(m, q), Unstored(Made(m, q)))
  <2>1. /\ Admitted(m, q).rec = Made(m, q - 1).rec
        /\ CopyAt(m, q) \in Events /\ Admitted(m, q).event[CopyAt(m, q)] = "Scheduled"
        /\ Admitted(m, q).window[CopyAt(m, q)] = "Created"
    BY AdmittedIs DEF n, CopyAt
  <2>2. Done(m, q) = Done(m, q - 1) \cup {Turn(m, q)}
    BY Turns DEF n
  <2>3. \A r \in Recommendations :
            Admitted(m, q).rec[r] = "Consumed" => Made(m, q).rec[r] = "Consumed"
    <3>1. q - 1 \in 0 .. n /\ q \in 0 .. n
      BY <1>5
    <3>2. \A r \in Recommendations :
              /\ Made(m, q - 1).rec[r] = IF r \in Done(m, q - 1) THEN "Consumed" ELSE m.rec[r]
              /\ Made(m, q).rec[r] = IF r \in Done(m, q) THEN "Consumed" ELSE m.rec[r]
      BY <3>1, MadeIs DEF n
    <3> QED
      BY <2>1, <2>2, <3>2
  <2>4. StepOK(Made(m, q - 1), New(Admitted(m, q), "event", CopyAt(m, q)))
    BY <1>6, <2>1 DEF StepOK, New, Value, Names, Files, Absent
  <2>5. StepOK(Admitted(m, q), New(Admitted(m, q), "window", CopyAt(m, q)))
    BY <1>6, <2>1 DEF StepOK, New, Value, Names, Files, Absent
  <2>6. StepOK(Admitted(m, q), Unstored(Made(m, q)))
    BY <1>6, <2>3 DEF StepOK, Unstored, Files
  <2> QED
    BY <2>4, <2>5, <2>6
<1>8. AllSteps(m, ws)
  <2>1. \A q \in 1 .. n :
            /\ StepOK(Before(m, ws, Place(q, 1)), ws[Place(q, 1)])
            /\ StepOK(Before(m, ws, Place(q, 2)), ws[Place(q, 2)])
            /\ StepOK(Before(m, ws, Place(q, 3)), ws[Place(q, 3)])
    BY <1>2, <1>3, <1>7
  <2> QED
    BY <1>1, <2>1 DEF AllSteps
<1>9. Prompt(m, ws)
  <2>1. \A q \in 1 .. n, f \in {"event", "window"}, e \in Events :
            /\ Hot(f, Before(m, ws, Place(q, 1))[f][e])
                   <=> Hot(f, ws[Place(q, 1)].mem[f][e])
            /\ Hot(f, Before(m, ws, Place(q, 2))[f][e])
                   <=> Hot(f, ws[Place(q, 2)].mem[f][e])
            /\ Hot(f, Before(m, ws, Place(q, 3))[f][e])
                   <=> Hot(f, ws[Place(q, 3)].mem[f][e])
    BY <1>2, <1>6
  <2> QED
    BY <1>1, <2>1 DEF Prompt
<1>10. Covered(m, ws, {"rec"} \X Accepted(m))
  <2>1. ASSUME NEW q \in 1 .. n, NEW f \in Files, NEW x \in Names(f),
               Admitted(m, q)[f][x] # Made(m, q - 1)[f][x]
        PROVE  \E j \in DOMAIN ws : j >= Place(q, 1) /\ StoresAt(ws[j], f, x)
    <3>1. f \in {"event", "window"} /\ x = CopyAt(m, q)
      BY <2>1, AdmittedIs DEF Files, Names, n, CopyAt
    <3>2. Place(q, 1) < Place(q, 2)
      BY <1>0, Places
    <3>3. Place(q, 1) \in DOMAIN ws /\ Place(q, 2) \in DOMAIN ws
      BY <1>4
    <3>4. Place(q, 1) >= Place(q, 1) /\ Place(q, 2) >= Place(q, 1)
      BY <1>1, <3>2, <3>3
    <3>5. CASE f = "event"
      BY <1>2, <3>1, <3>5, <3>3, <3>4
    <3>6. CASE f = "window"
      BY <1>2, <3>1, <3>6, <3>3, <3>4
    <3> QED
      BY <3>1, <3>5, <3>6
  <2>2. ASSUME NEW q \in 1 .. n, NEW f \in Files, NEW x \in Names(f),
               Made(m, q)[f][x] # Admitted(m, q)[f][x]
        PROVE  <<f, x>> \in {"rec"} \X Accepted(m)
    <3>1. q - 1 \in 0 .. n /\ q \in 0 .. n
      BY <1>5
    <3>2. /\ Admitted(m, q).event = Made(m, q).event
          /\ Admitted(m, q).window = Made(m, q).window
          /\ Admitted(m, q).rec = Made(m, q - 1).rec
          /\ Admitted(m, q).disturber = Made(m, q - 1).disturber
      BY AdmittedIs DEF n
    <3>3. /\ Made(m, q).disturber = m.disturber /\ Made(m, q - 1).disturber = m.disturber
          /\ \A r \in Recommendations :
                /\ Made(m, q - 1).rec[r] = IF r \in Done(m, q - 1) THEN "Consumed" ELSE m.rec[r]
                /\ Made(m, q).rec[r] = IF r \in Done(m, q) THEN "Consumed" ELSE m.rec[r]
      BY <3>1, MadeIs DEF n
    <3>4. Done(m, q) = Done(m, q - 1) \cup {Turn(m, q)} /\ Turn(m, q) \in Accepted(m)
      BY Turns DEF n
    <3>5. f = "rec"
      BY <2>2, <3>2, <3>3 DEF Files
    <3>6. x \in Recommendations /\ x \in Done(m, q) /\ x \notin Done(m, q - 1)
      BY <2>2, <3>2, <3>3, <3>4, <3>5 DEF Names
    <3>7. x = Turn(m, q)
      BY <3>4, <3>6
    <3> QED
      BY <3>4, <3>5, <3>7
  <2> SUFFICES ASSUME NEW i \in DOMAIN ws, NEW f \in Files, NEW x \in Names(f),
                      ws[i].mem[f][x] # Before(m, ws, i)[f][x]
               PROVE  \/ \E j \in DOMAIN ws : j >= i /\ StoresAt(ws[j], f, x)
                      \/ <<f, x>> \in {"rec"} \X Accepted(m)
    BY DEF Covered
  <2>3. PICK q \in 1 .. n : i = Place(q, 1) \/ i = Place(q, 2) \/ i = Place(q, 3)
    BY <1>1
  <2>4. CASE i = Place(q, 1)
    BY <1>2, <2>1, <2>4
  <2>5. CASE i = Place(q, 2)
    BY <1>2, <2>5
  <2>6. CASE i = Place(q, 3)
    BY <1>2, <2>2, <2>6
  <2> QED
    BY <2>3, <2>4, <2>5, <2>6
<1>11. EventFirst(ws)
  <2> SUFFICES ASSUME NEW i \in DOMAIN ws, NEW e \in Events,
                      StoresAt(ws[i], "window", e), ws[i].new
               PROVE  \E j \in DOMAIN ws : j < i /\ StoresAt(ws[j], "event", e)
    BY DEF EventFirst
  <2>1. PICK q \in 1 .. n : i = Place(q, 1) \/ i = Place(q, 2) \/ i = Place(q, 3)
    BY <1>1
  <2>2. i = Place(q, 2) /\ e = CopyAt(m, q)
    BY <1>2, <2>1 DEF StoresAt
  <2>3. Place(q, 1) < Place(q, 2) /\ Place(q, 1) \in DOMAIN ws
    BY <1>0, <1>4, Places
  <2> QED
    BY <1>2, <2>2, <2>3
<1>12. Makes(ws, Accepted(m))
  <2>1. ASSUME NEW i \in DOMAIN ws, NEW r \in Recommendations PROVE ~Settles(ws[i], r)
    <3>1. PICK q \in 1 .. n : i = Place(q, 1) \/ i = Place(q, 2) \/ i = Place(q, 3)
      BY <1>1
    <3>2. ws[i].file # "rec"
      BY <1>2, <3>1 DEF StoresAt
    <3> QED
      BY <3>2 DEF Settles, StoresAt
  <2>2. ASSUME NEW i \in DOMAIN ws, NEW r \in Recommendations, NewCopy(ws[i], r)
        PROVE  \E q \in 1 .. n : i = Place(q, 1) /\ r = Turn(m, q)
    <3>1. PICK q \in 1 .. n : i = Place(q, 1) \/ i = Place(q, 2) \/ i = Place(q, 3)
      BY <1>1
    <3>2. ws[i].file = "event" /\ \E k \in 1 .. MaxCopies : ws[i].of = <<r, k>>
      BY <2>2 DEF NewCopy
    <3>3. i = Place(q, 1) /\ ws[i].of = CopyAt(m, q)
      BY <1>2, <3>1, <3>2 DEF StoresAt
    <3>4. r = Turn(m, q)
      BY <3>2, <3>3 DEF CopyAt, Copy
    <3> QED
      BY <3>3, <3>4
  <2>3. ASSUME NEW i \in DOMAIN ws, NEW j \in DOMAIN ws, NEW r \in Recommendations,
               NewCopy(ws[i], r)
        PROVE  r \in Accepted(m) /\ (NewCopy(ws[j], r) => j = i)
    <3>1. PICK q \in 1 .. n : i = Place(q, 1) /\ r = Turn(m, q)
      BY <2>2, <2>3
    <3>2. r \in Accepted(m)
      BY <3>1, Turns DEF n
    <3>3. ASSUME NewCopy(ws[j], r) PROVE j = i
      <4>1. PICK p \in 1 .. n : j = Place(p, 1) /\ r = Turn(m, p)
        BY <2>2, <3>3
      <4>2. \A u, v \in 1 .. n : Turn(m, u) = Turn(m, v) => u = v
        BY Turns DEF n
      <4>3. p = q
        BY <3>1, <4>1, <4>2
      <4> QED
        BY <3>1, <4>1, <4>3
    <3> QED
      BY <3>2, <3>3
  <2>4. ASSUME NEW r \in Accepted(m)
        PROVE  \E k \in 1 .. MaxCopies : \A f \in {"event", "window"} :
                   \E j \in DOMAIN ws : StoresAt(ws[j], f, <<r, k>>)
    <3>1. PICK q \in 1 .. n : Turn(m, q) = r
      BY Turns DEF n
    <3> DEFINE k == Min(Unused(m, r))
    <3>2. k \in 1 .. MaxCopies
      BY CopyIsNew
    <3>3. CopyAt(m, q) = <<r, k>>
      BY <3>1 DEF CopyAt, Copy
    <3> HIDE DEF k
    <3>4. StoresAt(ws[Place(q, 1)], "event", <<r, k>>)
          /\ StoresAt(ws[Place(q, 2)], "window", <<r, k>>)
      BY <1>2, <3>3
    <3>5. Place(q, 1) \in DOMAIN ws /\ Place(q, 2) \in DOMAIN ws
      BY <1>4
    <3>6. \A f \in {"event", "window"} : \E j \in DOMAIN ws : StoresAt(ws[j], f, <<r, k>>)
      BY <3>4, <3>5
    <3> QED
      BY <3>2, <3>6
  <2> QED
    BY <2>1, <2>3, <2>4 DEF Makes
<1>13. LET a == Made(m, n) IN
       /\ a \in States /\ Exclusive(a) /\ Owned(a) /\ a.disturber = m.disturber
       /\ \A r \in Recommendations :
             a.rec[r] = IF r \in Accepted(m) THEN "Consumed" ELSE m.rec[r]
  <2>1. n \in 0 .. n /\ Done(m, n) = Accepted(m)
    BY <1>0, Turns DEF n
  <2> QED
    BY <2>1, MadeIs DEF n
<1> QED
  BY <1>8, <1>9, <1>10, <1>11, <1>12, <1>1, <1>13 DEF ws

-----------------------------------------------------------------------------
(***************************************************************************)
(* What is due, and what the cycle stores at its end.                      *)
(***************************************************************************)

LEMMA UpdateIsWrite ==
    ASSUME NEW m \in States, NEW f \in Files, NEW x \in Names(f)
    PROVE  Update(m, f, x) \in WriteSet
<1>1. x \in Events \cup Recommendations \cup Disturbers
  BY DEF Names
<1> QED
  BY <1>1 DEF Update, WriteSet

LEMMA AdvancedIs ==
    ASSUME NEW m \in States, Exclusive(m),
           NEW due \in [Events -> {"no", "Ready", "Skipped", "Overtaken"}],
           NEW done \in SUBSET Events, \A e \in done : due[e] # "no"
    PROVE  LET n == Advanced(m, due, done) IN
           /\ n \in States /\ n.window = m.window /\ n.rec = m.rec /\ n.disturber = m.disturber
           /\ \A e \in Events : n.event[e] = IF e \in done THEN due[e] ELSE m.event[e]
           /\ Exclusive(n)
<1> DEFINE n == Advanced(m, due, done)
<1>1. /\ n \in States /\ n.window = m.window /\ n.rec = m.rec /\ n.disturber = m.disturber
      /\ n.event = [e \in Events |-> IF e \in done THEN due[e] ELSE m.event[e]]
  BY DEF Advanced, States, EventStatus
<1> HIDE DEF n
<1>2. \A e \in Events : n.event[e] = IF e \in done THEN due[e] ELSE m.event[e]
  BY <1>1
<1>3. \A f \in {"event", "window"}, e \in Events : Hot(f, n[f][e]) => Hot(f, m[f][e])
  BY <1>1, <1>2 DEF Hot, RunningStates
<1>4. Exclusive(n)
  BY <1>3, LettingGo
<1> QED
  BY <1>1, <1>2, <1>4 DEF n

(* Each write of an advance: one Event becomes what it is due to, and is stored. *)
LEMMA AdvancesSteps ==
    ASSUME NEW m \in States, Exclusive(m),
           NEW due \in [Events -> {"no", "Ready", "Skipped", "Overtaken"}]
    PROVE  LET ws == Advances(m, due) IN
           /\ ws \in Seq(WriteSet)
           /\ \A i \in DOMAIN ws : \E e \in Events :
                 LET b == Before(m, ws, i)
                     n == ws[i].mem
                 IN  /\ n \in States /\ Exclusive(n) /\ n.rec = m.rec /\ n.disturber = m.disturber
                     /\ n.window = b.window /\ n.rec = b.rec /\ n.disturber = b.disturber
                     /\ StoresAt(ws[i], "event", e) /\ ~ws[i].new
                     /\ due[e] \in {"Ready", "Skipped", "Overtaken"} /\ n.event[e] = due[e]
                     /\ b.event[e] = m.event[e] \/ b.event[e] = due[e]
                     /\ \A d \in Events : d # e => n.event[d] = b.event[d]
<1> DEFINE forward == {e \in Events : due[e] \in {"Ready", "Skipped"}}
           outranked == {e \in Events : due[e] = "Overtaken"}
           es == SetToSeq(forward) \o SetToSeq(outranked)
           ws == Advances(m, due)
           first(i) == {es[j] : j \in 1 .. i}
<1>1. /\ es \in Seq(Events) /\ Len(es) \in Nat /\ DOMAIN es = 1 .. Len(es)
      /\ \A i \in 1 .. Len(es) : es[i] \in Events /\ due[es[i]] # "no"
  <2>1. IsFiniteSet(forward) /\ IsFiniteSet(outranked)
    BY FiniteEvents, FS_Subset
  <2>2. SetToSeq(forward) \in Seq(forward) /\ SetToSeq(outranked) \in Seq(outranked)
    BY <2>1, SetAsSeq
  <2> DEFINE S == {e \in Events : due[e] # "no"}
  <2>3. forward \in SUBSET S /\ outranked \in SUBSET S
    OBVIOUS
  <2> HIDE DEF forward, outranked, S
  <2>4. SetToSeq(forward) \in Seq(S) /\ SetToSeq(outranked) \in Seq(S)
    BY <2>2, <2>3
  <2>5. es \in Seq(S)
    BY <2>4, ConcatFacts
  <2> HIDE DEF es
  <2>6. Len(es) \in Nat /\ DOMAIN es = 1 .. Len(es) /\ \A i \in DOMAIN es : es[i] \in S
    BY <2>5, SeqFacts
  <2>7. es \in Seq(Events)
    BY <2>5 DEF S
  <2> QED
    BY <2>6, <2>7 DEF S
<1>2. ws = [i \in DOMAIN es |-> Update(Advanced(m, due, first(i)), "event", es[i])]
  BY DEF Advances
<1> HIDE DEF es, ws
<1>3. \A i \in 0 .. Len(es) : first(i) \in SUBSET Events /\ \A e \in first(i) : due[e] # "no"
  <2>1. \A i \in 0 .. Len(es) : \A j \in 1 .. i : j \in 1 .. Len(es)
    BY <1>1
  <2> QED
    BY <1>1, <2>1
<1>4. \A i \in 1 .. Len(es) : first(i) = first(i - 1) \cup {es[i]}
  <2>1. \A i \in 1 .. Len(es) : 1 .. i = (1 .. i - 1) \cup {i}
    BY <1>1
  <2> QED
    BY <2>1
<1>5. first(0) = {}
  <2>1. 1 .. 0 = {}
    OBVIOUS
  <2> QED
    BY <2>1
<1> HIDE DEF first
<1>6. ASSUME NEW i \in 0 .. Len(es)
      PROVE  LET n == Advanced(m, due, first(i)) IN
             /\ n \in States /\ n.window = m.window /\ n.rec = m.rec
             /\ n.disturber = m.disturber /\ Exclusive(n)
             /\ \A e \in Events : n.event[e] = IF e \in first(i) THEN due[e] ELSE m.event[e]
  BY <1>3, AdvancedIs
<1>7. /\ DOMAIN ws = 1 .. Len(es) /\ Len(ws) = Len(es)
      /\ \A i \in DOMAIN ws :
            /\ ws[i] = Update(Advanced(m, due, first(i)), "event", es[i])
            /\ ws[i] \in WriteSet
            /\ ws[i].mem = Advanced(m, due, first(i))
            /\ ws[i].file = "event" /\ ws[i].of = es[i] /\ ws[i].new = FALSE
  <2>1. DOMAIN ws = 1 .. Len(es) /\ Len(ws) = Len(es)
    BY <1>1, <1>2
  <2>2. \A i \in DOMAIN ws : ws[i] = Update(Advanced(m, due, first(i)), "event", es[i])
    BY <1>1, <1>2, <2>1
  <2>3. \A i \in DOMAIN ws :
            Advanced(m, due, first(i)) \in States /\ es[i] \in Events
    BY <1>1, <1>6, <2>1
  <2>4. ASSUME NEW i \in DOMAIN ws
        PROVE  /\ ws[i] \in WriteSet /\ ws[i].mem = Advanced(m, due, first(i))
               /\ ws[i].file = "event" /\ ws[i].of = es[i] /\ ws[i].new = FALSE
    <3>1. "event" \in Files /\ es[i] \in Names("event")
      BY <2>3 DEF Files, Names
    <3> DEFINE u == Update(Advanced(m, due, first(i)), "event", es[i])
    <3>2. u \in WriteSet
      BY <2>3, <3>1, UpdateIsWrite
    <3>3. u.mem = Advanced(m, due, first(i)) /\ u.file = "event" /\ u.of = es[i] /\ u.new = FALSE
      BY DEF Update
    <3>4. ws[i] = u
      BY <2>2
    <3> HIDE DEF u
    <3> QED
      BY <3>2, <3>4, <3>3
  <2> QED
    BY <2>1, <2>2, <2>4
<1>8. ws \in Seq(WriteSet)
  <2>1. ws = [i \in 1 .. Len(es) |-> ws[i]]
    BY <1>1, <1>2
  <2> QED
    BY <1>1, <1>7, <2>1
<1>9. ASSUME NEW i \in DOMAIN ws
      PROVE  LET b == Before(m, ws, i) IN
             /\ b.window = m.window /\ b.rec = m.rec /\ b.disturber = m.disturber
             /\ \A e \in Events :
                   b.event[e] = IF e \in first(i - 1) THEN due[e] ELSE m.event[e]
  <2>1. CASE i = 1
    BY <1>5, <2>1 DEF Before
  <2>2. CASE i # 1
    <3>1. i - 1 \in DOMAIN ws /\ i - 1 \in 0 .. Len(es)
      BY <1>1, <1>7, <2>2
    <3>2. Before(m, ws, i) = Advanced(m, due, first(i - 1))
      BY <1>7, <2>2, <3>1 DEF Before
    <3> QED
      BY <1>6, <3>1, <3>2
  <2> QED
    BY <2>1, <2>2
<1>10. ASSUME NEW i \in DOMAIN ws
       PROVE  LET b == Before(m, ws, i)
                  n == ws[i].mem
                  e == es[i]
              IN  /\ n \in States /\ Exclusive(n) /\ n.rec = m.rec /\ n.disturber = m.disturber
                  /\ n.window = b.window /\ n.rec = b.rec /\ n.disturber = b.disturber
                  /\ StoresAt(ws[i], "event", e) /\ ~ws[i].new
                  /\ due[e] \in {"Ready", "Skipped", "Overtaken"} /\ n.event[e] = due[e]
                  /\ b.event[e] = m.event[e] \/ b.event[e] = due[e]
                  /\ \A d \in Events : d # e => n.event[d] = b.event[d]
                  /\ e \in Events
  <2>1. i \in 1 .. Len(es) /\ i \in 0 .. Len(es)
    BY <1>1, <1>7
  <2>2. /\ ws[i].mem \in States /\ ws[i].mem.window = m.window /\ ws[i].mem.rec = m.rec
        /\ ws[i].mem.disturber = m.disturber /\ Exclusive(ws[i].mem)
        /\ \A e \in Events :
              ws[i].mem.event[e] = IF e \in first(i) THEN due[e] ELSE m.event[e]
    BY <1>6, <1>7, <2>1
  <2>3. first(i) = first(i - 1) \cup {es[i]} /\ es[i] \in Events /\ due[es[i]] # "no"
    BY <1>1, <1>4, <2>1
  <2>4. StoresAt(ws[i], "event", es[i]) /\ ~ws[i].new
    BY <1>7 DEF StoresAt
  <2> QED
    BY <1>9, <2>2, <2>3, <2>4
<1>11. \A i \in DOMAIN ws : \E e \in Events :
           LET b == Before(m, ws, i)
               n == ws[i].mem
           IN  /\ n \in States /\ Exclusive(n) /\ n.rec = m.rec /\ n.disturber = m.disturber
               /\ n.window = b.window /\ n.rec = b.rec /\ n.disturber = b.disturber
               /\ StoresAt(ws[i], "event", e) /\ ~ws[i].new
               /\ due[e] \in {"Ready", "Skipped", "Overtaken"} /\ n.event[e] = due[e]
               /\ b.event[e] = m.event[e] \/ b.event[e] = due[e]
               /\ \A d \in Events : d # e => n.event[d] = b.event[d]
  BY <1>10
<1> QED
  BY <1>8, <1>11 DEF ws

LEMMA AdvancesServes ==
    ASSUME NEW m \in States, Exclusive(m), Owned(m),
           NEW due \in [Events -> {"no", "Ready", "Skipped", "Overtaken"}]
    PROVE  LET a == After(m, Advances(m, due)) IN
           /\ Serves(m, Advances(m, due))
           /\ a \in States /\ Exclusive(a) /\ a.rec = m.rec /\ a.disturber = m.disturber
<1> DEFINE ws == Advances(m, due)
<1>1. /\ ws \in Seq(WriteSet)
      /\ \A i \in DOMAIN ws : \E e \in Events :
            LET b == Before(m, ws, i)
                n == ws[i].mem
            IN  /\ n \in States /\ Exclusive(n) /\ n.rec = m.rec /\ n.disturber = m.disturber
                /\ n.window = b.window /\ n.rec = b.rec /\ n.disturber = b.disturber
                /\ StoresAt(ws[i], "event", e) /\ ~ws[i].new
                /\ due[e] \in {"Ready", "Skipped", "Overtaken"} /\ n.event[e] = due[e]
                /\ \A d \in Events : d # e => n.event[d] = b.event[d]
  BY AdvancesSteps
<1> HIDE DEF ws
<1>2. AllSteps(m, ws)
  <2> SUFFICES ASSUME NEW i \in DOMAIN ws PROVE StepOK(Before(m, ws, i), ws[i])
    BY <1>1 DEF AllSteps
  <2>1. Owned(Before(m, ws, i)) => Owned(ws[i].mem)
    BY <1>1 DEF Owned, Absent
  <2>2. ws[i].of \in Names(ws[i].file) /\ Value(ws[i]) # Absent
    BY <1>1 DEF StoresAt, Names, Value, Absent
  <2> QED
    BY <1>1, <2>1, <2>2 DEF StepOK
<1>3. \A i \in DOMAIN ws : \A f \in Files : \A x \in Names(f) :
          ws[i].mem[f][x] = Before(m, ws, i)[f][x] \/ StoresAt(ws[i], f, x)
  BY <1>1 DEF Files, Names, StoresAt
<1>4. Prompt(m, ws)
  BY <1>3 DEF Prompt, Files, Names
<1>5. Covered(m, ws, {})
  <2>1. \A i \in DOMAIN ws : i >= i
    BY <1>1, SeqFacts
  <2> QED
    BY <1>3, <2>1 DEF Covered
<1>6. EventFirst(ws) /\ Plain(ws)
  BY <1>1 DEF EventFirst, Plain, NewCopy, Settles, StoresAt
<1>7. LET a == After(m, ws) IN
      a \in States /\ Exclusive(a) /\ a.rec = m.rec /\ a.disturber = m.disturber
  <2>1. CASE ws = <<>>
    BY <2>1 DEF After
  <2>2. CASE ws # <<>>
    <3>1. Len(ws) \in DOMAIN ws
      BY <1>1, <2>2, SeqFacts
    <3> QED
      BY <1>1, <2>2, <3>1 DEF After, Last
  <2> QED
    BY <2>1, <2>2
<1> QED
  BY <1>2, <1>4, <1>5, <1>6, <1>7 DEF Serves, ws

(* Each of these is stored as it is. *)
StoringEach(m, f, xs) == [i \in 1 .. Cardinality(xs) |-> Update(m, f, SetToSeq(xs)[i])]

LEMMA StoresEach ==
    ASSUME NEW m \in States, Exclusive(m), NEW f \in {"rec", "disturber"},
           NEW xs \in SUBSET Names(f), \A x \in xs : m[f][x] # Absent, NEW ws,
           ws = StoringEach(m, f, xs)
    PROVE  /\ AllSteps(m, ws) /\ Prompt(m, ws) /\ Covered(m, ws, {}) /\ EventFirst(ws)
           /\ After(m, ws) = m
           /\ \A i \in DOMAIN ws : ws[i].file = f /\ ~ws[i].new /\ ws[i].mem = m /\ ws[i].of \in xs
           /\ \A x \in xs : \E i \in DOMAIN ws : StoresAt(ws[i], f, x)
<1> DEFINE n == Cardinality(xs)
<1>1. IsFiniteSet(xs)
  BY FinitelyMany, FS_Subset DEF Names
<1>2. /\ n \in Nat
      /\ \A i \in 1 .. n : SetToSeq(xs)[i] \in xs
      /\ \A x \in xs : \E i \in 1 .. n : SetToSeq(xs)[i] = x
  BY <1>1, SetAsSeq
<1> HIDE DEF n
<1>3. DOMAIN ws = 1 .. n /\ \A i \in 1 .. n : ws[i] = Update(m, f, SetToSeq(xs)[i])
  BY DEF n, StoringEach
<1>4. ASSUME NEW i \in 1 .. n
      PROVE  /\ ws[i] \in WriteSet /\ ws[i].mem = m /\ ws[i].file = f /\ ws[i].new = FALSE
             /\ ws[i].of = SetToSeq(xs)[i] /\ ws[i].of \in xs /\ ws[i].of \in Names(f)
  <2>1. ws[i] = Update(m, f, SetToSeq(xs)[i]) /\ SetToSeq(xs)[i] \in xs
    BY <1>2, <1>3
  <2>2. f \in Files /\ SetToSeq(xs)[i] \in Names(f)
    BY <2>1 DEF Files
  <2> DEFINE u == Update(m, f, SetToSeq(xs)[i])
  <2>3. u \in WriteSet
    BY <2>2, UpdateIsWrite
  <2>4. u.mem = m /\ u.file = f /\ u.of = SetToSeq(xs)[i] /\ u.new = FALSE
    BY DEF Update
  <2> HIDE DEF u
  <2>5. ws[i] = u
    BY <2>1 DEF u
  <2> QED
    BY <2>1, <2>2, <2>3, <2>5, <2>4
<1>5. ws \in Seq(WriteSet) /\ Len(ws) = n
  <2>1. ws = [i \in 1 .. n |-> Update(m, f, SetToSeq(xs)[i])]
    BY DEF n, StoringEach
  <2>2. \A i \in 1 .. n : Update(m, f, SetToSeq(xs)[i]) \in WriteSet
    BY <1>3, <1>4
  <2> QED
    BY <1>2, <2>1, <2>2
<1>6. \A i \in 1 .. n : Before(m, ws, i) = m
  <2>1. \A i \in 1 .. n : i # 1 => i - 1 \in 1 .. n
    BY <1>2
  <2> QED
    BY <1>4, <2>1 DEF Before
<1>7. \A i \in 1 .. n : StepOK(m, ws[i])
  BY <1>4 DEF StepOK, Value
<1>8. AllSteps(m, ws) /\ Prompt(m, ws) /\ Covered(m, ws, {})
  <2>1. AllSteps(m, ws)
    BY <1>3, <1>5, <1>6, <1>7 DEF AllSteps
  <2>2. \A i \in DOMAIN ws : ws[i].mem = Before(m, ws, i)
    BY <1>3, <1>4, <1>6
  <2>3. Prompt(m, ws)
    BY <2>2 DEF Prompt
  <2>4. Covered(m, ws, {})
    BY <2>2 DEF Covered
  <2> QED
    BY <2>1, <2>3, <2>4
<1>9. EventFirst(ws)
  BY <1>3, <1>4 DEF EventFirst
<1>10. After(m, ws) = m
  <2>1. CASE ws = <<>>
    BY <2>1 DEF After
  <2>2. CASE ws # <<>>
    <3>1. Len(ws) \in 1 .. n
      BY <1>2, <1>5, <2>2, SeqFacts
    <3> QED
      BY <1>4, <2>2, <3>1 DEF After, Last
  <2> QED
    BY <2>1, <2>2
<1>11. ASSUME NEW x \in xs PROVE \E i \in DOMAIN ws : StoresAt(ws[i], f, x)
  <2>1. PICK i \in 1 .. n : SetToSeq(xs)[i] = x
    BY <1>2
  <2>2. ws[i].file = f /\ ws[i].of = x
    BY <1>4, <2>1
  <2> QED
    BY <1>3, <2>2 DEF StoresAt
<1> QED
  BY <1>3, <1>4, <1>8, <1>9, <1>10, <1>11

(* Writes that settle these, and make no copy. *)
Ends(ws, acc) ==
    /\ \A i \in DOMAIN ws, r \in Recommendations : ~NewCopy(ws[i], r)
    /\ \A i \in DOMAIN ws, r \in Recommendations : Settles(ws[i], r) => r \in acc
    /\ \A r \in acc : \E i \in DOMAIN ws : Settles(ws[i], r)

LEMMA MakesAround ==
    ASSUME NEW s \in Seq(WriteSet), NEW t \in Seq(WriteSet), NEW acc \in SUBSET Recommendations,
           (Makes(s, acc) /\ Plain(t)) \/ (Plain(s) /\ Makes(t, acc))
    PROVE  Makes(s \o t, acc)
<1> DEFINE u == s \o t
<1>1. /\ Len(s) \in Nat /\ Len(t) \in Nat
      /\ DOMAIN s = 1 .. Len(s) /\ DOMAIN t = 1 .. Len(t)
      /\ DOMAIN u = 1 .. Len(s) + Len(t)
      /\ \A i \in DOMAIN s : u[i] = s[i]
      /\ \A i \in DOMAIN t : u[Len(s) + i] = t[i]
  BY ConcatFacts
<1>2. ASSUME NEW i \in DOMAIN u
      PROVE  \/ i \in DOMAIN s /\ u[i] = s[i]
             \/ \E j \in DOMAIN t : i = Len(s) + j /\ u[i] = t[j]
  BY ConcatCases
<1>3. /\ \A i \in DOMAIN s : i \in DOMAIN u
      /\ \A i \in DOMAIN t : Len(s) + i \in DOMAIN u
  BY <1>1
<1> HIDE DEF u
<1>4. CASE Makes(s, acc) /\ Plain(t)
  <2>1. ASSUME NEW i \in DOMAIN u, NEW r \in Recommendations PROVE ~Settles(u[i], r)
    BY <1>2, <1>4 DEF Makes, Plain
  <2>2. ASSUME NEW i \in DOMAIN u, NEW r \in Recommendations, NewCopy(u[i], r)
        PROVE  i \in DOMAIN s /\ u[i] = s[i]
    BY <1>2, <1>4, <2>2 DEF Plain
  <2>3. ASSUME NEW i \in DOMAIN u, NEW j \in DOMAIN u, NEW r \in Recommendations,
               NewCopy(u[i], r)
        PROVE  r \in acc /\ (NewCopy(u[j], r) => j = i)
    BY <1>4, <2>2, <2>3 DEF Makes
  <2>4. ASSUME NEW r \in acc
        PROVE  \E k \in 1 .. MaxCopies : \A f \in {"event", "window"} :
                   \E j \in DOMAIN u : StoresAt(u[j], f, <<r, k>>)
    <3>1. PICK k \in 1 .. MaxCopies : \A f \in {"event", "window"} :
              \E j \in DOMAIN s : StoresAt(s[j], f, <<r, k>>)
      BY <1>4 DEF Makes
    <3>2. \A f \in {"event", "window"} : \E j \in DOMAIN u : StoresAt(u[j], f, <<r, k>>)
      BY <1>1, <1>3, <3>1
    <3> QED
      BY <3>2
  <2>5. Makes(u, acc)
    BY <2>1, <2>3, <2>4 DEF Makes
  <2> QED
    BY <2>5 DEF u
<1>5. CASE Plain(s) /\ Makes(t, acc)
  <2>1. ASSUME NEW i \in DOMAIN u, NEW r \in Recommendations PROVE ~Settles(u[i], r)
    BY <1>2, <1>5 DEF Makes, Plain
  <2>2. ASSUME NEW i \in DOMAIN u, NEW r \in Recommendations, NewCopy(u[i], r)
        PROVE  \E j \in DOMAIN t : i = Len(s) + j /\ u[i] = t[j]
    BY <1>2, <1>5, <2>2 DEF Plain
  <2>3. ASSUME NEW i \in DOMAIN u, NEW j \in DOMAIN u, NEW r \in Recommendations,
               NewCopy(u[i], r)
        PROVE  r \in acc /\ (NewCopy(u[j], r) => j = i)
    BY <1>5, <2>2, <2>3 DEF Makes
  <2>4. ASSUME NEW r \in acc
        PROVE  \E k \in 1 .. MaxCopies : \A f \in {"event", "window"} :
                   \E j \in DOMAIN u : StoresAt(u[j], f, <<r, k>>)
    <3>1. PICK k \in 1 .. MaxCopies : \A f \in {"event", "window"} :
              \E j \in DOMAIN t : StoresAt(t[j], f, <<r, k>>)
      BY <1>5 DEF Makes
    <3>2. \A f \in {"event", "window"} : \E j \in DOMAIN u : StoresAt(u[j], f, <<r, k>>)
      BY <1>1, <1>3, <3>1
    <3> QED
      BY <3>2
  <2>5. Makes(u, acc)
    BY <2>1, <2>3, <2>4 DEF Makes
  <2> QED
    BY <2>5 DEF u
<1> QED
  BY <1>4, <1>5

LEMMA EndsBefore ==
    ASSUME NEW s \in Seq(WriteSet), NEW t \in Seq(WriteSet), NEW acc \in SUBSET Recommendations,
           Ends(s, acc), Plain(t)
    PROVE  Ends(s \o t, acc)
<1> DEFINE u == s \o t
<1>1. /\ \A i \in DOMAIN s : i \in DOMAIN u /\ u[i] = s[i]
  BY ConcatFacts
<1>2. ASSUME NEW i \in DOMAIN u
      PROVE  \/ i \in DOMAIN s /\ u[i] = s[i]
             \/ \E j \in DOMAIN t : i = Len(s) + j /\ u[i] = t[j]
  BY ConcatCases
<1> HIDE DEF u
<1>3. \A i \in DOMAIN u, r \in Recommendations :
          ~NewCopy(u[i], r) /\ (Settles(u[i], r) => r \in acc)
  BY <1>2 DEF Ends, Plain
<1>4. \A r \in acc : \E i \in DOMAIN u : Settles(u[i], r)
  BY <1>1 DEF Ends
<1>5. Ends(u, acc)
  BY <1>3, <1>4 DEF Ends
<1> QED
  BY <1>5 DEF u

(* First the copies, then that they were made. *)
LEMMA MakesThenEnds ==
    ASSUME NEW m, NEW s \in Seq(WriteSet), NEW t \in Seq(WriteSet),
           NEW acc \in SUBSET Recommendations, Makes(s, acc), Ends(t, acc),
           \A r \in acc : m.rec[r] # "Consumed"
    PROVE  CopyFirst(s \o t) /\ OneCopy(m, s \o t)
<1> DEFINE u == s \o t
<1>1. /\ Len(s) \in Nat /\ Len(t) \in Nat
      /\ DOMAIN s = 1 .. Len(s) /\ DOMAIN t = 1 .. Len(t)
      /\ DOMAIN u = 1 .. Len(s) + Len(t)
      /\ \A i \in DOMAIN s : u[i] = s[i]
      /\ \A i \in DOMAIN t : u[Len(s) + i] = t[i]
  BY ConcatFacts
<1>2. ASSUME NEW i \in DOMAIN u
      PROVE  \/ i \in DOMAIN s /\ u[i] = s[i]
             \/ \E j \in DOMAIN t : i = Len(s) + j /\ u[i] = t[j]
  BY ConcatCases
<1>3. /\ \A i \in DOMAIN s : i \in DOMAIN u
      /\ \A i \in DOMAIN t : Len(s) + i \in DOMAIN u
      /\ \A i \in DOMAIN s, j \in DOMAIN t : i < Len(s) + j
  BY <1>1
<1> HIDE DEF u
<1>4. ASSUME NEW i \in DOMAIN u, NEW r \in Recommendations, Settles(u[i], r)
      PROVE  r \in acc /\ \E j \in DOMAIN t : i = Len(s) + j
  BY <1>2, <1>4 DEF Makes, Ends
<1>5. ASSUME NEW i \in DOMAIN u, NEW r \in Recommendations, NewCopy(u[i], r)
      PROVE  i \in DOMAIN s /\ u[i] = s[i]
  BY <1>2, <1>5 DEF Ends
<1>6. CopyFirst(u)
  <2> SUFFICES ASSUME NEW i \in DOMAIN u, NEW r \in Recommendations, Settles(u[i], r)
               PROVE  \E k \in 1 .. MaxCopies : AdmittedBefore(u, i, r, k)
    BY DEF CopyFirst
  <2>1. PICK k \in 1 .. MaxCopies : \A f \in {"event", "window"} :
            \E j \in DOMAIN s : StoresAt(s[j], f, <<r, k>>)
    BY <1>4 DEF Makes
  <2>2. \A j \in DOMAIN s : j \in DOMAIN u /\ j < i /\ u[j] = s[j]
    BY <1>1, <1>3, <1>4
  <2>3. AdmittedBefore(u, i, r, k)
    BY <2>1, <2>2 DEF AdmittedBefore
  <2> QED
    BY <2>3
<1>7. OneCopy(m, u)
  <2> SUFFICES ASSUME NEW i \in DOMAIN u, NEW r \in Recommendations, NewCopy(u[i], r)
               PROVE  /\ m.rec[r] # "Consumed"
                      /\ \E j \in DOMAIN u : j > i /\ Settles(u[j], r)
                      /\ \A j \in DOMAIN u : NewCopy(u[j], r) => j = i
    BY DEF OneCopy
  <2>1. i \in DOMAIN s /\ u[i] = s[i]
    BY <1>5
  <2>2. r \in acc
    BY <2>1 DEF Makes
  <2>3. PICK j \in DOMAIN t : Settles(t[j], r)
    BY <2>2 DEF Ends
  <2>4. Len(s) + j \in DOMAIN u /\ Len(s) + j > i /\ Settles(u[Len(s) + j], r)
    <3>1. Len(s) + j > i
      BY <1>1, <2>1
    <3> QED
      BY <1>1, <1>3, <2>3, <3>1
  <2>5. ASSUME NEW l \in DOMAIN u, NewCopy(u[l], r) PROVE l = i
    <3>1. l \in DOMAIN s /\ u[l] = s[l]
      BY <1>5, <2>5
    <3> QED
      BY <2>1, <2>5, <3>1 DEF Makes
  <2> QED
    BY <2>2, <2>4, <2>5
<1> QED
  BY <1>6, <1>7 DEF u

(* Writes that change nothing in Runtime State, store each of these as it is, and
   settle what was accepted. *)
Concludes(m, ws, recs, disturbers, acc) ==
    /\ AllSteps(m, ws) /\ Prompt(m, ws) /\ Covered(m, ws, {}) /\ EventFirst(ws)
    /\ After(m, ws) = m
    /\ Ends(ws, acc)
    /\ \A r \in recs : \E i \in DOMAIN ws : StoresAt(ws[i], "rec", r)
    /\ \A d \in disturbers : \E i \in DOMAIN ws : StoresAt(ws[i], "disturber", d)

LEMMA PlanUpdatedKeeps ==
    ASSUME NEW m \in States, Exclusive(m), NEW recs \in SUBSET Recommendations,
           NEW disturbers \in SUBSET Disturbers,
           \A r \in recs : m.rec[r] # Absent, \A d \in disturbers : m.disturber[d] # Absent,
           NEW acc \in SUBSET recs, \A r \in recs : m.rec[r] = "Consumed" <=> r \in acc
    PROVE  Concludes(m, PlanUpdated(m, recs, disturbers), recs, disturbers, acc)
<1> DEFINE s == StoringEach(m, "rec", recs)
           t == StoringEach(m, "disturber", disturbers)
           u == s \o t
<1>1. PlanUpdated(m, recs, disturbers) = u
  BY DEF PlanUpdated, StoringEach
<1>2. /\ AllSteps(m, s) /\ Prompt(m, s) /\ Covered(m, s, {}) /\ EventFirst(s)
      /\ After(m, s) = m
      /\ \A i \in DOMAIN s : s[i].file = "rec" /\ ~s[i].new /\ s[i].mem = m /\ s[i].of \in recs
      /\ \A r \in recs : \E i \in DOMAIN s : StoresAt(s[i], "rec", r)
  <2>1. recs \in SUBSET Names("rec") /\ "rec" \in {"rec", "disturber"}
        /\ \A r \in recs : m["rec"][r] # Absent
    BY DEF Names
  <2> QED
    BY <2>1, StoresEach
<1>3. /\ AllSteps(m, t) /\ Prompt(m, t) /\ Covered(m, t, {}) /\ EventFirst(t)
      /\ After(m, t) = m
      /\ \A i \in DOMAIN t :
            t[i].file = "disturber" /\ ~t[i].new /\ t[i].mem = m /\ t[i].of \in disturbers
      /\ \A d \in disturbers : \E i \in DOMAIN t : StoresAt(t[i], "disturber", d)
  <2>1. disturbers \in SUBSET Names("disturber") /\ "disturber" \in {"rec", "disturber"}
        /\ \A d \in disturbers : m["disturber"][d] # Absent
    BY DEF Names
  <2> QED
    BY <2>1, StoresEach
<1> HIDE DEF s, t
<1>4. s \in Seq(WriteSet) /\ t \in Seq(WriteSet)
  BY <1>2, <1>3 DEF AllSteps
<1>5. /\ AllSteps(m, u) /\ Prompt(m, u) /\ Covered(m, u, {}) /\ EventFirst(u)
  BY <1>2, <1>3, ConcatKeeps
<1>6. After(m, u) = m
  BY <1>2, <1>3, <1>4, AfterConcat
<1>7. /\ \A i \in DOMAIN s : i \in DOMAIN u /\ u[i] = s[i]
      /\ \A i \in DOMAIN t : Len(s) + i \in DOMAIN u /\ u[Len(s) + i] = t[i]
  BY <1>4, ConcatFacts
<1>8. /\ \A r \in recs : \E i \in DOMAIN u : StoresAt(u[i], "rec", r)
      /\ \A d \in disturbers : \E i \in DOMAIN u : StoresAt(u[i], "disturber", d)
  <2> HIDE DEF u
  <2> QED
    BY <1>2, <1>3, <1>7
<1>9. Ends(s, acc)
  <2>1. \A i \in DOMAIN s, r \in Recommendations : ~NewCopy(s[i], r)
    BY <1>2 DEF NewCopy
  <2>2. \A i \in DOMAIN s, r \in Recommendations : Settles(s[i], r) => r \in acc
    BY <1>2 DEF Settles, StoresAt, Value
  <2>3. ASSUME NEW r \in acc PROVE \E i \in DOMAIN s : Settles(s[i], r)
    <3>1. PICK i \in DOMAIN s : StoresAt(s[i], "rec", r)
      BY <1>2
    <3>2. s[i].mem = m /\ m.rec[r] = "Consumed"
      BY <1>2
    <3> QED
      BY <3>1, <3>2 DEF Settles, StoresAt, Value
  <2> QED
    BY <2>1, <2>2, <2>3 DEF Ends
<1>10. Plain(t)
  BY <1>3 DEF Plain, NewCopy, Settles, StoresAt
<1>11. Ends(u, acc)
  <2>1. acc \in SUBSET Recommendations
    OBVIOUS
  <2> QED
    BY <1>4, <1>9, <1>10, <2>1, EndsBefore
<1> HIDE DEF u
<1>12. Concludes(m, u, recs, disturbers, acc)
  BY <1>5, <1>6, <1>8, <1>11 DEF Concludes
<1> QED
  BY <1>1, <1>12

-----------------------------------------------------------------------------
(***************************************************************************)
(* The cycle.                                                              *)
(***************************************************************************)

LEMMA DisturbedServes ==
    ASSUME NEW m \in States, Exclusive(m), Owned(m), NEW reason
    PROVE  LET a == After(m, Disturbed(m, reason)) IN
           /\ Serves(m, Disturbed(m, reason))
           /\ a \in States /\ Exclusive(a) /\ Owned(a) /\ SameEvents(m, a)
           /\ a.rec = m.rec /\ a.disturber = m.disturber
<1>1. CASE reason \in Disturbers
  <2>1. Disturbed(m, reason) = Disturbs(m)
    BY <1>1 DEF Disturbed
  <2> QED
    BY <2>1, DisturbsServes
<1>2. CASE reason \notin Disturbers
  <2>1. Disturbed(m, reason) = <<>>
    BY <1>2 DEF Disturbed
  <2> QED
    BY <2>1, NothingServes DEF SameEvents
<1> QED
  BY <1>1, <1>2

(* What has expired and what was resolved is so at once, and stored at the end. *)
Settled(m, expired, resolved) ==
    [m EXCEPT !.disturber = [d \in Disturbers |-> IF d \in resolved THEN "Resolved" ELSE @[d]],
              !.rec = [r \in Recommendations |-> IF r \in expired THEN "Expired" ELSE @[r]]]

(* The cycle after the disturbance. *)
Body(m, due, recs, resolved) ==
    LET consuming == Consumes(m)
        consumed == After(m, consuming)
        advancing == Advances(consumed, due)
        advanced == After(consumed, advancing)
    IN  consuming \o advancing \o PlanUpdated(advanced, recs, resolved)
        \o <<Unstored([advanced EXCEPT !.scheduling = FALSE])>>

LEMMA SettledIs ==
    ASSUME NEW m \in States, Exclusive(m), Owned(m),
           NEW expired, NEW resolved, NEW n, n = Settled(m, expired, resolved)
    PROVE  /\ n \in States /\ n.event = m.event /\ n.window = m.window
           /\ \A r \in Recommendations :
                 n.rec[r] = IF r \in expired THEN "Expired" ELSE m.rec[r]
           /\ \A d \in Disturbers :
                 n.disturber[d] = IF d \in resolved THEN "Resolved" ELSE m.disturber[d]
           /\ Exclusive(n) /\ Owned(n)
<1>1. /\ n.event = m.event /\ n.window = m.window
      /\ n.context = m.context /\ n.scheduling = m.scheduling
      /\ n.rec = [r \in Recommendations |-> IF r \in expired THEN "Expired" ELSE m.rec[r]]
      /\ n.disturber = [d \in Disturbers |->
                           IF d \in resolved THEN "Resolved" ELSE m.disturber[d]]
      /\ n = [event |-> n.event, window |-> n.window, rec |-> n.rec, disturber |-> n.disturber,
              context |-> n.context, scheduling |-> n.scheduling]
  BY DEF Settled, States
<1>2. n.rec \in [Recommendations -> RecommendationStatus \cup {Absent}]
  BY <1>1 DEF States, RecommendationStatus
<1>3. n.disturber \in [Disturbers -> DisturberStatus \cup {Absent}]
  BY <1>1 DEF States, DisturberStatus
<1>4. n \in States
  BY <1>1, <1>2, <1>3 DEF States
<1>5. Exclusive(n) /\ Owned(n)
  BY <1>1 DEF Exclusive, Owned, Hot
<1> QED
  BY <1>1, <1>4, <1>5

(* What the cycle after a disturbance is: it stores each of these Recommendations
   and Disturbers, and makes Events of the accepted before it settles them. *)
Carries(m, ws, recs, resolved, acc) ==
    /\ AllSteps(m, ws) /\ Prompt(m, ws) /\ Covered(m, ws, {}) /\ EventFirst(ws)
    /\ ws # <<>>
    /\ \A r \in recs : \E i \in DOMAIN ws : StoresAt(ws[i], "rec", r)
    /\ \A d \in resolved : \E i \in DOMAIN ws : StoresAt(ws[i], "disturber", d)
    /\ \E s, t \in Seq(WriteSet) : ws = s \o t /\ Makes(s, acc) /\ Ends(t, acc)

LEMMA BodyKeeps ==
    ASSUME NEW m \in States, Exclusive(m), Owned(m),
           NEW due \in [Events -> {"no", "Ready", "Skipped", "Overtaken"}],
           NEW recs \in SUBSET Recommendations, NEW resolved \in SUBSET Disturbers,
           Accepted(m) \in SUBSET recs,
           \A r \in recs \ Accepted(m) : m.rec[r] = "Expired",
           \A d \in resolved : m.disturber[d] = "Resolved"
    PROVE  Carries(m, Body(m, due, recs, resolved), recs, resolved, Accepted(m))
<1> DEFINE acc == Accepted(m)
           owed == {"rec"} \X acc
           consuming == Consumes(m)
           consumed == After(m, consuming)
           advancing == Advances(consumed, due)
           advanced == After(consumed, advancing)
           planned == PlanUpdated(advanced, recs, resolved)
           n == [advanced EXCEPT !.scheduling = FALSE]
           last == <<Unstored(n)>>
           ws == consuming \o advancing \o planned \o last
<1>1. Body(m, due, recs, resolved) = ws
  BY DEF Body
<1>2. /\ AllSteps(m, consuming) /\ Prompt(m, consuming) /\ EventFirst(consuming)
      /\ Covered(m, consuming, owed) /\ Makes(consuming, acc)
      /\ consumed \in States /\ Exclusive(consumed) /\ Owned(consumed)
      /\ consumed.disturber = m.disturber
      /\ \A r \in Recommendations :
            consumed.rec[r] = IF r \in acc THEN "Consumed" ELSE m.rec[r]
  BY ConsumesKeeps
<1> HIDE DEF consuming, consumed
<1>3. /\ Serves(consumed, advancing)
      /\ advanced \in States /\ Exclusive(advanced)
      /\ advanced.rec = consumed.rec /\ advanced.disturber = consumed.disturber
  BY <1>2, AdvancesServes
<1> HIDE DEF advancing, advanced
<1>4. acc \in SUBSET Recommendations
  BY DEF Accepted
<1> HIDE DEF acc
<1>5. /\ AllSteps(advanced, planned) /\ Prompt(advanced, planned)
      /\ Covered(advanced, planned, {}) /\ EventFirst(planned)
      /\ After(advanced, planned) = advanced
      /\ Ends(planned, acc)
      /\ \A r \in recs : \E i \in DOMAIN planned : StoresAt(planned[i], "rec", r)
      /\ \A d \in resolved : \E i \in DOMAIN planned : StoresAt(planned[i], "disturber", d)
  <2>1. \A r \in recs : /\ advanced.rec[r] # Absent
                        /\ advanced.rec[r] = "Consumed" <=> r \in acc
    BY <1>2, <1>3 DEF acc, Absent
  <2>2. \A d \in resolved : advanced.disturber[d] # Absent
    BY <1>2, <1>3 DEF Absent
  <2>3. acc \in SUBSET recs
    BY DEF acc
  <2>4. Concludes(advanced, planned, recs, resolved, acc)
    BY <1>3, <2>1, <2>2, <2>3, PlanUpdatedKeeps
  <2> HIDE DEF planned
  <2> QED
    BY <2>4 DEF Concludes
<1> HIDE DEF planned
<1>6. Serves(advanced, last)
  <2>1. n \in States /\ \A g \in Files : n[g] = advanced[g]
    BY <1>3 DEF States, Files
  <2> HIDE DEF n
  <2> QED
    BY <1>3, <2>1, SilentServes
<1> HIDE DEF last
<1>7. /\ consuming \in Seq(WriteSet) /\ advancing \in Seq(WriteSet)
      /\ planned \in Seq(WriteSet) /\ last \in Seq(WriteSet) /\ last # <<>>
  BY <1>2, <1>3, <1>5, <1>6 DEF AllSteps, Serves, last
<1> DEFINE s == consuming \o advancing
           u == s \o planned
<1>8. /\ AllSteps(m, s) /\ Prompt(m, s) /\ EventFirst(s) /\ Covered(m, s, owed)
      /\ After(m, s) = advanced /\ s \in Seq(WriteSet)
  <2>1. AllSteps(After(m, consuming), advancing) /\ Prompt(After(m, consuming), advancing)
    BY <1>3 DEF Serves, consumed
  <2>2. Covered(After(m, consuming), advancing, owed)
    BY <1>3 DEF Serves, Covered, consumed
  <2>3. AllSteps(m, s) /\ Prompt(m, s) /\ EventFirst(s)
    BY <1>2, <1>3, <2>1, ConcatKeeps DEF Serves
  <2>4. Covered(m, s, owed)
    <3> HIDE DEF owed
    <3> QED
      BY <1>2, <2>1, <2>2, ConcatKeeps
  <2>5. After(m, s) = advanced
    BY <1>7, AfterConcat DEF consumed, advanced
  <2> QED
    BY <2>3, <2>4, <2>5 DEF AllSteps
<1>9. Makes(s, acc)
  BY <1>2, <1>3, <1>4, <1>7, MakesAround DEF Serves
<1> HIDE DEF s
<1>10. /\ AllSteps(m, u) /\ Prompt(m, u) /\ EventFirst(u) /\ Covered(m, u, {})
       /\ After(m, u) = advanced /\ u \in Seq(WriteSet)
  <2>1. AllSteps(After(m, s), planned) /\ Prompt(After(m, s), planned)
        /\ Covered(After(m, s), planned, {})
    BY <1>5, <1>8
  <2>2. \A f \in Files : \A x \in Names(f) : <<f, x>> \in owed =>
            \E j \in DOMAIN planned : StoresAt(planned[j], f, x)
    BY <1>5 DEF acc
  <2> HIDE DEF owed
  <2>3. AllSteps(m, u) /\ Prompt(m, u) /\ EventFirst(u)
    BY <1>5, <1>8, <2>1, ConcatKeeps
  <2>4. Covered(m, u, {})
    BY <1>8, <2>1, <2>2, ConcatKeeps
  <2>5. After(m, u) = advanced
    BY <1>5, <1>7, <1>8, AfterConcat
  <2> QED
    BY <2>3, <2>4, <2>5 DEF AllSteps
<1>11. /\ \A r \in recs : \E i \in DOMAIN u : StoresAt(u[i], "rec", r)
       /\ \A d \in resolved : \E i \in DOMAIN u : StoresAt(u[i], "disturber", d)
  <2>1. \A i \in DOMAIN planned : Len(s) + i \in DOMAIN u /\ u[Len(s) + i] = planned[i]
    BY <1>7, <1>8, ConcatFacts
  <2> HIDE DEF u
  <2> QED
    BY <1>5, <2>1
<1>12. ws = s \o (planned \o last)
  <2>1. ws = (s \o planned) \o last
    BY DEF s
  <2>2. (s \o planned) \o last = s \o (planned \o last)
    BY <1>7, <1>8, ConcatAssociative
  <2> QED
    BY <2>1, <2>2
<1>13. Ends(planned \o last, acc) /\ planned \o last \in Seq(WriteSet)
  <2>1. Plain(last)
    BY <1>6 DEF Serves
  <2> QED
    BY <1>4, <1>5, <1>7, <2>1, EndsBefore, ConcatFacts
<1>14. ws = u \o last
  BY DEF s
<1> HIDE DEF u, ws
<1>15. AllSteps(m, ws) /\ Prompt(m, ws) /\ EventFirst(ws) /\ Covered(m, ws, {})
  <2>1. AllSteps(After(m, u), last) /\ Prompt(After(m, u), last)
        /\ Covered(After(m, u), last, {}) /\ EventFirst(last)
    BY <1>6, <1>10 DEF Serves
  <2> QED
    BY <1>10, <1>14, <2>1, ConcatKeeps
<1>16. /\ \A i \in DOMAIN u : i \in DOMAIN ws /\ ws[i] = u[i]
       /\ ws # <<>>
  <2>1. /\ ws \in Seq(WriteSet) /\ Len(ws) = Len(u) + Len(last)
        /\ Len(u) \in Nat /\ Len(last) \in Nat
        /\ \A i \in DOMAIN u : i \in DOMAIN ws /\ ws[i] = u[i]
    BY <1>7, <1>10, <1>14, ConcatFacts
  <2>2. Len(last) # 0
    BY <1>7, SeqFacts
  <2>3. Len(ws) # 0
    BY <2>1, <2>2
  <2> QED
    BY <2>1, <2>3, SeqFacts
<1>17. /\ \A r \in recs : \E i \in DOMAIN ws : StoresAt(ws[i], "rec", r)
       /\ \A d \in resolved : \E i \in DOMAIN ws : StoresAt(ws[i], "disturber", d)
  BY <1>11, <1>16
<1>18. \E s1, t1 \in Seq(WriteSet) : ws = s1 \o t1 /\ Makes(s1, acc) /\ Ends(t1, acc)
  BY <1>8, <1>9, <1>12, <1>13
<1>19. Carries(m, ws, recs, resolved, acc)
  BY <1>15, <1>16, <1>17, <1>18 DEF Carries
<1> QED
  BY <1>1, <1>19 DEF acc
(* What was accepted is so after the disturbance, too. *)
LEMMA AcceptedStays ==
    ASSUME NEW m, NEW n, SameEvents(m, n),
           \A r \in Recommendations : n.rec[r] = "Accepted" <=> m.rec[r] = "Accepted"
    PROVE  Accepted(n) = Accepted(m)
<1>1. ASSUME NEW r \in Recommendations PROVE Unused(n, r) = Unused(m, r)
  <2>1. \A k \in 1 .. MaxCopies : <<r, k>> \in Events
    BY DEF Events
  <2> QED
    BY <2>1 DEF Unused, SameEvents
<1> QED
  BY <1>1 DEF Accepted

LEMMA CycleIs ==
    ASSUME NEW m, NEW reason, NEW expired, NEW due
    PROVE  LET entered == [m EXCEPT !.scheduling = TRUE]
               resolved == {d \in Disturbers : d = reason /\ m.disturber[d] = "Applied"}
               disturbing == Disturbed(entered, reason)
               settled == Settled(After(entered, disturbing), expired, resolved)
           IN  Cycle(m, reason, expired, due)
                   = Then(disturbing, Body(settled, due, expired \cup Accepted(m), resolved))
BY Zenon DEF Cycle, Settled, Body

LEMMA CycleIsSound ==
    ASSUME NEW m \in States, Exclusive(m), Owned(m), NEW reason,
           NEW expired \in SUBSET {r \in Recommendations : m.rec[r] = "Pending"},
           NEW due \in [Events -> {"no", "Ready", "Skipped", "Overtaken"}]
    PROVE  Sound(m, Cycle(m, reason, expired, due))
<1> DEFINE entered == [m EXCEPT !.scheduling = TRUE]
           resolved == {d \in Disturbers : d = reason /\ m.disturber[d] = "Applied"}
           disturbing == Disturbed(entered, reason)
           disturbed == After(entered, disturbing)
           settled == Settled(disturbed, expired, resolved)
           acc == Accepted(m)
           recs == expired \cup acc
           body == Body(settled, due, recs, resolved)
<1>1. Cycle(m, reason, expired, due)
          = IF Raising(disturbing) THEN disturbing ELSE disturbing \o body
  <2>1. Cycle(m, reason, expired, due) = Then(disturbing, body)
    BY CycleIs, Zenon
  <2> QED
    BY <2>1 DEF Then
<1>2. entered \in States /\ \A f \in Files : entered[f] = m[f]
  BY DEF States, Files
<1> HIDE DEF entered
<1>3. Exclusive(entered) /\ Owned(entered) /\ SameEvents(m, entered)
      /\ entered.rec = m.rec /\ entered.disturber = m.disturber
  BY <1>2 DEF Exclusive, Owned, SameEvents, Files
<1>4. /\ Serves(entered, disturbing)
      /\ disturbed \in States /\ Exclusive(disturbed) /\ Owned(disturbed)
      /\ SameEvents(entered, disturbed)
      /\ disturbed.rec = m.rec /\ disturbed.disturber = m.disturber
  BY <1>2, <1>3, DisturbedServes
<1> HIDE DEF disturbing, disturbed
<1>5. /\ settled \in States
      /\ settled.event = disturbed.event /\ settled.window = disturbed.window
      /\ \A r \in Recommendations :
            settled.rec[r] = IF r \in expired THEN "Expired" ELSE m.rec[r]
      /\ \A d \in Disturbers :
            settled.disturber[d] = IF d \in resolved THEN "Resolved" ELSE m.disturber[d]
      /\ Exclusive(settled) /\ Owned(settled)
  BY <1>4, SettledIs
<1> HIDE DEF settled
<1>6. Accepted(settled) = acc
  <2>1. SameEvents(m, settled)
    BY <1>3, <1>4, <1>5 DEF SameEvents
  <2>2. \A r \in Recommendations : settled.rec[r] = "Accepted" <=> m.rec[r] = "Accepted"
    BY <1>5
  <2> QED
    BY <2>1, <2>2, AcceptedStays
<1>7. acc \in SUBSET Recommendations /\ \A r \in acc : m.rec[r] = "Accepted"
  BY DEF Accepted
<1> HIDE DEF acc
<1>8. resolved \in SUBSET Disturbers
  OBVIOUS
<1> HIDE DEF resolved
<1>9. /\ AllSteps(settled, body) /\ Prompt(settled, body) /\ Covered(settled, body, {})
      /\ EventFirst(body) /\ body # <<>>
      /\ \A r \in expired : \E i \in DOMAIN body : StoresAt(body[i], "rec", r)
      /\ \A d \in resolved : \E i \in DOMAIN body : StoresAt(body[i], "disturber", d)
      /\ \E s, t \in Seq(WriteSet) : body = s \o t /\ Makes(s, acc) /\ Ends(t, acc)
  <2>1. recs \in SUBSET Recommendations
    BY <1>7
  <2>2. Accepted(settled) \in SUBSET recs
    BY <1>6
  <2>3. \A r \in recs \ Accepted(settled) : settled.rec[r] = "Expired"
    BY <1>5, <1>6
  <2>4. \A d \in resolved : settled.disturber[d] = "Resolved"
    BY <1>5, <1>8
  <2>5. expired \in SUBSET recs
    OBVIOUS
  <2> HIDE DEF recs
  <2>6. Carries(settled, body, recs, resolved, Accepted(settled))
    BY <1>5, <1>8, <2>1, <2>2, <2>3, <2>4, BodyKeeps
  <2> HIDE DEF body
  <2> QED
    BY <1>6, <2>5, <2>6 DEF Carries
<1> HIDE DEF body
<1>10. AllSteps(disturbed, body) /\ Prompt(disturbed, body) /\ Covered(disturbed, body, {})
  <2>1. \A r \in Recommendations :
            disturbed.rec[r] = "Consumed" => settled.rec[r] = "Consumed"
    BY <1>4, <1>5
  <2>2. \A f \in {"event", "window"}, e \in Events :
            Hot(f, disturbed[f][e]) => Hot(f, settled[f][e])
    BY <1>5
  <2>3. ASSUME NEW f \in Files, NEW x \in Names(f), disturbed[f][x] # settled[f][x]
        PROVE  \E j \in DOMAIN body : StoresAt(body[j], f, x)
    <3>1. CASE f \in {"event", "window"}
      BY <1>5, <2>3, <3>1
    <3>2. CASE f = "rec"
      BY <1>4, <1>5, <1>9, <2>3, <3>2 DEF Names
    <3>3. CASE f = "disturber"
      BY <1>4, <1>5, <1>9, <2>3, <3>3 DEF Names
    <3> QED
      BY <3>1, <3>2, <3>3 DEF Files
  <2> QED
    BY <1>5, <1>9, <2>1, <2>2, <2>3, Rebased
<1>11. disturbing \in Seq(WriteSet) /\ body \in Seq(WriteSet)
  BY <1>4, <1>9 DEF Serves, AllSteps
<1>12. ASSUME NEW ws, ws # <<>>, AllSteps(entered, ws), Prompt(entered, ws),
              Covered(entered, ws, {})
       PROVE  AllSteps(m, ws) /\ Prompt(m, ws) /\ Covered(m, ws, {})
  <2>1. \A f \in Files : \A x \in Names(f) : m[f][x] = entered[f][x]
    BY <1>2
  <2>2. \A f \in {"event", "window"}, e \in Events : Hot(f, m[f][e]) => Hot(f, entered[f][e])
    BY <1>2 DEF Files
  <2>3. /\ \A r \in Recommendations : m.rec[r] = "Consumed" => entered.rec[r] = "Consumed"
        /\ Owned(m) => Owned(entered)
    BY <1>3
  <2>4. AllSteps(m, ws) /\ Prompt(m, ws)
    BY <1>12, <2>2, <2>3, Rebased
  <2>5. Covered(m, ws, {})
    BY <1>12, <2>1, <2>3, Rebased
  <2> QED
    BY <2>4, <2>5
<1>13. CASE Raising(disturbing)
  <2>1. disturbing # <<>>
    BY <1>13 DEF Raising
  <2>2. Serves(m, disturbing)
    BY <1>4, <1>12, <2>1 DEF Serves
  <2> QED
    BY <1>1, <1>13, <2>2, ServesIsSound
<1>14. CASE ~Raising(disturbing)
  <2> DEFINE u == disturbing \o body
  <2>1. AllSteps(After(entered, disturbing), body) /\ Prompt(After(entered, disturbing), body)
        /\ Covered(After(entered, disturbing), body, {})
    BY <1>10 DEF disturbed
  <2>2. AllSteps(entered, u) /\ Prompt(entered, u) /\ EventFirst(u)
    BY <1>4, <1>9, <2>1, ConcatKeeps DEF Serves
  <2>3. Covered(entered, u, {})
    BY <1>4, <2>1, ConcatKeeps DEF Serves
  <2>4. u # <<>>
    <3>1. u \in Seq(WriteSet) /\ Len(u) = Len(disturbing) + Len(body)
          /\ Len(disturbing) \in Nat /\ Len(body) \in Nat
      BY <1>11, ConcatFacts
    <3>2. Len(body) # 0
      BY <1>9, <1>11, SeqFacts
    <3>3. Len(u) # 0
      BY <3>1, <3>2
    <3> QED
      BY <3>1, <3>3, SeqFacts
  <2>5. CopyFirst(u) /\ OneCopy(m, u)
    <3>1. PICK s, t \in Seq(WriteSet) : body = s \o t /\ Makes(s, acc) /\ Ends(t, acc)
      BY <1>9
    <3>2. u = (disturbing \o s) \o t
      BY <1>11, <3>1, ConcatAssociative
    <3>3. Makes(disturbing \o s, acc) /\ disturbing \o s \in Seq(WriteSet)
      BY <1>4, <1>7, <1>11, <3>1, MakesAround, ConcatFacts DEF Serves
    <3>4. \A r \in acc : m.rec[r] # "Consumed"
      BY <1>7
    <3> HIDE DEF u
    <3> QED
      BY <1>7, <3>1, <3>2, <3>3, <3>4, MakesThenEnds
  <2> HIDE DEF u
  <2>6. AllSteps(m, u) /\ Prompt(m, u) /\ Covered(m, u, {})
    BY <1>12, <2>2, <2>3, <2>4
  <2>7. Sound(m, u)
    BY <2>2, <2>5, <2>6 DEF Sound
  <2> QED
    BY <1>1, <1>14, <2>7 DEF u
<1> QED
  BY <1>13, <1>14
-----------------------------------------------------------------------------
(***************************************************************************)
(* The actions.                                                            *)
(***************************************************************************)

(* What the status of a Recommendation or a Disturber becomes is stored at once. *)
LEMMA MarkingServes ==
    ASSUME NEW m \in States, NEW n \in States, Exclusive(m), NEW f \in {"rec", "disturber"},
           NEW x \in Names(f), NEW w, w = Update(n, f, x) \/ w = New(n, f, x),
           \A g \in Files \ {f} : n[g] = m[g], \A y \in Names(f) : y # x => n[f][y] = m[f][y],
           n[f][x] # Absent, f = "rec" => m.rec[x] # "Consumed" /\ n.rec[x] # "Consumed"
    PROVE  Serves(m, <<w>>)
<1>1. n.event = m.event /\ n.window = m.window
  BY DEF Files
<1>2. Exclusive(n) /\ (Owned(m) => Owned(n))
  BY <1>1 DEF Exclusive, Owned, Hot
<1>3. \A g \in Files : \A y \in Names(g) : n[g][y] = m[g][y] \/ (g = f /\ y = x)
  OBVIOUS
<1>4. f \in Files
  BY DEF Files
<1> QED
  BY <1>2, <1>3, <1>4, WriteServes

LEMMA RecommendationServes ==
    ASSUME NEW m \in States, Exclusive(m), NEW r \in Recommendations, m.rec[r] # "Consumed",
           NEW status \in {"Pending", "Accepted", "Rejected"}, NEW n,
           n = [m EXCEPT !.rec[r] = status]
    PROVE  Serves(m, <<New(n, "rec", r)>>) /\ Serves(m, <<Update(n, "rec", r)>>)
<1>1. /\ n \in States /\ n.event = m.event /\ n.window = m.window /\ n.disturber = m.disturber
      /\ \A s \in Recommendations : s # r => n.rec[s] = m.rec[s]
      /\ n.rec[r] = status
  BY DEF States, RecommendationStatus
<1>2. /\ \A g \in Files \ {"rec"} : n[g] = m[g]
      /\ \A y \in Names("rec") : y # r => n["rec"][y] = m["rec"][y]
      /\ n["rec"][r] # Absent /\ n.rec[r] # "Consumed"
      /\ "rec" \in {"rec", "disturber"} /\ r \in Names("rec")
  BY <1>1 DEF Files, Names, Absent
<1> DEFINE a == New(n, "rec", r)
           b == Update(n, "rec", r)
<1>3. Serves(m, <<a>>)
  <2>1. a = Update(n, "rec", r) \/ a = New(n, "rec", r)
    OBVIOUS
  <2> HIDE DEF a
  <2> QED
    BY <1>1, <1>2, <2>1, MarkingServes
<1>4. Serves(m, <<b>>)
  <2>1. b = Update(n, "rec", r) \/ b = New(n, "rec", r)
    OBVIOUS
  <2> HIDE DEF b
  <2> QED
    BY <1>1, <1>2, <2>1, MarkingServes
<1> QED
  BY <1>3, <1>4

LEMMA DisturberServes ==
    ASSUME NEW m \in States, Exclusive(m), NEW d \in Disturbers,
           NEW status \in {"Analyzed", "Applied"}, NEW n,
           n = [m EXCEPT !.disturber[d] = status]
    PROVE  Serves(m, <<New(n, "disturber", d)>>)
<1>1. /\ n \in States /\ n.event = m.event /\ n.window = m.window /\ n.rec = m.rec
      /\ \A s \in Disturbers : s # d => n.disturber[s] = m.disturber[s]
      /\ n.disturber[d] = status
  BY DEF States, DisturberStatus
<1>2. /\ \A g \in Files \ {"disturber"} : n[g] = m[g]
      /\ \A y \in Names("disturber") : y # d => n["disturber"][y] = m["disturber"][y]
      /\ n["disturber"][d] # Absent
      /\ "disturber" \in {"rec", "disturber"} /\ d \in Names("disturber")
  BY <1>1 DEF Files, Names, Absent
<1> DEFINE a == New(n, "disturber", d)
<1>3. a = Update(n, "disturber", d) \/ a = New(n, "disturber", d)
  OBVIOUS
<1> HIDE DEF a
<1>4. Serves(m, <<a>>)
  BY <1>1, <1>2, <1>3, MarkingServes
<1> QED
  BY <1>4 DEF a

LEMMA OperationKeeps ==
    ASSUME IInv, up, todo = <<>>, NEW ws, NEW following, Sound(mem, ws), Begin(ws, following)
    PROVE  IInv'
BY BeginKeeps DEF Begin

LEMMA UpFacts ==
    ASSUME IInv, up
    PROVE  mem \in States /\ Exclusive(mem) /\ Owned(mem)
BY DEF IInv, Typed, WindowsOwned

LEMMA CycleActionsKeep ==
    ASSUME IInv, CycleRefused \/ RunsCycle \/ StartRefused
    PROVE  IInv'
<1>1. CASE CycleRefused
  <2>1. Sound(mem, <<>>)
    BY NothingServes, ServesIsSound
  <2> QED
    BY <1>1, <2>1, OperationKeeps DEF CycleRefused
<1>2. CASE RunsCycle
  <2>1. up /\ todo = <<>>
    BY <1>2 DEF RunsCycle
  <2>2. PICK expired \in SUBSET {r \in Recommendations : mem.rec[r] = "Pending"},
             due \in Dues(After(mem, Disturbed(mem, next))) :
                 LET ws == Cycle(mem, next, expired, due) IN Begin(ws, FollowedUp(ws))
    BY <1>2 DEF RunsCycle
  <2>3. due \in [Events -> {"no", "Ready", "Skipped", "Overtaken"}]
    BY DEF Dues
  <2>4. Sound(mem, Cycle(mem, next, expired, due))
    BY <2>1, <2>3, UpFacts, CycleIsSound
  <2> DEFINE ws == Cycle(mem, next, expired, due)
  <2>5. Begin(ws, FollowedUp(ws))
    BY <2>2
  <2>6. Sound(mem, ws)
    BY <2>4
  <2> HIDE DEF ws
  <2> QED
    BY <2>1, <2>5, <2>6, OperationKeeps
<1>3. CASE StartRefused
  <2>1. up /\ todo = <<>> /\ Begin(PauseRunning(mem), "nothing")
    BY <1>3 DEF StartRefused, Free
  <2>2. Sound(mem, PauseRunning(mem))
    BY <2>1, UpFacts, PausingServes, ServesIsSound
  <2> QED
    BY <2>1, <2>2, OperationKeeps
<1> QED
  BY <1>1, <1>2, <1>3

LEMMA RecommendationActionsKeep ==
    ASSUME IInv, NEW r \in Recommendations,
           Proposes(r) \/ AcceptRecommendation(r) \/ RejectRecommendation(r)
    PROVE  IInv'
<1>1. up /\ todo = <<>>
  BY DEF Proposes, AcceptRecommendation, RejectRecommendation, Free
<1>2. mem \in States /\ Exclusive(mem)
  BY <1>1, UpFacts
<1>3. CASE Proposes(r)
  <2> DEFINE ws == <<New([mem EXCEPT !.rec[r] = "Pending"], "rec", r)>>
  <2>1. Begin(ws, "cycle") /\ mem.rec[r] # "Consumed"
    BY <1>3 DEF Proposes, Absent
  <2>2. Sound(mem, ws)
    BY <1>2, <2>1, RecommendationServes, ServesIsSound
  <2> HIDE DEF ws
  <2> QED
    BY <1>1, <2>1, <2>2, OperationKeeps
<1>4. CASE AcceptRecommendation(r)
  <2> DEFINE ws == <<Update([mem EXCEPT !.rec[r] = "Accepted"], "rec", r)>>
  <2>1. Begin(ws, "cycle") /\ mem.rec[r] # "Consumed"
    BY <1>4 DEF AcceptRecommendation
  <2>2. Sound(mem, ws)
    BY <1>2, <2>1, RecommendationServes, ServesIsSound
  <2> HIDE DEF ws
  <2> QED
    BY <1>1, <2>1, <2>2, OperationKeeps
<1>5. CASE RejectRecommendation(r)
  <2> DEFINE ws == <<Update([mem EXCEPT !.rec[r] = "Rejected"], "rec", r)>>
  <2>1. Begin(ws, "nothing") /\ mem.rec[r] # "Consumed"
    BY <1>5 DEF RejectRecommendation
  <2>2. Sound(mem, ws)
    BY <1>2, <2>1, RecommendationServes, ServesIsSound
  <2> HIDE DEF ws
  <2> QED
    BY <1>1, <2>1, <2>2, OperationKeeps
<1> QED
  BY <1>3, <1>4, <1>5

LEMMA EventActionsKeep ==
    ASSUME IInv, NEW e \in Events,
           \/ UserStarted(e) \/ UserPaused(e) \/ UserResumed(e)
           \/ UserCompleted(e) \/ UserCancelled(e)
    PROVE  IInv'
<1>1. up /\ todo = <<>>
  BY DEF UserStarted, UserPaused, UserResumed, UserCompleted, UserCancelled, Free
<1>2. mem \in States /\ Exclusive(mem)
  BY <1>1, UpFacts
<1>3. CASE UserStarted(e)
  <2>1. Begin(Starts(mem, e), "cycle")
    BY <1>3 DEF UserStarted
  <2> QED
    BY <1>1, <1>2, <2>1, StartsIsSound, OperationKeeps
<1>4. CASE UserPaused(e)
  <2>1. Begin(Pauses(mem, e), "cycle")
    BY <1>4 DEF UserPaused
  <2> QED
    BY <1>1, <1>2, <2>1, PausesIsSound, OperationKeeps
<1>5. CASE UserResumed(e)
  <2>1. Begin(Resumes(mem, e), "cycle")
    BY <1>5 DEF UserResumed
  <2> QED
    BY <1>1, <1>2, <2>1, ResumesIsSound, OperationKeeps
<1>6. CASE UserCompleted(e)
  <2>1. Begin(Completes(mem, e), "cycle")
    BY <1>6 DEF UserCompleted
  <2> QED
    BY <1>1, <1>2, <2>1, CompletesIsSound, OperationKeeps
<1>7. CASE UserCancelled(e)
  <2>1. Begin(Changes(mem, e, "Cancelled"), "cycle")
    BY <1>7 DEF UserCancelled
  <2>2. "Cancelled" \in EventStatus \ RunningStates
    BY DEF EventStatus, RunningStates
  <2> QED
    BY <1>1, <1>2, <2>1, <2>2, ChangesIsSound, OperationKeeps
<1> QED
  BY <1>3, <1>4, <1>5, <1>6, <1>7

LEMMA ReportActionsKeep ==
    ASSUME IInv, \/ \E e \in Spontaneous : ReportSpontaneous(e)
                 \/ \E d \in Disturbers : ReportDisturber(d)
    PROVE  IInv'
<1>1. ASSUME NEW e \in Spontaneous, ReportSpontaneous(e) PROVE IInv'
  <2>1. up /\ todo = <<>> /\ mem.event[e] = Absent /\ Begin(Reports(mem, e), "cycle")
    BY <1>1 DEF ReportSpontaneous, Free
  <2>2. Sound(mem, Reports(mem, e))
    BY <2>1, UpFacts, ReportsIsSound
  <2> QED
    BY <2>1, <2>2, OperationKeeps
<1>2. ASSUME NEW d \in Disturbers, ReportDisturber(d) PROVE IInv'
  <2> DEFINE status == IF mem.context = Idle THEN "Analyzed" ELSE "Applied"
             ws == <<New([mem EXCEPT !.disturber[d] = status], "disturber", d)>>
  <2>1. up /\ todo = <<>> /\ Begin(ws, d)
    BY <1>2 DEF ReportDisturber, Free
  <2>2. status \in {"Analyzed", "Applied"}
    OBVIOUS
  <2> HIDE DEF status
  <2>3. Sound(mem, ws)
    BY <2>1, <2>2, UpFacts, DisturberServes, ServesIsSound
  <2> HIDE DEF ws
  <2> QED
    BY <2>1, <2>3, OperationKeeps
<1> QED
  BY <1>1, <1>2

LEMMA StepKeeps == IInv /\ [Next]_vars => IInv'
<1> SUFFICES ASSUME IInv, [Next]_vars PROVE IInv'
    OBVIOUS
<1>1. CASE Restarts
  BY <1>1, RestartsKeep
<1>2. CASE Writes
  BY <1>2, WritesKeep
<1>3. CASE Fails
  BY <1>3, FailsKeep
<1>4. CASE CycleRefused \/ RunsCycle \/ StartRefused
  BY <1>4, CycleActionsKeep
<1>5. CASE \E r \in Recommendations :
               Proposes(r) \/ AcceptRecommendation(r) \/ RejectRecommendation(r)
  BY <1>5, RecommendationActionsKeep
<1>6. CASE \E e \in Events :
               \/ UserStarted(e) \/ UserPaused(e) \/ UserResumed(e)
               \/ UserCompleted(e) \/ UserCancelled(e)
  BY <1>6, EventActionsKeep
<1>7. CASE (\E e \in Spontaneous : ReportSpontaneous(e)) \/ \E d \in Disturbers : ReportDisturber(d)
  BY <1>7, ReportActionsKeep
<1>8. CASE UNCHANGED vars
  BY <1>8, UnchangedKeeps DEF vars
<1> QED
  BY <1>1, <1>2, <1>3, <1>4, <1>5, <1>6, <1>7, <1>8 DEF Next

-----------------------------------------------------------------------------
(***************************************************************************)
(* The theorems.                                                           *)
(***************************************************************************)

(* However many writes have failed and however often the process has ended, what
   is stored, what Runtime State holds and what is left to write fit together. *)
THEOREM Inductive == Spec => []IInv
<1>1. Init => IInv
  BY InitEstablishes
<1>2. IInv /\ [Next]_vars => IInv'
  BY StepKeeps
<1> QED
  BY <1>1, <1>2, PTL DEF Spec

(* At whatever write the process ends, InvariantChecker.enforce accepts the store
   at the next boot, unless an error has left Runtime State ahead of it. *)
THEOREM Boots == Spec => []BootsUnlessAhead
<1>1. IInv => BootsUnlessAhead
  <2> SUFFICES ASSUME IInv, ~ahead PROVE Bootable(disk)
    BY DEF BootsUnlessAhead
  <2>1. Together
    BY DEF IInv
  <2>2. Exclusive(disk)
    BY <2>1 DEF Together, Exclusive
  <2> QED
    BY <2>2, BootableIs
<1> QED
  BY <1>1, Inductive, PTL

(* Every operation of the Scheduler and the Kernel, and every cycle, stores all
   that it has changed before it is done. *)
THEOREM AllIsStored == Spec => []NothingIsPending
<1>1. IInv => NothingIsPending
  <2> SUFFICES ASSUME IInv, Free, ~ahead PROVE Stored(mem) = disk
    BY DEF NothingIsPending
  <2>1. todo = <<>> /\ DOMAIN todo = {} /\ ~Raising(todo)
    BY NothingLeft DEF Free, Raising
  <2>2. \A f \in Files : \A x \in Names(f) : mem[f][x] = disk[f][x]
    BY <2>1 DEF IInv, NothingForgotten
  <2>3. mem \in States /\ disk \in Stores
    BY DEF IInv, Typed
  <2>4. mem.event = disk.event
    BY <2>2, <2>3 DEF States, Stores, Files, Names
  <2>5. mem.window = disk.window
    BY <2>2, <2>3 DEF States, Stores, Files, Names
  <2>6. mem.rec = disk.rec
    BY <2>2, <2>3 DEF States, Stores, Files, Names
  <2>7. mem.disturber = disk.disturber
    BY <2>2, <2>3 DEF States, Stores, Files, Names
  <2> QED
    BY <2>3, <2>4, <2>5, <2>6, <2>7 DEF Stored, Stores
<1> QED
  BY <1>1, Inductive, PTL

(* No crash and no failed write loses what the user accepted: a Recommendation
   is stored as Consumed only after an Event of it and its window. *)
THEOREM NothingAcceptedIsLost == Spec => []ConsumedBecameEvent
<1>1. IInv => ConsumedBecameEvent
  BY DEF IInv, CopiesKept
<1> QED
  BY <1>1, Inductive, PTL

(* The same Recommendation becomes two Events only if its consumption was cut
   short, between the storing of its Event and that of Consumed. *)
THEOREM OnceUnlessCut == Spec => []DoubledOnlyIfCut
<1>1. IInv => DoubledOnlyIfCut
  <2> SUFFICES ASSUME IInv, NEW r \in Recommendations \ cut
               PROVE  Cardinality({k \in 1 .. MaxCopies : disk.event[<<r, k>>] # Absent}) <= 1
    BY DEF DoubledOnlyIfCut
  <2> DEFINE copies == {k \in 1 .. MaxCopies : disk.event[<<r, k>>] # Absent}
  <2>1. \A k, l \in copies : k = l
    BY DEF IInv, SingleCopy, StoredCopy
  <2>2. IsFiniteSet(copies)
    <3>1. IsFiniteSet(1 .. MaxCopies) /\ copies \in SUBSET (1 .. MaxCopies)
      BY FinitelyMany, FS_Interval
    <3> QED
      BY <3>1, FS_Subset
  <2> HIDE DEF copies
  <2>3. Cardinality(copies) <= 1
    BY <2>1, <2>2, AtMostOne
  <2> QED
    BY <2>3 DEF copies
<1> QED
  BY <1>1, Inductive, PTL

-----------------------------------------------------------------------------
(***************************************************************************)
(* The order in which the store changes.  Runtime State goes on and never  *)
(* back; a write takes the store to where Runtime State is.  An Event whose*)
(* status has changed is stored in that step, or else once, by a write that*)
(* is yet to be made: so the store passes from status to status as the     *)
(* operation meant it, whatever is cut off.                                *)
(***************************************************************************)

Suspended == {"Paused", "Interrupted"}

Final == {"Completed", "Skipped", "Cancelled", "Overtaken", "Archived",
          "Expired", "Rejected", "Consumed", "Resolved"}

(* How far an Event, a window, a Recommendation or a Disturber has come. *)
Phase(v) ==
    IF v = Absent THEN 0
    ELSE IF v \in {"Recommended", "Scheduled", "Created", "Generated", "Pending",
                   "Detected", "Recorded"} THEN 1
    ELSE IF v \in {"Ready", "Active", "Accepted", "Analyzed", "Applied"} THEN 2
    ELSE IF v \in {"Started", "Resumed", "Paused", "Interrupted", "Changing"} THEN 3
    ELSE 4

NotBack(a, b) == Phase(a) <= Phase(b) /\ (a \in Final => b = a)

(* A step from n: nothing goes back, and only what runs is suspended. *)
Onward(n, w) ==
    /\ \A f \in Files : \A x \in Names(f) : NotBack(n[f][x], w.mem[f][x])
    /\ \A e \in Events : w.mem.event[e] \in Suspended =>
          w.mem.event[e] = n.event[e] \/ n.event[e] \in RunningStates

Along(m, ws) == \A i \in DOMAIN ws : Onward(Before(m, ws, i), ws[i])

(* An Event changes only in the step that stores it. *)
Telling(m, ws) ==
    \A i \in DOMAIN ws : \A e \in Events :
        ws[i].mem.event[e] # Before(m, ws, i).event[e] => StoresAt(ws[i], "event", e)

Steady(m, ws) == Along(m, ws) /\ Telling(m, ws)

(* An Event is stored once, and is then where one step takes it. *)
Once(d, ws) ==
    \A i \in DOMAIN ws : \A e \in Events : StoresAt(ws[i], "event", e) =>
        /\ NotBack(d.event[e], Value(ws[i]))
        /\ Value(ws[i]) \in Suspended =>
              Value(ws[i]) = d.event[e] \/ d.event[e] \in RunningStates
        /\ \A j \in DOMAIN ws : StoresAt(ws[j], "event", e) => j = i

LEMMA PhaseType == \A v : Phase(v) \in Nat
BY DEF Phase

LEMMA NotBackIsOrder ==
    /\ \A a : NotBack(a, a)
    /\ \A a, b, c : NotBack(a, b) /\ NotBack(b, c) => NotBack(a, c)
<1>1. \A a : NotBack(a, a)
  BY PhaseType DEF NotBack
<1>2. ASSUME NEW a, NEW b, NEW c, NotBack(a, b), NotBack(b, c) PROVE NotBack(a, c)
  <2>1. Phase(a) \in Nat /\ Phase(b) \in Nat /\ Phase(c) \in Nat
    BY PhaseType
  <2>2. Phase(a) <= Phase(c)
    BY <1>2, <2>1 DEF NotBack
  <2> QED
    BY <1>2, <2>2 DEF NotBack
<1> QED
  BY <1>1, <1>2

(* The changes of status that the operations make. *)
LEMMA EventsGoOn ==
    /\ \A b : NotBack(Absent, b)
    /\ \A a, b : <<a, b>> \in EventEdges /\ b \in {"Ready", "Skipped", "Overtaken", "Cancelled"}
                  => NotBack(a, b)
    /\ \A a \in {"Scheduled", "Ready"} : NotBack(a, "Started")
    /\ \A a \in RunningStates : \A b \in {"Paused", "Interrupted", "Completed"} : NotBack(a, b)
    /\ \A a \in Suspended : NotBack(a, "Resumed")
<1>1. \A b : NotBack(Absent, b)
  BY PhaseType DEF NotBack, Final, Absent, Phase
<1>2. ASSUME NEW a, NEW b, <<a, b>> \in EventEdges,
             b \in {"Ready", "Skipped", "Overtaken", "Cancelled"}
      PROVE  NotBack(a, b)
  <2>1. a \in {"Scheduled", "Ready", "Paused", "Interrupted"}
    BY <1>2 DEF EventEdges
  <2> QED
    BY <1>2, <2>1 DEF NotBack, Final, Phase, Absent, EventEdges
<1>3. \A a \in {"Scheduled", "Ready"} : NotBack(a, "Started")
  BY DEF NotBack, Final, Phase, Absent
<1>4. \A a \in RunningStates : \A b \in {"Paused", "Interrupted", "Completed"} : NotBack(a, b)
  BY DEF NotBack, Final, Phase, Absent, RunningStates
<1>5. \A a \in Suspended : NotBack(a, "Resumed")
  BY DEF NotBack, Final, Phase, Absent, Suspended
<1> QED
  BY <1>1, <1>2, <1>3, <1>4, <1>5, Zenon

LEMMA OthersGoOn ==
    /\ NotBack("Created", "Active") /\ NotBack("Active", "Expired")
    /\ \A b \in {"Accepted", "Rejected", "Expired"} : NotBack("Pending", b)
    /\ NotBack("Accepted", "Consumed") /\ NotBack("Applied", "Resolved")
BY DEF NotBack, Final, Phase, Absent

-----------------------------------------------------------------------------
(* Of nothing, of one step, and of one operation after another. *)
LEMMA NothingIsSteady == \A m : Steady(m, <<>>) /\ Once(m, <<>>)
BY NothingLeft DEF Steady, Along, Telling, Once

LEMMA StepIsSteady ==
    ASSUME NEW m, NEW w,
           \A f \in Files : \A x \in Names(f) :
               w.mem[f][x] = m[f][x] \/ NotBack(m[f][x], w.mem[f][x]),
           \A e \in Events :
               \/ w.mem.event[e] = m.event[e]
               \/ /\ StoresAt(w, "event", e)
                  /\ w.mem.event[e] \in Suspended => m.event[e] \in RunningStates
    PROVE  Steady(m, <<w>>)
<1>1. DOMAIN <<w>> = {1} /\ <<w>>[1] = w /\ Before(m, <<w>>, 1) = m
  BY DEF Before
<1>2. Onward(m, w)
  BY NotBackIsOrder DEF Onward
<1>3. Along(m, <<w>>)
  BY <1>1, <1>2 DEF Along
<1>4. Telling(m, <<w>>)
  BY <1>1 DEF Telling
<1> QED
  BY <1>3, <1>4 DEF Steady

LEMMA OnwardConcat ==
    ASSUME NEW m, NEW s \in Seq(WriteSet), NEW t \in Seq(WriteSet)
    PROVE  /\ Along(m, s) /\ Along(After(m, s), t) => Along(m, s \o t)
           /\ Telling(m, s) /\ Telling(After(m, s), t) => Telling(m, s \o t)
           /\ Steady(m, s) /\ Steady(After(m, s), t) => Steady(m, s \o t)
<1> DEFINE u == s \o t
<1>1. /\ \A i \in DOMAIN s : Before(m, u, i) = Before(m, s, i)
      /\ \A j \in DOMAIN t : Before(m, u, Len(s) + j) = Before(After(m, s), t, j)
  BY AfterConcat
<1>2. ASSUME NEW i \in DOMAIN u
      PROVE  \/ i \in DOMAIN s /\ u[i] = s[i]
             \/ \E j \in DOMAIN t : i = Len(s) + j /\ u[i] = t[j]
  BY ConcatCases
<1> HIDE DEF u
<1>3. Along(m, s) /\ Along(After(m, s), t) => Along(m, u)
  BY <1>1, <1>2 DEF Along
<1>4. Telling(m, s) /\ Telling(After(m, s), t) => Telling(m, u)
  <2> SUFFICES ASSUME Telling(m, s), Telling(After(m, s), t), NEW i \in DOMAIN u,
                      NEW e \in Events, u[i].mem.event[e] # Before(m, u, i).event[e]
               PROVE  StoresAt(u[i], "event", e)
    BY DEF Telling
  <2>1. CASE i \in DOMAIN s /\ u[i] = s[i]
    BY <1>1, <2>1 DEF Telling
  <2>2. CASE \E j \in DOMAIN t : i = Len(s) + j /\ u[i] = t[j]
    BY <1>1, <2>2 DEF Telling
  <2> QED
    BY <1>2, <2>1, <2>2
<1> QED
  BY <1>3, <1>4 DEF Steady, u

LEMMA OnceConcat ==
    ASSUME NEW d, NEW s \in Seq(WriteSet), NEW t \in Seq(WriteSet), Once(d, s), Once(d, t),
           \A i \in DOMAIN s, j \in DOMAIN t, e \in Events :
               ~(StoresAt(s[i], "event", e) /\ StoresAt(t[j], "event", e))
    PROVE  Once(d, s \o t)
<1> DEFINE u == s \o t
<1>1. ASSUME NEW i \in DOMAIN u
      PROVE  \/ i \in DOMAIN s /\ u[i] = s[i]
             \/ \E j \in DOMAIN t : i = Len(s) + j /\ u[i] = t[j]
  BY ConcatCases
<1> HIDE DEF u
<1> SUFFICES ASSUME NEW i \in DOMAIN u, NEW e \in Events, StoresAt(u[i], "event", e)
             PROVE  /\ NotBack(d.event[e], Value(u[i]))
                    /\ Value(u[i]) \in Suspended =>
                          Value(u[i]) = d.event[e] \/ d.event[e] \in RunningStates
                    /\ \A j \in DOMAIN u : StoresAt(u[j], "event", e) => j = i
  BY DEF Once, u
<1>2. CASE i \in DOMAIN s /\ u[i] = s[i]
  <2>1. \A j \in DOMAIN u : StoresAt(u[j], "event", e) => j \in DOMAIN s /\ u[j] = s[j]
    BY <1>1, <1>2
  <2> QED
    BY <1>2, <2>1 DEF Once
<1>3. ASSUME NEW k \in DOMAIN t, i = Len(s) + k, u[i] = t[k]
      PROVE  /\ NotBack(d.event[e], Value(u[i]))
             /\ Value(u[i]) \in Suspended =>
                   Value(u[i]) = d.event[e] \/ d.event[e] \in RunningStates
             /\ \A j \in DOMAIN u : StoresAt(u[j], "event", e) => j = i
  <2>1. \A j \in DOMAIN u : StoresAt(u[j], "event", e) =>
            \E l \in DOMAIN t : j = Len(s) + l /\ u[j] = t[l]
    BY <1>1, <1>3
  <2> QED
    BY <1>3, <2>1 DEF Once
<1> QED
  BY <1>1, <1>2, <1>3

(* An operation that begins a little elsewhere. *)
LEMMA SteadyElsewhere ==
    ASSUME NEW m, NEW n, NEW ws, Steady(m, ws), n.event = m.event,
           \A f \in Files : \A x \in Names(f) : NotBack(n[f][x], m[f][x])
    PROVE  Steady(n, ws)
<1>1. \A i \in DOMAIN ws : i # 1 => Before(n, ws, i) = Before(m, ws, i)
  BY DEF Before
<1>2. Before(n, ws, 1) = n /\ Before(m, ws, 1) = m
  BY DEF Before
<1>3. ASSUME NEW i \in DOMAIN ws PROVE Onward(Before(n, ws, i), ws[i])
  <2>1. Onward(Before(m, ws, i), ws[i])
    BY DEF Steady, Along
  <2>2. CASE i = 1
    BY <1>2, <2>1, <2>2, NotBackIsOrder DEF Onward
  <2> QED
    BY <1>1, <2>1, <2>2
<1>4. Telling(n, ws)
  BY <1>1, <1>2 DEF Steady, Telling
<1> QED
  BY <1>3, <1>4 DEF Steady, Along

(* The status of an Event has changed before the first write. *)
LEMMA AlongElsewhere ==
    ASSUME NEW m, NEW n, NEW ws, Along(m, ws), ws # <<>>, ws[1].mem.event = m.event,
           \A f \in Files : \A x \in Names(f) : NotBack(n[f][x], m[f][x]),
           \A e \in Events : n.event[e] = m.event[e] \/ m.event[e] \notin Suspended
    PROVE  Along(n, ws)
<1>1. \A i \in DOMAIN ws : i # 1 => Before(n, ws, i) = Before(m, ws, i)
  BY DEF Before
<1>2. Before(n, ws, 1) = n /\ Before(m, ws, 1) = m
  BY DEF Before
<1>3. ASSUME NEW i \in DOMAIN ws PROVE Onward(Before(n, ws, i), ws[i])
  <2>1. Onward(Before(m, ws, i), ws[i])
    BY DEF Along
  <2>2. CASE i = 1
    BY <1>2, <2>1, <2>2, NotBackIsOrder DEF Onward
  <2> QED
    BY <1>1, <2>1, <2>2
<1> QED
  BY <1>3 DEF Along

(* Of the writes that are left. *)
LEMMA TailIsOnward ==
    ASSUME NEW m, NEW ws \in Seq(WriteSet), ws # <<>>
    PROVE  /\ Onward(m, Head(ws)) \/ ~Along(m, ws)
           /\ Along(m, ws) => Along(Head(ws).mem, Tail(ws))
           /\ Telling(m, ws) =>
                 /\ Telling(Head(ws).mem, Tail(ws))
                 /\ \A e \in Events : Head(ws).mem.event[e] # m.event[e] =>
                       StoresAt(Head(ws), "event", e)
<1>1. \A i \in DOMAIN Tail(ws) :
          /\ i + 1 \in DOMAIN ws /\ Tail(ws)[i] = ws[i + 1]
          /\ Before(Head(ws).mem, Tail(ws), i) = Before(m, ws, i + 1)
  BY Shifted
<1>2. 1 \in DOMAIN ws /\ Head(ws) = ws[1] /\ Before(m, ws, 1) = m
  BY TailFacts DEF Before
<1>3. Along(m, ws) => Onward(m, Head(ws)) /\ Along(Head(ws).mem, Tail(ws))
  BY <1>1, <1>2 DEF Along
<1>4. Telling(m, ws) =>
          /\ Telling(Head(ws).mem, Tail(ws))
          /\ \A e \in Events : Head(ws).mem.event[e] # m.event[e] =>
                StoresAt(Head(ws), "event", e)
  BY <1>1, <1>2 DEF Telling
<1> QED
  BY <1>3, <1>4

-----------------------------------------------------------------------------
(***************************************************************************)
(* The invariant, and what a write, a failure and a boot make of it.       *)
(***************************************************************************)

(* The store is never past Runtime State. *)
Behind == \A f \in Files : \A x \in Names(f) : NotBack(disk[f][x], mem[f][x])

(* What an Event is in Runtime State the store says too, or will say by one write. *)
EventsTold ==
    \/ (\A e \in Events : mem.event[e] = disk.event[e]) /\ Telling(mem, todo)
    \/ Once(disk, todo)

OInv == Behind /\ Along(mem, todo) /\ (~ahead => EventsTold)

(* What every operation is, when it begins. *)
Orderly(m, ws) == Along(m, ws) /\ (Telling(m, ws) \/ Once(m, ws))

(* From one state of the store to the next: *)
Forward == \A f \in Files : \A x \in Names(f) : NotBack(disk[f][x], disk'[f][x])

SuspendsRunning ==
    \A e \in Events : disk'.event[e] \in Suspended =>
        disk'.event[e] = disk.event[e] \/ disk.event[e] \in RunningStates

OneAtMost ==
    \A d, e \in Events : disk'.event[d] # disk.event[d] /\ disk'.event[e] # disk.event[e] => d = e

LEMMA WriteStores ==
    ASSUME IInv, Writes
    PROVE  /\ todo \in Seq(WriteSet) /\ todo # <<>>
           /\ mem' = Head(todo).mem /\ todo' = Tail(todo) /\ UNCHANGED ahead
           /\ \A f \in Files : \A x \in Names(f) :
                 disk'[f][x] = IF StoresAt(Head(todo), f, x) THEN Head(todo).mem[f][x]
                               ELSE disk[f][x]
<1> DEFINE w == Head(todo)
<1>0. disk \in Stores /\ todo \in Seq(WriteSet) /\ todo # <<>> /\ AllSteps(mem, todo)
  BY DEF IInv, Typed, Writes
<1>1. /\ mem' = w.mem /\ todo' = Tail(todo) /\ Storable(w) /\ UNCHANGED ahead
      /\ disk' = IF w.file = "none" THEN disk
                 ELSE [disk EXCEPT ![w.file][w.of] = w.mem[w.file][w.of]]
  BY DEF Writes
<1>2. w \in WriteSet /\ StepOK(mem, w)
  <2>1. w = todo[1] /\ 1 \in DOMAIN todo
    BY <1>0, TailFacts
  <2>2. StepOK(Before(mem, todo, 1), todo[1]) /\ todo[1] \in WriteSet
    BY <1>0, <2>1, SeqFacts DEF AllSteps
  <2> QED
    BY <2>1, <2>2 DEF Before
<1> HIDE DEF w
<1>3. \A f \in Files : \A x \in Names(f) :
          disk'[f][x] = IF StoresAt(w, f, x) THEN w.mem[f][x] ELSE disk[f][x]
  <2>1. CASE w.file = "none"
    BY <1>1, <2>1 DEF StoresAt, Files
  <2>2. CASE w.file # "none"
    <3>1. w.file \in Files /\ w.of \in Names(w.file)
      BY <1>1, <1>2, <2>2 DEF Storable, StepOK
    <3>2. disk' = Patch(disk, w)
      BY <1>1, <2>2 DEF Patch
    <3> QED
      BY <1>0, <1>2, <3>1, <3>2, Patched
  <2> QED
    BY <2>1, <2>2
<1> QED
  BY <1>0, <1>1, <1>3 DEF w

LEMMA WritesGoOn ==
    ASSUME IInv, OInv, Writes
    PROVE  OInv' /\ Forward /\ OneAtMost /\ (~ahead => SuspendsRunning)
<1> DEFINE w == Head(todo)
<1>1. /\ todo \in Seq(WriteSet) /\ todo # <<>>
      /\ mem' = w.mem /\ todo' = Tail(todo) /\ ahead' = ahead
      /\ \A f \in Files : \A x \in Names(f) :
            disk'[f][x] = IF StoresAt(w, f, x) THEN w.mem[f][x] ELSE disk[f][x]
  BY WriteStores
<1>2. /\ Onward(mem, w) /\ Along(w.mem, Tail(todo))
      /\ Telling(mem, todo) =>
            /\ Telling(w.mem, Tail(todo))
            /\ \A e \in Events : w.mem.event[e] # mem.event[e] => StoresAt(w, "event", e)
  BY <1>1, TailIsOnward DEF OInv
<1>3. /\ w = todo[1] /\ 1 \in DOMAIN todo /\ DOMAIN todo' \in SUBSET Nat
      /\ \A i \in DOMAIN todo' : i + 1 \in DOMAIN todo /\ todo'[i] = todo[i + 1]
  BY <1>1, TailFacts
<1> HIDE DEF w
<1>4. \A f \in Files : \A x \in Names(f) :
          NotBack(disk[f][x], mem[f][x]) /\ NotBack(mem[f][x], w.mem[f][x])
  BY <1>2 DEF OInv, Behind, Onward
<1>5. \A f \in Files : \A x \in Names(f) : NotBack(disk[f][x], w.mem[f][x])
  BY <1>4, NotBackIsOrder
<1>6. Forward /\ Behind'
  BY <1>1, <1>5, NotBackIsOrder DEF Forward, Behind
<1>7. Along(mem, todo)'
  BY <1>1, <1>2 DEF Along, Onward, Before
<1>8. \A e \in Events :
          disk'.event[e] = IF StoresAt(w, "event", e) THEN w.mem.event[e] ELSE disk.event[e]
  BY <1>1 DEF Files, Names
<1>9. OneAtMost
  BY <1>8 DEF OneAtMost, StoresAt
<1>10. ASSUME ~ahead PROVE EventsTold' /\ SuspendsRunning
  <2>1. CASE (\A e \in Events : mem.event[e] = disk.event[e]) /\ Telling(mem, todo)
    <3>1. \A e \in Events : mem'.event[e] = disk'.event[e]
      BY <1>1, <1>2, <1>8, <2>1
    <3>2. Telling(mem, todo)'
      BY <1>1, <1>2, <2>1 DEF Telling, Before, StoresAt
    <3>3. SuspendsRunning
      BY <1>2, <1>8, <2>1 DEF SuspendsRunning, Onward
    <3> QED
      BY <3>1, <3>2, <3>3 DEF EventsTold
  <2>2. CASE Once(disk, todo)
    <3>1. \A e \in Events : StoresAt(w, "event", e) =>
              /\ w.mem.event[e] \in Suspended =>
                    w.mem.event[e] = disk.event[e] \/ disk.event[e] \in RunningStates
              /\ \A j \in DOMAIN todo : StoresAt(todo[j], "event", e) => j = 1
      BY <1>3, <2>2 DEF Once, StoresAt, Value
    <3>2. SuspendsRunning
      BY <1>8, <3>1 DEF SuspendsRunning
    <3>3. ASSUME NEW i \in DOMAIN todo', NEW e \in Events, StoresAt(todo'[i], "event", e)
          PROVE  /\ NotBack(disk'.event[e], Value(todo'[i]))
                 /\ Value(todo'[i]) \in Suspended =>
                       \/ Value(todo'[i]) = disk'.event[e]
                       \/ disk'.event[e] \in RunningStates
                 /\ \A j \in DOMAIN todo' : StoresAt(todo'[j], "event", e) => j = i
      <4>1. i \in Nat /\ i + 1 \in DOMAIN todo /\ todo'[i] = todo[i + 1] /\ i + 1 # 1
            /\ i # 0
        BY <1>1, <1>3, TailFacts
      <4>2. /\ NotBack(disk.event[e], Value(todo[i + 1]))
            /\ Value(todo[i + 1]) \in Suspended =>
                  \/ Value(todo[i + 1]) = disk.event[e]
                  \/ disk.event[e] \in RunningStates
            /\ \A j \in DOMAIN todo : StoresAt(todo[j], "event", e) => j = i + 1
        BY <2>2, <3>3, <4>1 DEF Once
      <4>3. disk'.event[e] = disk.event[e]
        BY <1>3, <1>8, <4>1, <4>2
      <4>4. \A j \in DOMAIN todo' : StoresAt(todo'[j], "event", e) => j + 1 = i + 1
        BY <1>3, <4>2
      <4>5. \A j \in DOMAIN todo' : StoresAt(todo'[j], "event", e) => j = i
        BY <1>3, <4>1, <4>4
      <4> QED
        BY <4>1, <4>2, <4>3, <4>5
    <3>4. Once(disk, todo)'
      BY <3>3 DEF Once, StoresAt, Value
    <3> QED
      BY <3>2, <3>4 DEF EventsTold
  <2> QED
    BY <1>10, <2>1, <2>2 DEF OInv, EventsTold
<1> QED
  BY <1>1, <1>6, <1>7, <1>9, <1>10 DEF OInv

(* Nothing is underway, and the Events are told. *)
LEMMA ClearIsOrdered ==
    ASSUME todo' = <<>>, Behind',
           ~ahead' => \A e \in Events : mem'.event[e] = disk'.event[e]
    PROVE  OInv'
<1>1. Along(mem', <<>>) /\ Telling(mem', <<>>)
  BY NothingIsSteady DEF Steady
<1>2. Along(mem, todo)' /\ Telling(mem, todo)'
  BY <1>1 DEF Along, Telling, Onward, Before, StoresAt
<1> QED
  BY <1>2 DEF OInv, EventsTold

LEMMA EndsInOrder == ASSUME IInv, OInv, Fails \/ Restarts PROVE OInv'
<1>0. todo \in Seq(WriteSet)
  BY DEF IInv, Typed
<1>1. CASE Fails
  <2>1. /\ todo # <<>> /\ mem' = Head(todo).mem /\ todo' = <<>> /\ disk' = disk
        /\ ahead' = (ahead \/ Stored(mem') # disk)
    BY <1>1 DEF Fails
  <2>2. Onward(mem, Head(todo))
    BY <1>0, <2>1, TailIsOnward DEF OInv
  <2>3. \A f \in Files : \A x \in Names(f) :
            NotBack(disk[f][x], mem[f][x]) /\ NotBack(mem[f][x], mem'[f][x])
    BY <2>1, <2>2 DEF OInv, Behind, Onward
  <2>4. Behind'
    BY <2>1, <2>3, NotBackIsOrder DEF Behind
  <2>5. ASSUME ~ahead' PROVE mem'.event = disk'.event
    <3>1. Stored(mem') = disk
      BY <2>1, <2>5
    <3>2. Stored(mem').event = mem'.event
      BY DEF Stored
    <3> QED
      BY <2>1, <3>1, <3>2
  <2> QED
    BY <2>1, <2>4, <2>5, ClearIsOrdered
<1>2. CASE Restarts
  <2>1. todo' = <<>> /\ disk' = disk /\ mem' = Loaded(disk)
    BY <1>2 DEF Restarts
  <2>2. \A f \in Files : mem'[f] = disk'[f]
    BY <2>1 DEF Loaded, Files
  <2>3. Behind'
    BY <2>2, NotBackIsOrder DEF Behind
  <2>4. mem'.event = disk'.event
    BY <2>2 DEF Files
  <2> QED
    BY <2>1, <2>3, <2>4, ClearIsOrdered
<1> QED
  BY <1>1, <1>2

LEMMA BeginsInOrder ==
    ASSUME IInv, OInv, todo = <<>>, NEW ws, Orderly(mem, ws), todo' = ws,
           UNCHANGED <<mem, disk, ahead>>
    PROVE  OInv'
<1>1. DOMAIN todo = {} /\ ~Raising(todo)
  BY NothingLeft DEF Raising
<1>2. ~ahead => \A e \in Events : mem.event[e] = disk.event[e]
  BY <1>1 DEF IInv, NothingForgotten, Files, Names
<1>3. Behind'
  BY DEF OInv, Behind
<1>4. Along(mem, todo)'
  BY DEF Orderly, Along, Onward, Before
<1>5. ASSUME ~ahead PROVE EventsTold'
  <2>1. CASE Telling(mem, ws)
    BY <1>2, <1>5, <2>1 DEF EventsTold, Telling, Before, StoresAt
  <2>2. CASE Once(mem, ws)
    <3>1. Once(disk, ws)
      BY <1>2, <1>5, <2>2 DEF Once
    <3> QED
      BY <3>1 DEF EventsTold, Once, StoresAt, Value
  <2> QED
    BY <2>1, <2>2 DEF Orderly
<1> QED
  BY <1>3, <1>4, <1>5 DEF OInv

LEMMA StaysInOrder ==
    ASSUME OInv, UNCHANGED <<mem, disk, todo, ahead>>
    PROVE  OInv'
BY DEF OInv, Behind, EventsTold, Along, Onward, Telling, Once, Before, StoresAt, Value

LEMMA InitInOrder == Init => OInv
<1> SUFFICES ASSUME Init PROVE OInv
    OBVIOUS
<1>1. todo = <<>> /\ mem = Loaded(disk)
  BY DEF Init
<1>2. \A f \in Files : mem[f] = disk[f]
  BY <1>1 DEF Loaded, Files
<1>3. Behind
  BY <1>2, NotBackIsOrder DEF Behind
<1>4. mem.event = disk.event
  BY <1>2 DEF Files
<1> QED
  BY <1>1, <1>3, <1>4, NothingIsSteady DEF OInv, EventsTold, Steady

-----------------------------------------------------------------------------
(***************************************************************************)
(* The operations, one by one.                                             *)
(***************************************************************************)

LEMMA SteadyIsOrderly == ASSUME NEW m, NEW ws, Steady(m, ws) PROVE Orderly(m, ws)
BY DEF Steady, Orderly

(* A step that changes the status of one Event and stores it. *)
LEMMA StatusIsSteady ==
    ASSUME NEW m \in States, NEW n \in States, NEW e \in Events,
           n.window = m.window, n.rec = m.rec, n.disturber = m.disturber,
           \A d \in Events : d # e => n.event[d] = m.event[d],
           NotBack(m.event[e], n.event[e]),
           n.event[e] \in Suspended => m.event[e] \in RunningStates \/ n.event[e] = m.event[e]
    PROVE  Steady(m, <<Update(n, "event", e)>>)
<1> DEFINE w == Update(n, "event", e)
<1>1. w.mem = n /\ StoresAt(w, "event", e)
  BY DEF Update, StoresAt
<1> HIDE DEF w
<1>2. \A f \in Files : \A x \in Names(f) :
          w.mem[f][x] = m[f][x] \/ NotBack(m[f][x], w.mem[f][x])
  BY <1>1 DEF Files, Names
<1>3. \A d \in Events :
          \/ w.mem.event[d] = m.event[d]
          \/ /\ StoresAt(w, "event", d)
             /\ w.mem.event[d] \in Suspended => m.event[d] \in RunningStates
  BY <1>1
<1> QED
  BY <1>2, <1>3, StepIsSteady DEF w

(* A step that changes no status of an Event. *)
LEMMA OtherIsSteady ==
    ASSUME NEW m, NEW w, w.mem.event = m.event,
           \A f \in Files : \A x \in Names(f) :
               w.mem[f][x] = m[f][x] \/ NotBack(m[f][x], w.mem[f][x])
    PROVE  Steady(m, <<w>>)
BY StepIsSteady

LEMMA PausingIsSteady ==
    ASSUME NEW m \in States, Exclusive(m)
    PROVE  /\ Steady(m, PauseRunning(m)) /\ Once(m, PauseRunning(m))
           /\ \A i \in DOMAIN PauseRunning(m), e \in Events :
                 StoresAt(PauseRunning(m)[i], "event", e) => m.event[e] \in RunningStates
<1>1. CASE RunningIn(m) = {}
  <2>1. PauseRunning(m) = <<>>
    BY <1>1 DEF PauseRunning
  <2> QED
    BY <2>1, NothingIsSteady
<1>2. CASE RunningIn(m) # {}
  <2> DEFINE e == CHOOSE e \in RunningIn(m) : TRUE
             n == [m EXCEPT !.event[e] = "Paused", !.context = Idle]
             w == Update(n, "event", e)
  <2>1. e \in RunningIn(m) /\ PauseRunning(m) = <<w>>
    BY <1>2 DEF PauseRunning
  <2> HIDE DEF e
  <2>2. e \in Events /\ m.event[e] \in RunningStates
    BY <2>1 DEF RunningIn
  <2>3. /\ n \in States
        /\ n.window = m.window /\ n.rec = m.rec /\ n.disturber = m.disturber
        /\ n.event = [m.event EXCEPT ![e] = "Paused"]
    BY <2>2 DEF States, EventStatus
  <2>4. w.mem = n /\ w.file = "event" /\ w.of = e
    BY DEF Update
  <2> HIDE DEF n, w
  <2>5. \A d \in Events : n.event[d] = IF d = e THEN "Paused" ELSE m.event[d]
    BY <2>2, <2>3 DEF States
  <2>6. NotBack(m.event[e], "Paused")
    BY <2>2, EventsGoOn
  <2>7. Steady(m, <<Update(n, "event", e)>>)
    BY <2>2, <2>3, <2>5, <2>6, StatusIsSteady
  <2>8. DOMAIN <<w>> = {1} /\ <<w>>[1] = w
    OBVIOUS
  <2>9. Value(w) = "Paused"
    BY <2>2, <2>4, <2>5 DEF Value
  <2>10. Once(m, <<w>>)
    BY <2>2, <2>4, <2>6, <2>8, <2>9 DEF Once, StoresAt
  <2> QED
    BY <2>1, <2>2, <2>4, <2>7, <2>8, <2>10 DEF StoresAt, w
<1> QED
  BY <1>1, <1>2

LEMMA ExpireIsSteady ==
    ASSUME NEW m \in States, NEW e \in OpenIn(m)
    PROVE  /\ Steady(m, Expire(m, e))
           /\ \A i \in DOMAIN Expire(m, e) :
                 Expire(m, e)[i].file # "event" /\ Expire(m, e)[i].mem.event = m.event
<1> DEFINE n == [m EXCEPT !.window[e] = "Expired"]
           w == Update(n, "window", e)
<1>1. e \in Events /\ m.window[e] = "Active" /\ Expire(m, e) = <<w>>
  BY DEF OpenIn, Expire
<1>2. /\ n.window = [m.window EXCEPT ![e] = "Expired"]
      /\ n.event = m.event /\ n.rec = m.rec /\ n.disturber = m.disturber
  BY <1>1 DEF States
<1>3. w.mem = n /\ w.file = "window"
  BY DEF Update
<1> HIDE DEF n, w
<1>4. \A d \in Events : n.window[d] = m.window[d] \/ (m.window[d] = "Active" /\ n.window[d] = "Expired")
  BY <1>1, <1>2 DEF States
<1>5. \A f \in Files : \A x \in Names(f) :
          w.mem[f][x] = m[f][x] \/ NotBack(m[f][x], w.mem[f][x])
  BY <1>2, <1>3, <1>4, OthersGoOn DEF Files, Names
<1>6. Steady(m, <<w>>)
  BY <1>2, <1>3, <1>5, OtherIsSteady
<1>7. DOMAIN <<w>> = {1} /\ <<w>>[1] = w /\ <<w>> # <<>>
  OBVIOUS
<1> QED
  BY <1>1, <1>2, <1>3, <1>6, <1>7

LEMMA ActivateIsSteady ==
    ASSUME NEW m \in States, Exclusive(m), NEW e \in Events
    PROVE  /\ Steady(m, Activate(m, e))
           /\ \A i \in DOMAIN Activate(m, e) :
                 Activate(m, e)[i].file # "event" /\ Activate(m, e)[i].mem.event = m.event
<1> DEFINE others == OpenIn(m) \ {e}
           closing == IF others = {} \/ m.window[e] = Absent THEN <<>>
                      ELSE Expire(m, CHOOSE f \in others : TRUE)
           closed == After(m, closing)
           n == [closed EXCEPT !.window[e] = "Active"]
           last == IF m.window[e] = "Created" THEN Update(n, "window", e) ELSE Raises(closed)
<1>1. Activate(m, e) = closing \o <<last>>
  BY DEF Activate
<1>2. /\ closing \in Seq(WriteSet) /\ Steady(m, closing)
      /\ closed \in States /\ closed.event = m.event /\ closed.window[e] = m.window[e]
      /\ \A i \in DOMAIN closing : closing[i].file # "event" /\ closing[i].mem.event = m.event
  <2>1. CASE others = {} \/ m.window[e] = Absent
    <3>1. closing = <<>> /\ closed = m
      BY <2>1, NothingServes
    <3>2. closing \in Seq(WriteSet) /\ DOMAIN closing = {}
      BY <3>1, NothingLeft
    <3> QED
      BY <3>1, <3>2, NothingIsSteady
  <2>2. CASE ~(others = {} \/ m.window[e] = Absent)
    <3> DEFINE f == CHOOSE f \in others : TRUE
    <3>1. f \in others /\ closing = Expire(m, f)
      BY <2>2
    <3> HIDE DEF f, closing
    <3>2. f \in Events /\ f # e /\ f \in OpenIn(m)
      BY <3>1 DEF OpenIn
    <3>3. /\ Serves(m, closing) /\ closed \in States
          /\ closed.event = m.event /\ closed.window = [m.window EXCEPT ![f] = "Expired"]
      BY <3>1, <3>2, ExpireServes
    <3>4. closing \in Seq(WriteSet)
      BY <3>3 DEF Serves, AllSteps
    <3>5. /\ Steady(m, closing)
          /\ \A i \in DOMAIN closing :
                closing[i].file # "event" /\ closing[i].mem.event = m.event
      BY <3>1, <3>2, ExpireIsSteady
    <3> HIDE DEF closed
    <3>6. closed.window[e] = m.window[e]
      BY <3>2, <3>3 DEF States
    <3> QED
      BY <3>3, <3>4, <3>5, <3>6
  <2> QED
    BY <2>1, <2>2
<1> HIDE DEF closing, closed
<1>3. /\ Steady(closed, <<last>>) /\ <<last>> \in Seq(WriteSet)
      /\ last.file # "event" /\ last.mem.event = m.event
  <2>1. CASE m.window[e] = "Created"
    <3>1. last = Update(n, "window", e)
      BY <2>1
    <3>2. /\ n \in States /\ n.event = closed.event
          /\ n.rec = closed.rec /\ n.disturber = closed.disturber
          /\ \A d \in Events : n.window[d] = IF d = e THEN "Active" ELSE closed.window[d]
      BY <1>2 DEF States, WindowStatus
    <3> HIDE DEF n, last
    <3>3. last.mem = n /\ last.file = "window" /\ last \in WriteSet
      BY <3>1, <3>2 DEF Update, WriteSet, Files
    <3>4. \A f \in Files : \A x \in Names(f) :
              last.mem[f][x] = closed[f][x] \/ NotBack(closed[f][x], last.mem[f][x])
      BY <1>2, <2>1, <3>2, <3>3, OthersGoOn DEF Files, Names
    <3>5. Steady(closed, <<last>>)
      BY <3>2, <3>3, <3>4, OtherIsSteady
    <3> QED
      BY <1>2, <3>2, <3>3, <3>5
  <2>2. CASE m.window[e] # "Created"
    <3>1. last = Raises(closed)
      BY <2>2
    <3> HIDE DEF last
    <3>2. last.mem = closed /\ last.file = "error" /\ last \in WriteSet
      BY <1>2, <3>1 DEF Raises, WriteSet
    <3>3. Steady(closed, <<last>>)
      BY <3>2, OtherIsSteady
    <3> QED
      BY <1>2, <3>2, <3>3
  <2> QED
    BY <2>1, <2>2
<1> HIDE DEF last
<1>4. Steady(m, closing \o <<last>>)
  BY <1>2, <1>3, OnwardConcat DEF closed
<1>5. ASSUME NEW i \in DOMAIN (closing \o <<last>>)
      PROVE  LET v == (closing \o <<last>>)[i] IN v.file # "event" /\ v.mem.event = m.event
  <2>1. DOMAIN <<last>> = {1} /\ <<last>>[1] = last
    OBVIOUS
  <2> QED
    BY <1>2, <1>3, <2>1, ConcatCases
<1> QED
  BY <1>1, <1>4, <1>5

LEMMA BeginsIsSteady ==
    ASSUME NEW m \in States, Exclusive(m), NEW e \in Events
    PROVE  /\ Steady(m, Begins(m, e)) /\ Begins(m, e) \in Seq(WriteSet) /\ Begins(m, e) # <<>>
           /\ \A i \in DOMAIN Begins(m, e) : Begins(m, e)[i].mem.event = m.event
           /\ \A i \in DOMAIN Begins(m, e) : Begins(m, e)[i].file = "event" =>
                 /\ Begins(m, e)[i].of = e
                 /\ \A j \in DOMAIN Begins(m, e) : Begins(m, e)[j].file = "event" => j = i
<1> DEFINE opening == Activate(m, e)
           a == After(m, opening)
           n == [a EXCEPT !.context = e]
           w == Update(n, "event", e)
<1>1. Begins(m, e) = IF Raising(opening) THEN opening ELSE opening \o <<w>>
  BY DEF Begins, Then
<1>2. /\ opening \in Seq(WriteSet) /\ opening # <<>>
      /\ a \in States /\ a.event = m.event
  BY ActivateServes DEF Serves, AllSteps
<1>3. /\ Steady(m, opening)
      /\ \A i \in DOMAIN opening : opening[i].file # "event" /\ opening[i].mem.event = m.event
  BY ActivateIsSteady
<1> HIDE DEF opening, a
<1>4. CASE Raising(opening)
  BY <1>1, <1>2, <1>3, <1>4
<1>5. CASE ~Raising(opening)
  <2>1. n \in States /\ \A g \in Files : n[g] = a[g]
    BY <1>2 DEF States, Files
  <2>2. w.mem = n /\ w.file = "event" /\ w.of = e
    BY DEF Update
  <2>3. w \in WriteSet
    BY <2>1 DEF Update, WriteSet, Files
  <2> HIDE DEF n, w
  <2>4. n.event = m.event
    BY <1>2, <2>1 DEF Files
  <2>5. Steady(a, <<w>>)
    BY <1>2, <2>1, <2>2, <2>4, OtherIsSteady
  <2>6. <<w>> \in Seq(WriteSet) /\ DOMAIN <<w>> = {1} /\ <<w>>[1] = w /\ Len(<<w>>) = 1
    BY <2>3
  <2> DEFINE ws == opening \o <<w>>
  <2>7. Steady(m, ws)
    BY <1>2, <1>3, <2>5, <2>6, OnwardConcat DEF a
  <2>8. ws \in Seq(WriteSet) /\ ws # <<>>
    <3>1. ws \in Seq(WriteSet) /\ Len(ws) = Len(opening) + 1 /\ Len(opening) \in Nat
      BY <1>2, <2>6, ConcatFacts
    <3> HIDE DEF ws
    <3> QED
      BY <3>1, SeqFacts
  <2>9. \A i \in DOMAIN ws :
            \/ i \in DOMAIN opening /\ ws[i] = opening[i]
            \/ \E j \in DOMAIN <<w>> : i = Len(opening) + j /\ ws[i] = <<w>>[j]
    BY <1>2, <2>6, ConcatCases
  <2>10. Begins(m, e) = ws
    BY <1>1, <1>5
  <2> HIDE DEF ws
  <2>11. \A i \in DOMAIN ws :
            \/ ws[i].file # "event" /\ ws[i].mem.event = m.event
            \/ i = Len(opening) + 1 /\ ws[i] = w
    BY <1>3, <2>6, <2>9
  <2> QED
    BY <2>2, <2>4, <2>7, <2>8, <2>10, <2>11
<1> QED
  BY <1>4, <1>5

(* The status is new when the window is stored, and stored after it. *)
LEMMA StartsInOrder ==
    ASSUME NEW m \in States, Exclusive(m), NEW e \in Events,
           m.event[e] \in {"Scheduled", "Ready"}
    PROVE  Orderly(m, Starts(m, e))
<1> DEFINE pausing == PauseRunning(m)
           a == After(m, pausing)
           n == [a EXCEPT !.event[e] = "Started"]
           ws == Begins(n, e)
<1>1. Starts(m, e) = pausing \o ws
  BY DEF Starts
<1>2. /\ pausing \in Seq(WriteSet)
      /\ a \in States /\ RunningIn(a) = {} /\ Exclusive(a) /\ a.event[e] = m.event[e]
  BY PausingServes DEF Serves, AllSteps, RunningStates
<1>3. /\ Steady(m, pausing) /\ Once(m, pausing)
      /\ \A i \in DOMAIN pausing, d \in Events :
            StoresAt(pausing[i], "event", d) => m.event[d] \in RunningStates
  BY PausingIsSteady
<1> HIDE DEF pausing, a
<1>4. /\ n \in States
      /\ n.window = a.window /\ n.rec = a.rec /\ n.disturber = a.disturber
      /\ \A d \in Events : n.event[d] = IF d = e THEN "Started" ELSE a.event[d]
  BY <1>2 DEF States, EventStatus
<1> HIDE DEF n
<1>5. Exclusive(n)
  <2>1. \A d \in Events : n.event[d] \in RunningStates => d = e
    BY <1>2, <1>4 DEF RunningIn
  <2> QED
    BY <1>2, <1>4, <2>1 DEF Exclusive, Hot
<1>6. /\ Steady(n, ws) /\ ws \in Seq(WriteSet) /\ ws # <<>>
      /\ \A i \in DOMAIN ws : ws[i].mem.event = n.event
      /\ \A i \in DOMAIN ws : ws[i].file = "event" =>
            ws[i].of = e /\ \A j \in DOMAIN ws : ws[j].file = "event" => j = i
  BY <1>4, <1>5, BeginsIsSteady
<1> HIDE DEF ws
<1>7. NotBack(m.event[e], "Started")
  BY EventsGoOn
<1>8. Along(a, ws)
  <2>1. \A f \in Files : \A x \in Names(f) : NotBack(a[f][x], n[f][x])
    BY <1>2, <1>4, <1>7, NotBackIsOrder DEF Files, Names
  <2>2. \A d \in Events : a.event[d] = n.event[d] \/ n.event[d] \notin Suspended
    BY <1>4 DEF Suspended
  <2>3. ws[1].mem.event = n.event
    BY <1>6, TailFacts
  <2> QED
    BY <1>6, <2>1, <2>2, <2>3, AlongElsewhere DEF Steady
<1>9. Along(m, pausing \o ws)
  BY <1>2, <1>3, <1>6, <1>8, OnwardConcat DEF a, Steady
<1>10. Once(m, ws)
  <2>1. \A i \in DOMAIN ws, d \in Events : StoresAt(ws[i], "event", d) =>
            d = e /\ Value(ws[i]) = "Started"
    BY <1>4, <1>6 DEF StoresAt, Value
  <2> QED
    BY <1>6, <1>7, <2>1 DEF Once, StoresAt, Suspended
<1>11. \A i \in DOMAIN pausing, j \in DOMAIN ws, d \in Events :
           ~(StoresAt(pausing[i], "event", d) /\ StoresAt(ws[j], "event", d))
  BY <1>3, <1>6 DEF StoresAt, RunningStates
<1>12. Once(m, pausing \o ws)
  BY <1>2, <1>3, <1>6, <1>10, <1>11, OnceConcat
<1> QED
  BY <1>1, <1>9, <1>12 DEF Orderly

LEMMA AdmitsIsSteady ==
    ASSUME NEW m \in States, NEW e \in Events, NEW status \in EventStatus \ Suspended,
           m.event[e] = Absent, m.window[e] = Absent
    PROVE  LET n == [m EXCEPT !.event[e] = status, !.window[e] = "Created"] IN
           /\ Admits(m, e, status) = <<New(n, "event", e)>> \o <<New(n, "window", e)>>
           /\ Steady(m, Admits(m, e, status)) /\ Admits(m, e, status) \in Seq(WriteSet)
           /\ After(m, Admits(m, e, status)) = n
<1> DEFINE n == [m EXCEPT !.event[e] = status, !.window[e] = "Created"]
           v == New(n, "event", e)
           w == New(n, "window", e)
           ws == Admits(m, e, status)
<1>1. ws = <<v>> \o <<w>> /\ ws = <<v, w>>
  BY TwoWrites DEF Admits
<1>2. /\ n \in States /\ n.rec = m.rec /\ n.disturber = m.disturber
      /\ \A d \in Events : n.event[d] = IF d = e THEN status ELSE m.event[d]
      /\ \A d \in Events : n.window[d] = IF d = e THEN "Created" ELSE m.window[d]
  BY DEF States, WindowStatus
<1>3. /\ v.mem = n /\ StoresAt(v, "event", e) /\ v \in WriteSet
      /\ w.mem = n /\ w \in WriteSet
  BY <1>2 DEF New, StoresAt, WriteSet, Files
<1> HIDE DEF n, v, w, ws
<1>4. Steady(m, <<v>>)
  <2>1. \A f \in Files : \A x \in Names(f) :
            v.mem[f][x] = m[f][x] \/ NotBack(m[f][x], v.mem[f][x])
    BY <1>2, <1>3, EventsGoOn DEF Files, Names
  <2>2. \A d \in Events :
            \/ v.mem.event[d] = m.event[d]
            \/ /\ StoresAt(v, "event", d)
               /\ v.mem.event[d] \in Suspended => m.event[d] \in RunningStates
    BY <1>2, <1>3
  <2> QED
    BY <2>1, <2>2, StepIsSteady
<1>5. Steady(n, <<w>>)
  BY <1>3, OtherIsSteady
<1>6. <<v>> \in Seq(WriteSet) /\ <<w>> \in Seq(WriteSet) /\ After(m, <<v>>) = n
  BY <1>3 DEF After, Last
<1>7. Steady(m, ws) /\ ws \in Seq(WriteSet)
  BY <1>1, <1>4, <1>5, <1>6, OnwardConcat, ConcatFacts
<1>8. After(m, ws) = n
  BY <1>1, <1>3 DEF After, Last
<1> QED
  BY <1>1, <1>7, <1>8 DEF n, v, w, ws

LEMMA ReportsInOrder ==
    ASSUME NEW m \in States, Exclusive(m), Owned(m),
           NEW e \in Spontaneous, m.event[e] = Absent
    PROVE  Orderly(m, Reports(m, e))
<1> DEFINE pausing == PauseRunning(m)
           a == After(m, pausing)
           admitting == Admits(a, e, "Started")
           b == After(a, admitting)
           beginning == Begins(b, e)
<1>1. Reports(m, e) = pausing \o admitting \o beginning
  <2>1. admitting # <<>>
    BY DEF Admits
  <2>2. After(m, admitting) = b
    BY <2>1 DEF After
  <2> QED
    BY <2>2 DEF Reports
<1>2. e \in Events
  BY DEF Events
<1>3. /\ pausing \in Seq(WriteSet) /\ a \in States /\ RunningIn(a) = {}
      /\ Exclusive(a) /\ Owned(a) /\ a.event[e] = Absent
  BY <1>2, PausingServes DEF Serves, AllSteps, RunningStates, Absent
<1>4. Steady(m, pausing)
  BY PausingIsSteady
<1> HIDE DEF pausing, a
<1>5. a.window[e] = Absent
  BY <1>2, <1>3 DEF Owned
<1>6. b \in States /\ Exclusive(b)
  BY <1>3, AdmitsServes
<1>7. Steady(a, admitting) /\ admitting \in Seq(WriteSet)
  <2>1. "Started" \in EventStatus \ Suspended
    BY DEF EventStatus, Suspended
  <2> QED
    BY <1>2, <1>3, <1>5, <2>1, AdmitsIsSteady
<1> HIDE DEF admitting, b
<1>8. Steady(b, beginning) /\ beginning \in Seq(WriteSet)
  BY <1>2, <1>6, BeginsIsSteady
<1> HIDE DEF beginning
<1>9. /\ Steady(m, pausing \o admitting) /\ pausing \o admitting \in Seq(WriteSet)
      /\ After(m, pausing \o admitting) = b
  BY <1>3, <1>4, <1>7, OnwardConcat, ConcatFacts, AfterConcat DEF a, b
<1>10. Steady(m, pausing \o admitting \o beginning)
  BY <1>8, <1>9, OnwardConcat
<1> QED
  BY <1>1, <1>10, SteadyIsOrderly

LEMMA PausesInOrder ==
    ASSUME NEW m \in States, NEW e \in Events, m.event[e] \in RunningStates
    PROVE  Orderly(m, Pauses(m, e))
<1> DEFINE p == [m EXCEPT !.event[e] = "Paused"]
           n == WithoutContext(p, e)
<1>1. Pauses(m, e) = <<Update(n, "event", e)>>
  BY DEF Pauses
<1>2. /\ n \in States /\ n.window = m.window /\ n.rec = m.rec /\ n.disturber = m.disturber
      /\ \A d \in Events : d # e => n.event[d] = m.event[d]
      /\ n.event[e] = "Paused"
  BY DEF WithoutContext, States, EventStatus
<1> HIDE DEF n
<1>3. NotBack(m.event[e], n.event[e])
  BY <1>2, EventsGoOn
<1> QED
  BY <1>1, <1>2, <1>3, StatusIsSteady, SteadyIsOrderly

LEMMA CancelsInOrder ==
    ASSUME NEW m \in States, NEW e \in Events, <<m.event[e], "Cancelled">> \in EventEdges
    PROVE  Orderly(m, Changes(m, e, "Cancelled"))
<1> DEFINE n == [m EXCEPT !.event[e] = "Cancelled"]
<1>1. Changes(m, e, "Cancelled") = <<Update(n, "event", e)>>
  BY DEF Changes
<1>2. /\ n \in States /\ n.window = m.window /\ n.rec = m.rec /\ n.disturber = m.disturber
      /\ \A d \in Events : d # e => n.event[d] = m.event[d]
      /\ n.event[e] = "Cancelled"
  BY DEF States, EventStatus
<1> HIDE DEF n
<1>3. NotBack(m.event[e], n.event[e]) /\ n.event[e] \notin Suspended
  BY <1>2, EventsGoOn DEF Suspended
<1> QED
  BY <1>1, <1>2, <1>3, StatusIsSteady, SteadyIsOrderly

LEMMA ResumesInOrder ==
    ASSUME NEW m \in States, Exclusive(m), NEW e \in Events, m.event[e] \in Suspended
    PROVE  Orderly(m, Resumes(m, e))
<1> DEFINE pausing == PauseRunning(m)
           a == After(m, pausing)
           n == [a EXCEPT !.event[e] = "Resumed", !.context = e]
           w == Update(n, "event", e)
<1>1. Resumes(m, e) = pausing \o <<w>>
  BY DEF Resumes
<1>2. /\ pausing \in Seq(WriteSet) /\ a \in States /\ a.event[e] = m.event[e]
  BY PausingServes DEF Serves, AllSteps, RunningStates, Suspended
<1>3. Steady(m, pausing)
  BY PausingIsSteady
<1> HIDE DEF pausing, a
<1>4. /\ n \in States /\ n.window = a.window /\ n.rec = a.rec /\ n.disturber = a.disturber
      /\ \A d \in Events : n.event[d] = IF d = e THEN "Resumed" ELSE a.event[d]
  BY <1>2 DEF States, EventStatus
<1>5. w \in WriteSet
  BY <1>4 DEF Update, WriteSet, Files
<1> HIDE DEF n
<1>6. NotBack(a.event[e], n.event[e]) /\ n.event[e] \notin Suspended
  BY <1>2, <1>4, EventsGoOn DEF Suspended
<1>7. Steady(a, <<w>>)
  BY <1>2, <1>4, <1>6, StatusIsSteady
<1>8. <<w>> \in Seq(WriteSet)
  BY <1>5
<1> HIDE DEF w
<1>9. Steady(m, pausing \o <<w>>)
  BY <1>2, <1>3, <1>7, <1>8, OnwardConcat DEF a
<1> QED
  BY <1>1, <1>9, SteadyIsOrderly

(* The status is new when the window is closed, and stored after it. *)
LEMMA CompletesInOrder ==
    ASSUME NEW m \in States, Exclusive(m), NEW e \in Events, m.event[e] \in RunningStates
    PROVE  Orderly(m, Completes(m, e))
<1> DEFINE done == [m EXCEPT !.event[e] = "Completed"]
           closing == IF m.window[e] = "Active" THEN Expire(done, e) ELSE <<>>
           closed == After(done, closing)
           n == WithoutContext(closed, e)
           w == Update(n, "event", e)
           ws == closing \o <<w>>
<1>1. Completes(m, e) = ws
  BY DEF Completes
<1>2. /\ done \in States
      /\ done.window = m.window /\ done.rec = m.rec /\ done.disturber = m.disturber
      /\ \A d \in Events : done.event[d] = IF d = e THEN "Completed" ELSE m.event[d]
  BY DEF States, EventStatus
<1> HIDE DEF done
<1>3. Exclusive(done)
  <2>1. \A f \in {"event", "window"}, d \in Events : Hot(f, done[f][d]) => Hot(f, m[f][d])
    BY <1>2 DEF Hot, RunningStates
  <2> QED
    BY <2>1, LettingGo
<1>4. /\ closing \in Seq(WriteSet) /\ Steady(done, closing)
      /\ closed \in States /\ closed.event = done.event
      /\ \A i \in DOMAIN closing : closing[i].file # "event" /\ closing[i].mem.event = done.event
  <2>1. CASE m.window[e] = "Active"
    <3>1. closing = Expire(done, e) /\ e \in OpenIn(done)
      BY <1>2, <2>1 DEF OpenIn
    <3> HIDE DEF closing
    <3>2. Serves(done, closing) /\ closed \in States /\ closed.event = done.event
      BY <1>2, <1>3, <3>1, ExpireServes
    <3>3. closing \in Seq(WriteSet)
      BY <3>2 DEF Serves, AllSteps
    <3> QED
      BY <1>2, <3>1, <3>2, <3>3, ExpireIsSteady
  <2>2. CASE m.window[e] # "Active"
    <3>1. closing = <<>> /\ closed = done
      BY <2>2, NothingServes
    <3> QED
      BY <1>2, <3>1, NothingLeft, NothingIsSteady
  <2> QED
    BY <2>1, <2>2
<1> HIDE DEF closing, closed
<1>5. /\ n \in States /\ n.event = closed.event /\ n.window = closed.window
      /\ n.rec = closed.rec /\ n.disturber = closed.disturber
  BY <1>4 DEF WithoutContext, States
<1> HIDE DEF n
<1>6. /\ w \in WriteSet /\ w.mem = n /\ w.file = "event" /\ w.of = e
  BY <1>5 DEF Update, WriteSet, Files
<1> HIDE DEF w
<1>7. /\ <<w>> \in Seq(WriteSet) /\ DOMAIN <<w>> = {1} /\ <<w>>[1] = w
  BY <1>6
<1>8. Steady(closed, <<w>>)
  BY <1>5, <1>6, OtherIsSteady DEF Files
<1>9. Steady(done, ws) /\ ws \in Seq(WriteSet) /\ ws # <<>>
  <2>1. Steady(done, ws)
    BY <1>4, <1>7, <1>8, OnwardConcat DEF closed
  <2>2. ws \in Seq(WriteSet) /\ Len(ws) = Len(closing) + 1 /\ Len(closing) \in Nat
    BY <1>4, <1>7, ConcatFacts
  <2> QED
    BY <2>1, <2>2, SeqFacts
<1>10. \A i \in DOMAIN ws :
           \/ ws[i].file # "event" /\ ws[i].mem.event = done.event
           \/ i = Len(closing) + 1 /\ ws[i] = w
  <2>1. \A i \in DOMAIN ws :
            \/ i \in DOMAIN closing /\ ws[i] = closing[i]
            \/ \E j \in DOMAIN <<w>> : i = Len(closing) + j /\ ws[i] = <<w>>[j]
    BY <1>4, <1>7, ConcatCases
  <2> QED
    BY <1>4, <1>7, <2>1
<1> HIDE DEF ws
<1>11. NotBack(m.event[e], "Completed")
  BY EventsGoOn
<1>12. Along(m, ws)
  <2>1. \A f \in Files : \A x \in Names(f) : NotBack(m[f][x], done[f][x])
    BY <1>2, <1>11, NotBackIsOrder DEF Files, Names
  <2>2. \A d \in Events : m.event[d] = done.event[d] \/ done.event[d] \notin Suspended
    BY <1>2 DEF Suspended
  <2>3. ws[1].mem.event = done.event
    BY <1>4, <1>5, <1>6, <1>9, <1>10, TailFacts
  <2> QED
    BY <1>9, <2>1, <2>2, <2>3, AlongElsewhere DEF Steady
<1>13. Once(m, ws)
  <2>1. n.event[e] = "Completed"
    BY <1>2, <1>4, <1>5
  <2>2. Value(w) = "Completed"
    BY <1>6, <2>1 DEF Value
  <2> QED
    BY <1>6, <1>10, <1>11, <2>2 DEF Once, StoresAt, Suspended
<1> QED
  BY <1>1, <1>12, <1>13 DEF Orderly

LEMMA DisturbsIsSteady ==
    ASSUME NEW m \in States, Exclusive(m)
    PROVE  Steady(m, Disturbs(m))
<1>1. CASE RunningIn(m) = {}
  BY <1>1, NothingIsSteady DEF Disturbs
<1>2. CASE RunningIn(m) # {}
  <2> DEFINE e == CHOOSE e \in RunningIn(m) : TRUE
             closing == IF m.window[e] = "Active" THEN Expire(m, e) ELSE <<>>
             closed == After(m, closing)
             n == [closed EXCEPT !.event[e] = "Interrupted"]
             o == [n EXCEPT !.context = Idle]
             v == Update(n, "event", e)
             w == Unstored(o)
             raising == Raises(closed)
  <2>1. Disturbs(m) = closing \o (IF m.event[e] = "Resumed" THEN <<raising>> ELSE <<v, w>>)
    BY <1>2 DEF Disturbs
  <2>2. e \in Events /\ m.event[e] \in RunningStates
    BY <1>2 DEF RunningIn
  <2> HIDE DEF e
  <2>3. /\ closing \in Seq(WriteSet) /\ Steady(m, closing)
        /\ closed \in States /\ closed.event = m.event
    <3>1. CASE m.window[e] = "Active"
      <4>1. closing = Expire(m, e) /\ e \in OpenIn(m)
        BY <2>2, <3>1 DEF OpenIn
      <4> HIDE DEF closing
      <4>2. Serves(m, closing) /\ closed \in States /\ closed.event = m.event
        BY <4>1, ExpireServes
      <4> QED
        BY <4>1, <4>2, ExpireIsSteady DEF Serves, AllSteps
    <3>2. CASE m.window[e] # "Active"
      <4>1. closing = <<>> /\ closed = m
        BY <3>2, NothingServes
      <4> QED
        BY <4>1, NothingLeft, NothingIsSteady
    <3> QED
      BY <3>1, <3>2
  <2> HIDE DEF closing, closed
  <2>4. CASE m.event[e] = "Resumed"
    <3>1. raising.mem = closed /\ raising \in WriteSet
      BY <2>3 DEF Raises, WriteSet
    <3> HIDE DEF raising
    <3>2. Steady(closed, <<raising>>)
      BY <3>1, OtherIsSteady
    <3>3. <<raising>> \in Seq(WriteSet)
      BY <3>1
    <3> QED
      BY <2>1, <2>3, <2>4, <3>2, <3>3, OnwardConcat DEF closed
  <2>5. CASE m.event[e] # "Resumed"
    <3>1. /\ n \in States /\ n.window = closed.window
          /\ n.rec = closed.rec /\ n.disturber = closed.disturber
          /\ \A d \in Events : n.event[d] = IF d = e THEN "Interrupted" ELSE closed.event[d]
      BY <2>2, <2>3 DEF States, EventStatus
    <3> HIDE DEF n
    <3>2. o \in States /\ \A g \in Files : o[g] = n[g]
      BY <3>1 DEF States, Files
    <3> HIDE DEF o
    <3>3. v \in WriteSet /\ v.mem = n /\ w \in WriteSet /\ w.mem = o
      BY <2>2, <3>1, <3>2 DEF Update, Unstored, WriteSet, Files
    <3>4. Steady(closed, <<v>>)
      <4>1. NotBack(closed.event[e], n.event[e])
        BY <2>2, <2>3, <3>1, EventsGoOn
      <4>2. closed.event[e] \in RunningStates
        BY <2>2, <2>3
      <4> QED
        BY <2>2, <2>3, <3>1, <4>1, <4>2, StatusIsSteady
    <3> HIDE DEF v, w
    <3>5. Steady(n, <<w>>)
      BY <3>2, <3>3, OtherIsSteady DEF Files
    <3>6. <<v>> \in Seq(WriteSet) /\ <<w>> \in Seq(WriteSet) /\ After(closed, <<v>>) = n
      BY <3>3 DEF After, Last
    <3>7. <<v, w>> = <<v>> \o <<w>> /\ <<v>> \o <<w>> \in Seq(WriteSet)
      BY <3>6, TwoWrites, ConcatFacts
    <3>8. Steady(closed, <<v, w>>)
      BY <3>4, <3>5, <3>6, <3>7, OnwardConcat
    <3>9. Steady(m, closing \o <<v, w>>)
      BY <2>3, <3>7, <3>8, OnwardConcat DEF closed
    <3> QED
      BY <2>1, <2>5, <3>9
  <2> QED
    BY <2>4, <2>5
<1> QED
  BY <1>1, <1>2

-----------------------------------------------------------------------------
(***************************************************************************)
(* The cycle: consumption, what is due, and what it stores at its end.     *)
(***************************************************************************)

LEMMA ConsumesIsSteady ==
    ASSUME NEW m \in States, Exclusive(m), Owned(m)
    PROVE  /\ Steady(m, Consumes(m))
           /\ \A e \in Events : After(m, Consumes(m)).event[e] = m.event[e] \/ m.event[e] = Absent
<1> DEFINE ws == Consumes(m)
           n == Len(SetToSeq(Accepted(m)))
<1>1. /\ \A i \in DOMAIN ws : \E q \in 1 .. n :
            i = Place(q, 1) \/ i = Place(q, 2) \/ i = Place(q, 3)
      /\ \A q \in 1 .. n :
            /\ Before(m, ws, Place(q, 1)) = Made(m, q - 1)
            /\ ws[Place(q, 1)].mem = Admitted(m, q)
            /\ StoresAt(ws[Place(q, 1)], "event", CopyAt(m, q))
            /\ Before(m, ws, Place(q, 2)) = Admitted(m, q)
            /\ ws[Place(q, 2)].mem = Admitted(m, q)
            /\ Before(m, ws, Place(q, 3)) = Admitted(m, q)
            /\ ws[Place(q, 3)].mem = Made(m, q)
      /\ After(m, ws) = Made(m, n)
  BY ConsumesPlaces
<1>2. /\ n \in Nat
      /\ \A q \in 1 .. n : q - 1 \in 0 .. n /\ q \in 0 .. n
      /\ \A q \in 0 .. n : Done(m, q) \in SUBSET Accepted(m)
      /\ \A q \in 1 .. n :
            Turn(m, q) \in Accepted(m) /\ Done(m, q) = Done(m, q - 1) \cup {Turn(m, q)}
  <2>1. n \in Nat
    BY Turns
  <2>2. \A q \in 1 .. n : q - 1 \in 0 .. n /\ q \in 0 .. n
    BY <2>1
  <2> QED
    BY <2>1, <2>2, Turns
<1> HIDE DEF ws, n
<1>3. ASSUME NEW q \in 0 .. n
      PROVE  /\ \A e \in Events :
                   Made(m, q).event[e] = m.event[e]
                   \/ (m.event[e] = Absent /\ Made(m, q).event[e] = "Scheduled")
             /\ \A e \in Events :
                   Made(m, q).window[e] = m.window[e]
                   \/ (m.window[e] = Absent /\ Made(m, q).window[e] = "Created")
             /\ \A r \in Recommendations :
                   Made(m, q).rec[r] = IF r \in Done(m, q) THEN "Consumed" ELSE m.rec[r]
             /\ Made(m, q).disturber = m.disturber
  <2>1. Done(m, q) \in SUBSET Accepted(m)
    BY <1>2
  <2>2. \A e \in Copies(m, Done(m, q)) :
            e \in Events /\ m.event[e] = Absent /\ m.window[e] = Absent
    BY <2>1, CopiesAreCold
  <2> DEFINE l == Made(m, q)
  <2>3. /\ l.disturber = m.disturber
        /\ \A e \in Events :
              l.event[e] = IF e \in Copies(m, Done(m, q)) THEN "Scheduled" ELSE m.event[e]
        /\ \A e \in Events :
              l.window[e] = IF e \in Copies(m, Done(m, q)) THEN "Created" ELSE m.window[e]
        /\ \A r \in Recommendations :
              l.rec[r] = IF r \in Done(m, q) THEN "Consumed" ELSE m.rec[r]
    BY <2>1, MaterialisedIs DEF Made
  <2> HIDE DEF l
  <2>4. /\ \A e \in Events :
              l.event[e] = m.event[e] \/ (m.event[e] = Absent /\ l.event[e] = "Scheduled")
        /\ \A e \in Events :
              l.window[e] = m.window[e] \/ (m.window[e] = Absent /\ l.window[e] = "Created")
    BY <2>2, <2>3
  <2> QED
    BY <2>3, <2>4 DEF l
<1>4. ASSUME NEW q \in 1 .. n
      PROVE  /\ \A e \in Events : e # CopyAt(m, q) =>
                   /\ Admitted(m, q).event[e] = Made(m, q - 1).event[e]
                   /\ Admitted(m, q).window[e] = Made(m, q - 1).window[e]
             /\ Admitted(m, q).event[CopyAt(m, q)] = "Scheduled"
             /\ Admitted(m, q).window[CopyAt(m, q)] = "Created"
             /\ Admitted(m, q).event = Made(m, q).event /\ Admitted(m, q).window = Made(m, q).window
             /\ Admitted(m, q).rec = Made(m, q - 1).rec
             /\ Admitted(m, q).disturber = Made(m, q - 1).disturber
             /\ CopyAt(m, q) \in Events /\ m.event[CopyAt(m, q)] = Absent
             /\ m.window[CopyAt(m, q)] = Absent
  <2>1. /\ CopyAt(m, q) \in Events /\ m.event[CopyAt(m, q)] = Absent
    BY <1>2, CopyIsNew DEF CopyAt
  <2>2. m.window[CopyAt(m, q)] = Absent
    BY <2>1 DEF Owned
  <2> QED
    BY <2>1, <2>2, AdmittedIs DEF CopyAt, n
<1>5. \A b : NotBack(Absent, b)
  BY EventsGoOn
<1>6. ASSUME NEW q \in 1 .. n
      PROVE  /\ Onward(Made(m, q - 1), ws[Place(q, 1)])
             /\ \A e \in Events :
                   ws[Place(q, 1)].mem.event[e] # Made(m, q - 1).event[e] =>
                       StoresAt(ws[Place(q, 1)], "event", e)
  <2> DEFINE p == Made(m, q - 1)
             a == ws[Place(q, 1)].mem
             c == CopyAt(m, q)
  <2>1. /\ \A e \in Events : e # c => a.event[e] = p.event[e] /\ a.window[e] = p.window[e]
        /\ a.event[c] = "Scheduled" /\ a.window[c] = "Created"
        /\ a.rec = p.rec /\ a.disturber = p.disturber
        /\ c \in Events /\ StoresAt(ws[Place(q, 1)], "event", c)
    BY <1>1, <1>4
  <2>2. p.event[c] \in {Absent, "Scheduled"} /\ p.window[c] \in {Absent, "Created"}
    BY <1>2, <1>3, <1>4
  <2> HIDE DEF p, a, c
  <2>3. \A f \in Files : \A x \in Names(f) : NotBack(p[f][x], a[f][x])
    BY <1>5, <2>1, <2>2, NotBackIsOrder DEF Files, Names
  <2>4. \A e \in Events : a.event[e] \in Suspended => a.event[e] = p.event[e]
    BY <2>1 DEF Suspended
  <2>5. \A e \in Events : a.event[e] # p.event[e] => StoresAt(ws[Place(q, 1)], "event", e)
    BY <2>1
  <2> QED
    BY <2>3, <2>4, <2>5 DEF Onward, p, a
<1>7. ASSUME NEW q \in 1 .. n
      PROVE  Onward(Admitted(m, q), ws[Place(q, 2)])
  BY <1>1, NotBackIsOrder DEF Onward
<1>8. ASSUME NEW q \in 1 .. n
      PROVE  Onward(Admitted(m, q), ws[Place(q, 3)])
  <2> DEFINE a == Admitted(m, q)
             l == ws[Place(q, 3)].mem
  <2>1. l.event = a.event /\ l.window = a.window /\ l.disturber = a.disturber
    BY <1>1, <1>2, <1>3, <1>4
  <2>2. \A r \in Recommendations :
            /\ a.rec[r] = IF r \in Done(m, q - 1) THEN "Consumed" ELSE m.rec[r]
            /\ l.rec[r] = IF r \in Done(m, q) THEN "Consumed" ELSE m.rec[r]
    BY <1>1, <1>2, <1>3, <1>4
  <2>3. Done(m, q) = Done(m, q - 1) \cup {Turn(m, q)} /\ m.rec[Turn(m, q)] = "Accepted"
    BY <1>2, CopyIsNew
  <2> HIDE DEF a, l
  <2>4. \A r \in Recommendations : NotBack(a.rec[r], l.rec[r])
    BY <2>2, <2>3, NotBackIsOrder, OthersGoOn
  <2> QED
    BY <2>1, <2>4, NotBackIsOrder DEF Onward, Files, Names, a, l
<1>9. Along(m, ws)
  BY <1>1, <1>6, <1>7, <1>8 DEF Along
<1>10. Telling(m, ws)
  <2> SUFFICES ASSUME NEW i \in DOMAIN ws, NEW e \in Events,
                      ws[i].mem.event[e] # Before(m, ws, i).event[e]
               PROVE  StoresAt(ws[i], "event", e)
    BY DEF Telling
  <2>1. PICK q \in 1 .. n : i = Place(q, 1) \/ i = Place(q, 2) \/ i = Place(q, 3)
    BY <1>1
  <2>2. CASE i = Place(q, 1)
    BY <1>1, <1>6, <2>2
  <2>3. CASE i # Place(q, 1)
    BY <1>1, <1>4, <2>1, <2>3
  <2> QED
    BY <2>2, <2>3
<1>11. \A e \in Events : After(m, ws).event[e] = m.event[e] \/ m.event[e] = Absent
  <2>1. n \in 0 .. n
    BY <1>2
  <2> QED
    BY <1>1, <1>3, <2>1
<1> QED
  BY <1>9, <1>10, <1>11 DEF Steady, ws

LEMMA AdvancesIsSteady ==
    ASSUME NEW m \in States, Exclusive(m),
           NEW due \in [Events -> {"no", "Ready", "Skipped", "Overtaken"}],
           \A e \in Events : due[e] # "no" => <<m.event[e], due[e]>> \in EventEdges
    PROVE  Steady(m, Advances(m, due))
<1> DEFINE ws == Advances(m, due)
<1>1. \A i \in DOMAIN ws : \E e \in Events :
          LET b == Before(m, ws, i)
              n == ws[i].mem
          IN  /\ n.window = b.window /\ n.rec = b.rec /\ n.disturber = b.disturber
              /\ StoresAt(ws[i], "event", e)
              /\ due[e] \in {"Ready", "Skipped", "Overtaken"} /\ n.event[e] = due[e]
              /\ b.event[e] = m.event[e] \/ b.event[e] = due[e]
              /\ \A d \in Events : d # e => n.event[d] = b.event[d]
  BY AdvancesSteps
<1> HIDE DEF ws
<1>2. \A e \in Events : due[e] \in {"Ready", "Skipped", "Overtaken"} => NotBack(m.event[e], due[e])
  BY EventsGoOn
<1>3. ASSUME NEW i \in DOMAIN ws
      PROVE  /\ Onward(Before(m, ws, i), ws[i])
             /\ \A e \in Events : ws[i].mem.event[e] # Before(m, ws, i).event[e] =>
                   StoresAt(ws[i], "event", e)
  <2> DEFINE b == Before(m, ws, i)
             n == ws[i].mem
  <2>1. PICK e \in Events :
            /\ n.window = b.window /\ n.rec = b.rec /\ n.disturber = b.disturber
            /\ StoresAt(ws[i], "event", e)
            /\ due[e] \in {"Ready", "Skipped", "Overtaken"} /\ n.event[e] = due[e]
            /\ b.event[e] = m.event[e] \/ b.event[e] = due[e]
            /\ \A d \in Events : d # e => n.event[d] = b.event[d]
    BY <1>1
  <2> HIDE DEF b, n
  <2>2. NotBack(b.event[e], n.event[e])
    BY <1>2, <2>1, NotBackIsOrder
  <2>3. \A f \in Files : \A x \in Names(f) : NotBack(b[f][x], n[f][x])
    BY <2>1, <2>2, NotBackIsOrder DEF Files, Names
  <2>4. \A d \in Events : n.event[d] \in Suspended => n.event[d] = b.event[d]
    BY <2>1 DEF Suspended
  <2>5. \A d \in Events : n.event[d] # b.event[d] => StoresAt(ws[i], "event", d)
    BY <2>1
  <2> QED
    BY <2>3, <2>4, <2>5 DEF Onward, b, n
<1> QED
  BY <1>3 DEF Steady, Along, Telling, ws

(* Storing what is so changes nothing in Runtime State. *)
LEMMA StoringIsSteady ==
    ASSUME NEW m, NEW ws \in Seq(WriteSet), \A i \in DOMAIN ws : ws[i].mem = m
    PROVE  Steady(m, ws)
<1>1. \A i \in DOMAIN ws : i # 1 => i - 1 \in DOMAIN ws
  BY SeqFacts
<1>2. \A i \in DOMAIN ws : Before(m, ws, i) = m
  BY <1>1 DEF Before
<1> QED
  BY <1>2, NotBackIsOrder DEF Steady, Along, Telling, Onward

LEMMA PlanUpdatedIsSteady ==
    ASSUME NEW m \in States, Exclusive(m), NEW recs \in SUBSET Recommendations,
           NEW disturbers \in SUBSET Disturbers,
           \A r \in recs : m.rec[r] # Absent, \A d \in disturbers : m.disturber[d] # Absent
    PROVE  LET ws == PlanUpdated(m, recs, disturbers) IN
           ws \in Seq(WriteSet) /\ Steady(m, ws) /\ After(m, ws) = m
<1> DEFINE s == StoringEach(m, "rec", recs)
           t == StoringEach(m, "disturber", disturbers)
<1>1. PlanUpdated(m, recs, disturbers) = s \o t
  BY DEF PlanUpdated, StoringEach
<1>2. AllSteps(m, s) /\ After(m, s) = m /\ \A i \in DOMAIN s : s[i].mem = m
  <2>1. recs \in SUBSET Names("rec") /\ "rec" \in {"rec", "disturber"}
        /\ \A r \in recs : m["rec"][r] # Absent
    BY DEF Names
  <2> QED
    BY <2>1, StoresEach
<1>3. AllSteps(m, t) /\ After(m, t) = m /\ \A i \in DOMAIN t : t[i].mem = m
  <2>1. disturbers \in SUBSET Names("disturber") /\ "disturber" \in {"rec", "disturber"}
        /\ \A d \in disturbers : m["disturber"][d] # Absent
    BY DEF Names
  <2> QED
    BY <2>1, StoresEach
<1> HIDE DEF s, t
<1>4. s \in Seq(WriteSet) /\ t \in Seq(WriteSet)
  BY <1>2, <1>3 DEF AllSteps
<1>5. Steady(m, s) /\ Steady(m, t)
  BY <1>2, <1>3, <1>4, StoringIsSteady
<1>6. Steady(m, s \o t)
  BY <1>2, <1>4, <1>5, OnwardConcat
<1>7. After(m, s \o t) = m /\ s \o t \in Seq(WriteSet)
  BY <1>2, <1>3, <1>4, AfterConcat, ConcatFacts
<1> QED
  BY <1>1, <1>6, <1>7

LEMMA BodyIsSteady ==
    ASSUME NEW m \in States, Exclusive(m), Owned(m),
           NEW due \in [Events -> {"no", "Ready", "Skipped", "Overtaken"}],
           \A e \in Events : due[e] # "no" => <<m.event[e], due[e]>> \in EventEdges,
           NEW recs \in SUBSET Recommendations, NEW resolved \in SUBSET Disturbers,
           \A r \in recs : m.rec[r] # Absent,
           \A d \in resolved : m.disturber[d] # Absent
    PROVE  Steady(m, Body(m, due, recs, resolved)) /\ Body(m, due, recs, resolved) \in Seq(WriteSet)
<1> DEFINE consuming == Consumes(m)
           consumed == After(m, consuming)
           advancing == Advances(consumed, due)
           advanced == After(consumed, advancing)
           planned == PlanUpdated(advanced, recs, resolved)
           n == [advanced EXCEPT !.scheduling = FALSE]
           w == Unstored(n)
           s == consuming \o advancing
           u == s \o planned
<1>1. Body(m, due, recs, resolved) = u \o <<w>>
  BY DEF Body
<1>2. /\ consuming \in Seq(WriteSet) /\ Steady(m, consuming)
      /\ consumed \in States /\ Exclusive(consumed) /\ Owned(consumed)
      /\ \A r \in Recommendations :
            consumed.rec[r] = IF r \in Accepted(m) THEN "Consumed" ELSE m.rec[r]
      /\ consumed.disturber = m.disturber
      /\ \A e \in Events : consumed.event[e] = m.event[e] \/ m.event[e] = Absent
  BY ConsumesKeeps, ConsumesIsSteady DEF AllSteps
<1>3. \A e \in Events : due[e] # "no" => <<consumed.event[e], due[e]>> \in EventEdges
  <2>1. \A b : <<Absent, b>> \notin EventEdges
    BY DEF EventEdges, Absent
  <2> HIDE DEF consumed
  <2> QED
    BY <1>2, <2>1
<1> HIDE DEF consuming, consumed
<1>4. /\ advancing \in Seq(WriteSet) /\ Steady(consumed, advancing)
      /\ advanced \in States /\ Exclusive(advanced)
      /\ advanced.rec = consumed.rec /\ advanced.disturber = consumed.disturber
  BY <1>2, <1>3, AdvancesServes, AdvancesIsSteady DEF Serves, AllSteps
<1> HIDE DEF advancing, advanced
<1>5. /\ \A r \in recs : advanced.rec[r] # Absent
      /\ \A d \in resolved : advanced.disturber[d] # Absent
  BY <1>2, <1>4 DEF Absent
<1>6. /\ planned \in Seq(WriteSet) /\ Steady(advanced, planned)
      /\ After(advanced, planned) = advanced
  BY <1>4, <1>5, PlanUpdatedIsSteady
<1> HIDE DEF planned
<1>7. /\ w.mem = n /\ w \in WriteSet /\ \A g \in Files : n[g] = advanced[g]
  BY <1>4 DEF Unstored, WriteSet, States, Files
<1> HIDE DEF n, w
<1>8. Steady(advanced, <<w>>) /\ <<w>> \in Seq(WriteSet)
  BY <1>7, OtherIsSteady DEF Files
<1>9. Steady(m, s) /\ s \in Seq(WriteSet) /\ After(m, s) = advanced
  BY <1>2, <1>4, OnwardConcat, ConcatFacts, AfterConcat DEF consumed, advanced
<1> HIDE DEF s
<1>10. Steady(m, u) /\ u \in Seq(WriteSet) /\ After(m, u) = advanced
  BY <1>6, <1>9, OnwardConcat, ConcatFacts, AfterConcat
<1> HIDE DEF u
<1>11. Steady(m, u \o <<w>>) /\ u \o <<w>> \in Seq(WriteSet)
  BY <1>8, <1>10, OnwardConcat, ConcatFacts
<1> QED
  BY <1>1, <1>11

(* What a disturbance makes of the Events. *)
LEMMA DisturbedIs ==
    ASSUME NEW m \in States, Exclusive(m), NEW reason
    PROVE  \A e \in Events : After(m, Disturbed(m, reason)).event[e]
               = IF reason \in Disturbers /\ m.event[e] \in RunningStates \ {"Resumed"}
                 THEN "Interrupted" ELSE m.event[e]
<1>1. CASE reason \notin Disturbers
  <2>1. Disturbed(m, reason) = <<>>
    BY <1>1 DEF Disturbed
  <2> QED
    BY <1>1, <2>1, NothingServes
<1>2. CASE reason \in Disturbers /\ RunningIn(m) = {}
  <2>1. Disturbed(m, reason) = <<>>
    BY <1>2 DEF Disturbed, Disturbs
  <2> QED
    BY <1>2, <2>1, NothingServes DEF RunningIn
<1>3. CASE reason \in Disturbers /\ RunningIn(m) # {}
  <2> DEFINE e == CHOOSE e \in RunningIn(m) : TRUE
             closing == IF m.window[e] = "Active" THEN Expire(m, e) ELSE <<>>
             closed == After(m, closing)
             n == [closed EXCEPT !.event[e] = "Interrupted"]
             o == [n EXCEPT !.context = Idle]
             v == Update(n, "event", e)
             w == Unstored(o)
             raising == Raises(closed)
  <2>1. Disturbed(m, reason)
            = closing \o (IF m.event[e] = "Resumed" THEN <<raising>> ELSE <<v, w>>)
    BY <1>3 DEF Disturbed, Disturbs
  <2>2. e \in Events /\ m.event[e] \in RunningStates
    BY <1>3 DEF RunningIn
  <2> HIDE DEF e
  <2>3. \A d \in Events : m.event[d] \in RunningStates => d = e
    BY <2>2 DEF Exclusive, Hot
  <2>4. closing \in Seq(WriteSet) /\ closed \in States /\ closed.event = m.event
    <3>1. CASE m.window[e] = "Active"
      <4>1. closing = Expire(m, e) /\ e \in OpenIn(m)
        BY <2>2, <3>1 DEF OpenIn
      <4> HIDE DEF closing
      <4> QED
        BY <4>1, ExpireServes DEF Serves, AllSteps
    <3>2. CASE m.window[e] # "Active"
      <4>1. closing = <<>> /\ closed = m
        BY <3>2, NothingServes
      <4> QED
        BY <4>1, NothingLeft
    <3> QED
      BY <3>1, <3>2
  <2> HIDE DEF closing, closed
  <2>5. CASE m.event[e] = "Resumed"
    <3>1. raising.mem = closed /\ raising \in WriteSet
      BY <2>4 DEF Raises, WriteSet
    <3> HIDE DEF raising
    <3>2. <<raising>> \in Seq(WriteSet) /\ After(closed, <<raising>>) = closed
      BY <3>1 DEF After, Last
    <3>3. After(m, closing \o <<raising>>) = closed
      BY <2>4, <3>2, AfterConcat DEF closed
    <3> QED
      BY <1>3, <2>1, <2>3, <2>4, <2>5, <3>3
  <2>6. CASE m.event[e] # "Resumed"
    <3>1. /\ n \in States
          /\ \A d \in Events : n.event[d] = IF d = e THEN "Interrupted" ELSE m.event[d]
      BY <2>2, <2>4 DEF States, EventStatus
    <3> HIDE DEF n
    <3>2. o \in States /\ o.event = n.event
      BY <3>1 DEF States
    <3> HIDE DEF o
    <3>3. v \in WriteSet /\ w \in WriteSet /\ w.mem = o
      BY <2>2, <3>1, <3>2 DEF Update, Unstored, WriteSet, Files
    <3> HIDE DEF v, w
    <3>4. <<v, w>> \in Seq(WriteSet) /\ After(closed, <<v, w>>) = o
      BY <3>3 DEF After, Last
    <3>5. After(m, closing \o <<v, w>>) = o
      BY <2>4, <3>4, AfterConcat DEF closed
    <3> QED
      BY <1>3, <2>1, <2>2, <2>3, <2>6, <3>1, <3>2, <3>5
  <2> QED
    BY <2>5, <2>6
<1> QED
  BY <1>1, <1>2, <1>3

LEMMA CycleInOrder ==
    ASSUME NEW m \in States, Exclusive(m), Owned(m), NEW reason,
           NEW expired \in SUBSET {r \in Recommendations : m.rec[r] = "Pending"},
           NEW due \in Dues(After(m, Disturbed(m, reason)))
    PROVE  Orderly(m, Cycle(m, reason, expired, due))
<1> DEFINE entered == [m EXCEPT !.scheduling = TRUE]
           resolved == {d \in Disturbers : d = reason /\ m.disturber[d] = "Applied"}
           disturbing == Disturbed(entered, reason)
           disturbed == After(entered, disturbing)
           settled == Settled(disturbed, expired, resolved)
           recs == expired \cup Accepted(m)
           body == Body(settled, due, recs, resolved)
<1>1. Cycle(m, reason, expired, due)
          = IF Raising(disturbing) THEN disturbing ELSE disturbing \o body
  <2>1. Cycle(m, reason, expired, due) = Then(disturbing, body)
    BY CycleIs, Zenon
  <2> QED
    BY <2>1 DEF Then
<1>2. entered \in States /\ \A f \in Files : entered[f] = m[f]
  BY DEF States, Files
<1> HIDE DEF entered
<1>3. /\ Exclusive(entered) /\ Owned(entered) /\ entered.event = m.event
      /\ entered.rec = m.rec /\ entered.disturber = m.disturber
  BY <1>2 DEF Exclusive, Owned, Files
<1>4. /\ disturbing \in Seq(WriteSet)
      /\ disturbed \in States /\ Exclusive(disturbed) /\ Owned(disturbed)
      /\ disturbed.rec = m.rec /\ disturbed.disturber = m.disturber
  BY <1>2, <1>3, DisturbedServes DEF Serves, AllSteps
<1>5. Steady(entered, disturbing)
  BY <1>2, <1>3, DisturbsIsSteady, NothingIsSteady DEF Disturbed
<1>6. /\ due \in [Events -> {"no", "Ready", "Skipped", "Overtaken"}]
      /\ \A e \in Events : due[e] # "no" =>
            <<After(m, Disturbed(m, reason)).event[e], due[e]>> \in EventEdges
  BY Zenon DEF Dues
<1>7. \A e \in Events : After(m, Disturbed(m, reason)).event[e] = disturbed.event[e]
  <2>1. \A e \in Events : After(m, Disturbed(m, reason)).event[e]
            = IF reason \in Disturbers /\ m.event[e] \in RunningStates \ {"Resumed"}
              THEN "Interrupted" ELSE m.event[e]
    BY DisturbedIs
  <2>2. \A e \in Events : disturbed.event[e]
            = IF reason \in Disturbers /\ entered.event[e] \in RunningStates \ {"Resumed"}
              THEN "Interrupted" ELSE entered.event[e]
    BY <1>2, <1>3, DisturbedIs
  <2> QED
    BY <1>3, <2>1, <2>2
<1> HIDE DEF disturbing, disturbed
<1>8. /\ settled \in States
      /\ settled.event = disturbed.event /\ settled.window = disturbed.window
      /\ \A r \in Recommendations :
            settled.rec[r] = IF r \in expired THEN "Expired" ELSE m.rec[r]
      /\ \A d \in Disturbers :
            settled.disturber[d] = IF d \in resolved THEN "Resolved" ELSE m.disturber[d]
      /\ Exclusive(settled) /\ Owned(settled)
  BY <1>4, SettledIs
<1> HIDE DEF settled
<1>9. /\ recs \in SUBSET Recommendations /\ resolved \in SUBSET Disturbers
      /\ \A r \in recs : settled.rec[r] # Absent
      /\ \A d \in resolved : settled.disturber[d] # Absent
  BY <1>8 DEF Accepted, Absent
<1>10. \A e \in Events : due[e] # "no" => <<settled.event[e], due[e]>> \in EventEdges
  BY <1>6, <1>7, <1>8
<1> HIDE DEF recs
<1>11. Steady(settled, body) /\ body \in Seq(WriteSet)
  <2> HIDE DEF resolved
  <2> QED
    BY <1>6, <1>8, <1>9, <1>10, BodyIsSteady
<1> HIDE DEF body
<1>12. \A f \in Files : \A x \in Names(f) : NotBack(disturbed[f][x], settled[f][x])
  <2>1. \A r \in Recommendations : NotBack(m.rec[r], settled.rec[r])
    BY <1>8, NotBackIsOrder, OthersGoOn
  <2>2. \A d \in Disturbers : NotBack(m.disturber[d], settled.disturber[d])
    BY <1>8, NotBackIsOrder, OthersGoOn
  <2> HIDE DEF resolved
  <2> QED
    BY <1>4, <1>8, <2>1, <2>2, NotBackIsOrder DEF Files, Names
<1>13. Steady(disturbed, body)
  BY <1>8, <1>11, <1>12, SteadyElsewhere
<1>14. Steady(entered, disturbing \o body)
  BY <1>4, <1>5, <1>11, <1>13, OnwardConcat DEF disturbed
<1>15. \A ws : Steady(entered, ws) => Steady(m, ws)
  <2>1. \A f \in Files : \A x \in Names(f) : NotBack(m[f][x], entered[f][x])
    BY <1>2, NotBackIsOrder
  <2> QED
    BY <1>3, <2>1, SteadyElsewhere
<1>16. Steady(m, disturbing) /\ Steady(m, disturbing \o body)
  BY <1>5, <1>14, <1>15
<1> QED
  BY <1>1, <1>16, SteadyIsOrderly

-----------------------------------------------------------------------------
(***************************************************************************)
(* The actions.                                                            *)
(***************************************************************************)

LEMMA RecommendationInOrder ==
    ASSUME NEW m \in States, NEW r \in Recommendations, NEW status, NEW n, NEW w,
           NotBack(m.rec[r], status), n = [m EXCEPT !.rec[r] = status], w.mem = n
    PROVE  Orderly(m, <<w>>)
<1>1. /\ n.event = m.event /\ n.window = m.window /\ n.disturber = m.disturber
      /\ \A s \in Recommendations : n.rec[s] = IF s = r THEN status ELSE m.rec[s]
  BY DEF States
<1>2. \A f \in Files : \A x \in Names(f) : w.mem[f][x] = m[f][x] \/ NotBack(m[f][x], w.mem[f][x])
  BY <1>1 DEF Files, Names
<1> QED
  BY <1>1, <1>2, OtherIsSteady, SteadyIsOrderly

LEMMA DisturberInOrder ==
    ASSUME NEW m \in States, NEW d \in Disturbers, NEW status, NEW n, NEW w,
           m.disturber[d] = Absent, n = [m EXCEPT !.disturber[d] = status], w.mem = n
    PROVE  Orderly(m, <<w>>)
<1>1. /\ n.event = m.event /\ n.window = m.window /\ n.rec = m.rec
      /\ \A s \in Disturbers : n.disturber[s] = IF s = d THEN status ELSE m.disturber[s]
  BY DEF States
<1>2. \A f \in Files : \A x \in Names(f) : w.mem[f][x] = m[f][x] \/ NotBack(m[f][x], w.mem[f][x])
  BY <1>1, EventsGoOn DEF Files, Names
<1> QED
  BY <1>1, <1>2, OtherIsSteady, SteadyIsOrderly

(* What every action but a write, a failure and a restart is. *)
InOrder == OInv' /\ UNCHANGED disk

LEMMA OperationInOrder ==
    ASSUME IInv, OInv, todo = <<>>, NEW ws, NEW following, Orderly(mem, ws),
           Begin(ws, following)
    PROVE  InOrder
BY BeginsInOrder DEF Begin, InOrder

LEMMA CycleActionsInOrder ==
    ASSUME IInv, OInv, CycleRefused \/ RunsCycle \/ StartRefused
    PROVE  InOrder
<1>1. CASE CycleRefused
  <2>1. Orderly(mem, <<>>)
    BY NothingIsSteady, SteadyIsOrderly
  <2> QED
    BY <1>1, <2>1, OperationInOrder DEF CycleRefused
<1>2. CASE RunsCycle
  <2>1. up /\ todo = <<>>
    BY <1>2 DEF RunsCycle
  <2>2. PICK expired \in SUBSET {r \in Recommendations : mem.rec[r] = "Pending"},
             due \in Dues(After(mem, Disturbed(mem, next))) :
                 LET ws == Cycle(mem, next, expired, due) IN Begin(ws, FollowedUp(ws))
    BY <1>2 DEF RunsCycle
  <2>3. Orderly(mem, Cycle(mem, next, expired, due))
    BY <2>1, UpFacts, CycleInOrder
  <2> DEFINE ws == Cycle(mem, next, expired, due)
  <2>4. Begin(ws, FollowedUp(ws))
    BY <2>2
  <2>5. Orderly(mem, ws)
    BY <2>3
  <2> HIDE DEF ws
  <2> QED
    BY <2>1, <2>4, <2>5, OperationInOrder
<1>3. CASE StartRefused
  <2>1. up /\ todo = <<>> /\ Begin(PauseRunning(mem), "nothing")
    BY <1>3 DEF StartRefused, Free
  <2>2. Orderly(mem, PauseRunning(mem))
    BY <2>1, UpFacts, PausingIsSteady, SteadyIsOrderly
  <2> QED
    BY <2>1, <2>2, OperationInOrder
<1> QED
  BY <1>1, <1>2, <1>3

LEMMA RecommendationActionsInOrder ==
    ASSUME IInv, OInv, NEW r \in Recommendations,
           Proposes(r) \/ AcceptRecommendation(r) \/ RejectRecommendation(r)
    PROVE  InOrder
<1>1. up /\ todo = <<>>
  BY DEF Proposes, AcceptRecommendation, RejectRecommendation, Free
<1>2. mem \in States
  BY <1>1, UpFacts
<1>3. CASE Proposes(r)
  <2> DEFINE n == [mem EXCEPT !.rec[r] = "Pending"]
             w == New(n, "rec", r)
  <2>1. Begin(<<w>>, "cycle") /\ NotBack(mem.rec[r], "Pending")
    BY <1>3, EventsGoOn DEF Proposes
  <2>2. w.mem = n
    BY DEF New
  <2> HIDE DEF w
  <2>3. Orderly(mem, <<w>>)
    BY <1>2, <2>1, <2>2, RecommendationInOrder
  <2> QED
    BY <1>1, <2>1, <2>3, OperationInOrder
<1>4. CASE AcceptRecommendation(r)
  <2> DEFINE n == [mem EXCEPT !.rec[r] = "Accepted"]
             w == Update(n, "rec", r)
  <2>1. Begin(<<w>>, "cycle") /\ NotBack(mem.rec[r], "Accepted")
    BY <1>4, OthersGoOn DEF AcceptRecommendation
  <2>2. w.mem = n
    BY DEF Update
  <2> HIDE DEF w
  <2>3. Orderly(mem, <<w>>)
    BY <1>2, <2>1, <2>2, RecommendationInOrder
  <2> QED
    BY <1>1, <2>1, <2>3, OperationInOrder
<1>5. CASE RejectRecommendation(r)
  <2> DEFINE n == [mem EXCEPT !.rec[r] = "Rejected"]
             w == Update(n, "rec", r)
  <2>1. Begin(<<w>>, "nothing") /\ NotBack(mem.rec[r], "Rejected")
    BY <1>5, OthersGoOn DEF RejectRecommendation
  <2>2. w.mem = n
    BY DEF Update
  <2> HIDE DEF w
  <2>3. Orderly(mem, <<w>>)
    BY <1>2, <2>1, <2>2, RecommendationInOrder
  <2> QED
    BY <1>1, <2>1, <2>3, OperationInOrder
<1> QED
  BY <1>3, <1>4, <1>5

LEMMA EventActionsInOrder ==
    ASSUME IInv, OInv, NEW e \in Events,
           \/ UserStarted(e) \/ UserPaused(e) \/ UserResumed(e)
           \/ UserCompleted(e) \/ UserCancelled(e)
    PROVE  InOrder
<1>1. up /\ todo = <<>>
  BY DEF UserStarted, UserPaused, UserResumed, UserCompleted, UserCancelled, Free
<1>2. mem \in States /\ Exclusive(mem)
  BY <1>1, UpFacts
<1>3. CASE UserStarted(e)
  BY <1>1, <1>2, <1>3, StartsInOrder, OperationInOrder DEF UserStarted
<1>4. CASE UserPaused(e)
  BY <1>1, <1>2, <1>4, PausesInOrder, OperationInOrder DEF UserPaused
<1>5. CASE UserResumed(e)
  BY <1>1, <1>2, <1>5, ResumesInOrder, OperationInOrder DEF UserResumed, Suspended
<1>6. CASE UserCompleted(e)
  BY <1>1, <1>2, <1>6, CompletesInOrder, OperationInOrder DEF UserCompleted
<1>7. CASE UserCancelled(e)
  BY <1>1, <1>2, <1>7, CancelsInOrder, OperationInOrder DEF UserCancelled
<1> QED
  BY <1>3, <1>4, <1>5, <1>6, <1>7

LEMMA ReportActionsInOrder ==
    ASSUME IInv, OInv, \/ \E e \in Spontaneous : ReportSpontaneous(e)
                       \/ \E d \in Disturbers : ReportDisturber(d)
    PROVE  InOrder
<1>1. ASSUME NEW e \in Spontaneous, ReportSpontaneous(e) PROVE InOrder
  <2>1. up /\ todo = <<>> /\ mem.event[e] = Absent /\ Begin(Reports(mem, e), "cycle")
    BY <1>1 DEF ReportSpontaneous, Free
  <2>2. Orderly(mem, Reports(mem, e))
    BY <2>1, UpFacts, ReportsInOrder
  <2> QED
    BY <2>1, <2>2, OperationInOrder
<1>2. ASSUME NEW d \in Disturbers, ReportDisturber(d) PROVE InOrder
  <2> DEFINE status == IF mem.context = Idle THEN "Analyzed" ELSE "Applied"
             n == [mem EXCEPT !.disturber[d] = status]
             w == New(n, "disturber", d)
  <2>1. up /\ todo = <<>> /\ mem.disturber[d] = Absent /\ Begin(<<w>>, d)
    BY <1>2 DEF ReportDisturber, Free
  <2>2. w.mem = n
    BY DEF New
  <2> HIDE DEF w, status
  <2>3. Orderly(mem, <<w>>)
    BY <2>1, <2>2, UpFacts, DisturberInOrder
  <2> QED
    BY <2>1, <2>3, OperationInOrder
<1> QED
  BY <1>1, <1>2

LEMMA StepInOrder ==
    ASSUME IInv, OInv, [Next]_vars
    PROVE  OInv' /\ (Writes \/ UNCHANGED disk)
<1>1. CASE Restarts
  BY <1>1, EndsInOrder DEF Restarts
<1>2. CASE Writes
  BY <1>2, WritesGoOn
<1>3. CASE Fails
  BY <1>3, EndsInOrder DEF Fails
<1>4. CASE CycleRefused \/ RunsCycle \/ StartRefused
  BY <1>4, CycleActionsInOrder DEF InOrder
<1>5. CASE \E r \in Recommendations :
               Proposes(r) \/ AcceptRecommendation(r) \/ RejectRecommendation(r)
  BY <1>5, RecommendationActionsInOrder DEF InOrder
<1>6. CASE \E e \in Events :
               \/ UserStarted(e) \/ UserPaused(e) \/ UserResumed(e)
               \/ UserCompleted(e) \/ UserCancelled(e)
  BY <1>6, EventActionsInOrder DEF InOrder
<1>7. CASE (\E e \in Spontaneous : ReportSpontaneous(e)) \/ \E d \in Disturbers : ReportDisturber(d)
  BY <1>7, ReportActionsInOrder DEF InOrder
<1>8. CASE UNCHANGED vars
  BY <1>8, StaysInOrder DEF vars
<1> QED
  BY <1>1, <1>2, <1>3, <1>4, <1>5, <1>6, <1>7, <1>8 DEF Next

LEMMA StoreSteps ==
    ASSUME IInv, OInv, [Next]_vars
    PROVE  Forward /\ OneAtMost /\ (~ahead => SuspendsRunning)
<1>1. CASE Writes
  BY <1>1, WritesGoOn
<1>2. CASE UNCHANGED disk
  BY <1>2, NotBackIsOrder DEF Forward, OneAtMost, SuspendsRunning
<1> QED
  BY <1>1, <1>2, StepInOrder

LEMMA OrderIsKept == Spec => [](IInv /\ OInv)
<1>1. Init => OInv
  BY InitInOrder
<1>2. IInv /\ OInv /\ [Next]_vars => OInv'
  BY StepInOrder
<1>3. Spec => []IInv
  BY Inductive
<1> QED
  BY <1>1, <1>2, <1>3, PTL DEF Spec

-----------------------------------------------------------------------------
(***************************************************************************)
(* The store as an execution slot.                                         *)
(***************************************************************************)

ClosedStates == {"Completed", "Skipped", "Cancelled", "Overtaken", "Archived"}

(* The Event that runs according to the store, those put aside, and those closed. *)
Occupant ==
    IF RunningIn(disk) = {} THEN Idle ELSE CHOOSE e \in RunningIn(disk) : TRUE

Aside == {e \in Events : disk.event[e] \in Suspended}

Closed == {e \in Events : disk.event[e] \in ClosedStates}

Execution == INSTANCE ExecutionSlot WITH
    slot <- Occupant, suspended <- Aside, closed <- Closed

SlotStep == [Execution!Next]_(Execution!slotVars)

LEMMA SlotKept ==
    ASSUME UNCHANGED disk
    PROVE  SlotStep
BY DEF SlotStep, Execution!slotVars, Occupant, Aside, Closed, RunningIn

(* What begins never waits again, and what is closed stays so. *)
LEMMA NeverBackTo ==
    ASSUME NEW a \in EventStatus \cup {Absent}, NEW b \in EventStatus \cup {Absent},
           NotBack(a, b)
    PROVE  /\ a \in RunningStates \cup Suspended =>
                 b \in RunningStates \cup Suspended \cup ClosedStates
           /\ a \in ClosedStates => b = a
           /\ b \in RunningStates => b \notin Suspended \cup ClosedStates
           /\ b \in Suspended => b \notin ClosedStates
BY DEF NotBack, Phase, Final, EventStatus, RunningStates, Suspended, ClosedStates, Absent

(* One stored Event changes, and is the only one that runs before and after. *)
LEMMA SlotStepOfOne ==
    ASSUME disk \in Stores, disk' \in Stores, Forward, OneAtMost, SuspendsRunning,
           \A d, e \in RunningIn(disk) : d = e, \A d, e \in RunningIn(disk') : d = e
    PROVE  SlotStep
<1> DEFINE s == disk.event
           t == disk'.event
<1>1. \A e \in Events : s[e] \in EventStatus \cup {Absent} /\ t[e] \in EventStatus \cup {Absent}
  BY DEF Stores
<1>2. \A e \in Events : NotBack(s[e], t[e])
  BY DEF Forward, Files, Names
<1>3. /\ RunningIn(disk) = {e \in Events : s[e] \in RunningStates}
      /\ RunningIn(disk') = {e \in Events : t[e] \in RunningStates}
      /\ Aside = {e \in Events : s[e] \in Suspended}
      /\ Aside' = {e \in Events : t[e] \in Suspended}
      /\ Closed = {e \in Events : s[e] \in ClosedStates}
      /\ Closed' = {e \in Events : t[e] \in ClosedStates}
  BY DEF RunningIn, Aside, Closed
<1>4. \A d, e \in Events : t[d] # s[d] /\ t[e] # s[e] => d = e
  BY DEF OneAtMost
<1>5. \A e \in Events : t[e] \in Suspended => t[e] = s[e] \/ s[e] \in RunningStates
  BY DEF SuspendsRunning
<1>6. /\ Occupant = IF RunningIn(disk) = {} THEN Idle ELSE CHOOSE e \in RunningIn(disk) : TRUE
      /\ Occupant' = IF RunningIn(disk') = {} THEN Idle ELSE CHOOSE e \in RunningIn(disk') : TRUE
  BY DEF Occupant
<1>7. /\ \A e \in RunningIn(disk) : Occupant = e
      /\ \A e \in RunningIn(disk') : Occupant' = e
      /\ RunningIn(disk) = {} => Occupant = Idle
      /\ RunningIn(disk') = {} => Occupant' = Idle
      /\ RunningIn(disk') = RunningIn(disk) => Occupant' = Occupant
  BY <1>6
<1> HIDE DEF s, t
<1>8. CASE \A e \in Events : t[e] = s[e]
  <2>1. RunningIn(disk') = RunningIn(disk) /\ Aside' = Aside /\ Closed' = Closed
    BY <1>3, <1>8
  <2> QED
    BY <1>7, <2>1 DEF SlotStep, Execution!slotVars
<1>9. ASSUME NEW e \in Events, t[e] # s[e] PROVE SlotStep
  <2>1. \A d \in Events : d # e => t[d] = s[d]
    BY <1>4, <1>9
  <2>2. /\ s[e] \in RunningStates \cup Suspended =>
              t[e] \in RunningStates \cup Suspended \cup ClosedStates
        /\ s[e] \notin ClosedStates
        /\ t[e] \in RunningStates => t[e] \notin Suspended \cup ClosedStates
        /\ t[e] \in Suspended => t[e] \notin ClosedStates
    BY <1>1, <1>2, <1>9, NeverBackTo
  <2>3. RunningStates \cap (Suspended \cup ClosedStates) = {} /\ Suspended \cap ClosedStates = {}
    BY DEF RunningStates, Suspended, ClosedStates
  <2>4. e # Idle
    BY IdleIsNone
  <2>5. CASE s[e] \in RunningStates
    <3>1. RunningIn(disk) = {e} /\ Occupant = e
      BY <1>3, <1>7, <2>5
    <3>2. \A d \in Events : d # e => t[d] \notin RunningStates
      BY <1>3, <2>1, <3>1
    <3>3. CASE t[e] \in RunningStates
      <4>1. Occupant' = e /\ Aside' = Aside /\ Closed' = Closed
        BY <1>3, <1>7, <2>1, <2>3, <2>5, <3>3
      <4> QED
        BY <3>1, <4>1 DEF SlotStep, Execution!slotVars
    <3>4. CASE t[e] \in Suspended
      <4>1. Occupant' = Idle
        BY <1>3, <1>7, <2>3, <3>2, <3>4
      <4>2. Closed' = Closed /\ Aside' = Aside \cup {e}
        BY <1>3, <2>1, <2>2, <2>3, <2>5, <3>4
      <4>3. Execution!Vacate({})
        BY <2>4, <3>1, <4>1, <4>2 DEF Execution!Vacate
      <4> QED
        BY <4>3 DEF SlotStep, Execution!Next
    <3>5. CASE t[e] \in ClosedStates
      <4>1. Occupant' = Idle
        BY <1>3, <1>7, <2>3, <3>2, <3>5
      <4>2. Aside' = Aside /\ Closed' = Closed \cup {e}
        BY <1>3, <2>1, <2>2, <2>3, <2>5, <3>5
      <4>3. Execution!Finish
        BY <2>4, <3>1, <4>1, <4>2 DEF Execution!Finish
      <4> QED
        BY <4>3 DEF SlotStep, Execution!Next
    <3> QED
      BY <2>2, <2>5, <3>3, <3>4, <3>5
  <2>6. CASE s[e] \notin RunningStates /\ t[e] \in RunningStates
    <3>1. RunningIn(disk) = {}
      <4>1. \A d \in RunningIn(disk) : d \in RunningIn(disk') /\ e \in RunningIn(disk') /\ d # e
        BY <1>3, <2>1, <2>6
      <4> QED
        BY <4>1
    <3>2. Occupant = Idle /\ Occupant' = e
      BY <1>3, <1>7, <2>6, <3>1
    <3>3. Closed' = Closed /\ e \notin Closed /\ Aside' = Aside \ {e}
      BY <1>3, <2>1, <2>2, <2>6
    <3>4. Execution!Occupy(e)
      BY <3>2, <3>3 DEF Execution!Occupy
    <3> QED
      BY <3>4 DEF SlotStep, Execution!Next
  <2>7. CASE s[e] \notin RunningStates /\ t[e] \notin RunningStates
    <3>1. RunningIn(disk') = RunningIn(disk) /\ Occupant' = Occupant
      BY <1>3, <1>7, <2>1, <2>7
    <3>2. t[e] \notin Suspended
      BY <1>5, <1>9, <2>7
    <3>3. CASE t[e] \in ClosedStates
      <4>1. Closed' = Closed \cup {e} /\ Aside' = Aside \ {e} /\ e \notin Closed
        BY <1>3, <2>1, <2>2, <3>2, <3>3
      <4>2. Occupant # e
        <5>1. CASE RunningIn(disk) = {}
          BY <1>7, <2>4, <5>1
        <5>2. CASE RunningIn(disk) # {}
          BY <1>3, <1>7, <2>7, <5>2
        <5> QED
          BY <5>1, <5>2
      <4>3. Execution!GiveUp({e}) /\ {e} \in SUBSET (Events \ Closed)
        BY <3>1, <4>1, <4>2 DEF Execution!GiveUp
      <4> QED
        BY <4>3 DEF SlotStep, Execution!Next
    <3>4. CASE t[e] \notin ClosedStates
      <4>1. s[e] \notin Suspended
        BY <2>2, <2>7, <3>2, <3>4
      <4>2. Closed' = Closed /\ Aside' = Aside
        BY <1>3, <2>1, <2>2, <3>2, <3>4, <4>1
      <4> QED
        BY <3>1, <4>2 DEF SlotStep, Execution!slotVars
    <3> QED
      BY <3>3, <3>4
  <2> QED
    BY <2>5, <2>6, <2>7
<1> QED
  BY <1>8, <1>9

LEMMA SlotSteps ==
    ASSUME IInv, IInv', OInv, [Next]_vars, ~ahead
    PROVE  SlotStep
<1>1. CASE UNCHANGED disk
  BY <1>1, SlotKept
<1>2. CASE Writes
  <2>1. ~ahead'
    BY <1>2 DEF Writes
  <2>2. Together /\ Together'
    BY <2>1 DEF IInv
  <2>3. disk \in Stores /\ disk' \in Stores
    BY DEF IInv, Typed
  <2>4. \A d, e \in RunningIn(disk) : d = e
    BY <2>2 DEF Together, RunningIn, Hot
  <2>5. \A d, e \in RunningIn(disk') : d = e
    BY <2>2 DEF Together, RunningIn, Hot
  <2> QED
    BY <2>3, <2>4, <2>5, StoreSteps, SlotStepOfOne
<1> QED
  BY <1>1, <1>2, StepInOrder

-----------------------------------------------------------------------------
(***************************************************************************)
(* The theorems about the order.                                           *)
(***************************************************************************)

(* At whatever write the process ends and whichever write fails, what the store
   says of an Event, a window, a Recommendation or a Disturber never goes back,
   and what is final there stays as it is: no boot and no error undoes anything. *)
THEOREM StoreNeverGoesBack ==
    Spec => [][\A f \in Files : \A x \in Names(f) : NotBack(disk[f][x], disk'[f][x])]_vars
<1>1. IInv /\ OInv /\ [Next]_vars
          => \A f \in Files : \A x \in Names(f) : NotBack(disk[f][x], disk'[f][x])
  BY StoreSteps DEF Forward
<1> QED
  BY <1>1, OrderIsKept, PTL DEF Spec

(* The store alone tells of one execution slot: from write to write an Event takes
   it, is put aside, finishes or is given up, one at a time, as ExecutionSlot has
   it, and an Event that the store has closed never runs again.  An error may leave
   Runtime State ahead of the store; until a boot, no more than the theorem before
   holds then. *)
THEOREM StoreIsOneSlot == Spec => Execution!Init /\ [][~ahead => SlotStep]_vars
<1>1. Init => Execution!Init
  <2> SUFFICES ASSUME Init PROVE Execution!Init
    OBVIOUS
  <2>1. \A e \in Events : disk.event[e] = Absent
    BY DEF Init
  <2>2. RunningIn(disk) = {} /\ Aside = {} /\ Closed = {}
    BY <2>1 DEF RunningIn, Aside, Closed, RunningStates, Suspended, ClosedStates, Absent
  <2> QED
    BY <2>2 DEF Execution!Init, Occupant
<1>2. IInv /\ IInv' /\ OInv /\ [Next]_vars => (~ahead => SlotStep)
  BY SlotSteps
<1> QED
  BY <1>1, <1>2, OrderIsKept, PTL DEF Spec
=============================================================================
