--------------------------- MODULE SessionProofs ----------------------------
(***************************************************************************)
(* The safety properties of Session, for any files and sizes, any window,  *)
(* any limits that satisfy SessionAssumption and any number of changes and *)
(* failures.                                                               *)
(***************************************************************************)
EXTENDS Session, FiniteSetTheorems, SequenceTheorems, WellFoundedInduction, TLAPS

-----------------------------------------------------------------------------
(* Sorted requests.                                                        *)

\* A finite set of numbers that is not empty has a greatest element.
LEMMA HasGreatest ==
    ASSUME NEW S \in SUBSET Nat, IsFiniteSet(S), S # {}
    PROVE  \E m \in S : \A x \in S : x <= m
  <1> DEFINE Bad == {T \in SUBSET S : T # {} /\ ~ \E m \in T : \A x \in T : x <= m}
  <1>1. SUFFICES ASSUME Bad # {} PROVE FALSE
    <2>1. S \notin Bad
      BY <1>1
    <2> QED
      BY <2>1
  <1>2. IsWellFoundedOn(StrictSubsetOrdering(S), SUBSET S)
    BY FS_StrictSubsetOrderingWellFounded, FS_FiniteSubsetsOfFinite
  <1>3. PICK T \in Bad : \A U \in Bad : <<U, T>> \notin StrictSubsetOrdering(S)
    BY <1>1, <1>2, WFMin
  <1>4. PICK y \in T : TRUE
    BY <1>3
  <1>5. T \ {y} \notin Bad
    BY <1>3, <1>4 DEF StrictSubsetOrdering
  <1>6. CASE T \ {y} = {}
    <2>1. \A x \in T : x <= y
      BY <1>4, <1>6
    <2> QED
      BY <1>3, <1>4, <2>1
  <1>7. CASE T \ {y} # {}
    <2>1. PICK m \in T \ {y} : \A x \in T \ {y} : x <= m
      BY <1>3, <1>5, <1>7
    <2>2. m \in Nat /\ y \in Nat
      BY <1>3, <1>4, <2>1
    <2>3. \A x \in T : x <= (IF m < y THEN y ELSE m)
      BY <1>3, <2>1, <2>2
    <2> QED
      BY <1>3, <1>4, <2>1, <2>3
  <1> QED
    BY <1>6, <1>7

\* A finite set of numbers can be put in its order.
Increasing(S) ==
    {fs \in [1..Cardinality(S) -> S] :
        \A i, j \in 1..Cardinality(S) : i < j => fs[i] < fs[j]}

\* Every finite set of numbers has its sorted sequence.
LEMMA HasOrder ==
    ASSUME NEW S \in SUBSET Nat, IsFiniteSet(S)
    PROVE  Increasing(S) # {}
  <1> DEFINE Bad == {T \in SUBSET S : Increasing(T) = {}}
  <1>1. SUFFICES ASSUME Bad # {} PROVE FALSE
    <2>1. S \notin Bad
      BY <1>1
    <2> QED
      BY <2>1
  <1>2. IsWellFoundedOn(StrictSubsetOrdering(S), SUBSET S)
    BY FS_StrictSubsetOrderingWellFounded, FS_FiniteSubsetsOfFinite
  <1>3. PICK T \in Bad : \A U \in Bad : <<U, T>> \notin StrictSubsetOrdering(S)
    BY <1>1, <1>2, WFMin
  <1>4. IsFiniteSet(T) /\ T \subseteq Nat
    BY <1>3, FS_Subset
  <1>5. CASE T = {}
    <2>1. Cardinality(T) = 0
      BY <1>5, FS_EmptySet
    <2>2. [i \in 1..0 |-> 0] \in Increasing(T)
      BY <1>5, <2>1 DEF Increasing
    <2> QED
      BY <1>3, <2>2
  <1>6. CASE T # {}
    <2>1. PICK m \in T : \A x \in T : x <= m
      BY <1>4, <1>6, HasGreatest
    <2>2. T \ {m} \notin Bad
      BY <1>3, <2>1 DEF StrictSubsetOrdering
    <2>3. PICK fs \in Increasing(T \ {m}) : TRUE
      BY <1>3, <2>2
    <2> DEFINE n == Cardinality(T \ {m})
               gs == [i \in 1..(n + 1) |-> IF i <= n THEN fs[i] ELSE m]
    <2>4. n \in Nat /\ Cardinality(T) = n + 1
      <3>1. IsFiniteSet(T \ {m}) /\ Cardinality(T \ {m}) = Cardinality(T) - 1
        BY <1>4, <2>1, FS_RemoveElement
      <3>2. Cardinality(T) \in Nat /\ Cardinality(T \ {m}) \in Nat
        BY <1>4, <3>1, FS_CardinalityType
      <3> QED
        BY <3>1, <3>2
    <2>5. /\ \A i \in 1..n : fs[i] \in T \ {m}
          /\ \A i, j \in 1..n : i < j => fs[i] < fs[j]
      BY <2>3 DEF Increasing
    <2> HIDE DEF n
    <2>6. \A i \in 1..n : fs[i] \in T /\ fs[i] < m
      <3>1. \A x \in T \ {m} : x \in T /\ x < m
        BY <1>4, <2>1
      <3> QED
        BY <2>5, <3>1
    <2>7. gs \in [1..(n + 1) -> T]
      BY <2>1, <2>4, <2>6
    <2>8. \A i, j \in 1..(n + 1) : i < j => gs[i] < gs[j]
      BY <2>4, <2>5, <2>6
    <2>9. gs \in Increasing(T)
      BY <2>4, <2>7, <2>8 DEF Increasing
    <2> QED
      BY <1>3, <2>9
  <1> QED
    BY <1>5, <1>6

\* What Sorted returns: the paths of the set, in their order.
LEMMA SortedOrder ==
    ASSUME NEW S \in SUBSET Files
    PROVE  Cardinality(S) \in Nat /\ Sorted(S) \in Increasing(S)
  <1>1. IsFiniteSet(S) /\ S \in SUBSET Nat
    BY SessionAssumption, FS_Subset
  <1> QED
    BY <1>1, HasOrder, FS_CardinalityType DEF Sorted, Increasing

-----------------------------------------------------------------------------
(* Types.  Every version a session carries was given out before: c is the  *)
(* number of changes so far.                                               *)

Ver(c) == 0..(c + 1)
Req(c) == [path : Files, version : Ver(c)]
Ordered(q) == \A i, j \in 1..Len(q) : i < j => q[i].path < q[j].path
Lists(c) == {q \in Seq(Req(c)) : Len(q) <= MaxTransfers /\ Ordered(q)}
Values(c) == {<<>>} \cup [Files -> Ver(c)] \cup Lists(c) \cup Req(c)
Tags == Exchanged \cup {"File", "FileUnavailable", "Body"}

\* What a unit carries depends on its frame.
Unit(c) ==
    {u \in [tag : Tags, val : Values(c), more : Nat] :
        /\ u.tag = "Manifests" => u.val \in [Files -> Ver(c)]
        /\ u.tag = "Requests" => u.val \in Lists(c)
        /\ u.tag \in {"File", "Body"} => u.val \in Req(c)}

Errors == {"none", "Transport", "CorruptFile", "UnexpectedFrame", "ConnectionLimit",
           "RequestLimit", "UnsolicitedFile"}

StageOK == stage \in [Sides -> Stages] /\ error \in [Sides -> Errors]

StreamOK ==
    /\ out \in [Sides -> Seq(Unit(clock))]
    /\ wire \in [Sides -> Seq(Unit(clock))]
    /\ \A s \in Sides : Len(wire[s]) <= Window

GotOK ==
    /\ got \in [Sides -> [done : BOOLEAN, val : Values(clock)]]
    /\ \A s \in Sides : got[s].done =>
           /\ stage[s] = "Manifests" => got[s].val \in [Files -> Ver(clock)]
           /\ stage[s] = "Requests" => got[s].val \in Lists(clock)

CountsOK == received \in [Sides -> 0..MaxConnection] /\ served \in [Sides -> 0..MaxFileBytes]

ListsOK == want \in [Sides -> Lists(clock)] /\ serve \in [Sides -> Lists(clock)]

BodyOK ==
    /\ body \in [Sides -> Bodies]
    /\ \A s \in Sides : IF body[s].on
                        THEN /\ stage[s] = "Receive" /\ want[s] # <<>>
                             /\ body[s].step # "bytes" => body[s].left = 0
                        ELSE body[s] = NoBody

LocalOK ==
    /\ win \in [Sides -> [Files -> Ver(clock)]]
    /\ disk \in [Sides -> [Files -> Ver(clock)]]
    /\ mat \in [Sides -> [Files -> Ver(clock)]]
    /\ clock \in 0..MaxEdits
    /\ faults \in 0..MaxFaults

TypeInv == StageOK /\ StreamOK /\ GotOK /\ CountsOK /\ ListsOK /\ BodyOK /\ LocalOK

\* The parts together say no less than the type invariant of the model.
LEMMA TypeParts == TypeInv => TypeOK
  <1> SUFFICES ASSUME TypeInv PROVE TypeOK
    OBVIOUS
  <1>1. clock \in 0..MaxEdits /\ MaxEdits \in Nat
    BY SessionAssumption DEF TypeInv, LocalOK
  <1>2. Ver(clock) \subseteq Versions
    BY <1>1 DEF Ver, Versions
  <1>3. Req(clock) \subseteq Requests
    BY <1>2 DEF Req, Requests
  <1>4. \A q \in Lists(clock) : q \in Seq(Requests) /\ Len(q) <= MaxTransfers
    BY <1>3 DEF Lists
  <1>5. \A s \in Sides : /\ Len(wire[s]) <= Window
                         /\ want[s] \in Seq(Requests) /\ Len(want[s]) <= MaxTransfers
                         /\ serve[s] \in Seq(Requests) /\ Len(serve[s]) <= MaxTransfers
    BY <1>4 DEF TypeInv, StreamOK, ListsOK
  <1>6. /\ win \in [Sides -> [Files -> Versions]] /\ disk \in [Sides -> [Files -> Versions]]
        /\ mat \in [Sides -> [Files -> Versions]]
    BY <1>2 DEF TypeInv, LocalOK
  <1> QED
    BY <1>1, <1>5, <1>6 DEF TypeInv, TypeOK, StageOK, CountsOK, GotOK, BodyOK, LocalOK

\* The first request of a list and the rest.
LEMMA ListRest ==
    ASSUME NEW c \in Nat, NEW q \in Lists(c), q # <<>>
    PROVE  /\ Head(q) \in Req(c) /\ Tail(q) \in Lists(c)
           /\ Len(q) \in Nat \ {0} /\ Len(Tail(q)) = Len(q) - 1
  <1>1. q \in Seq(Req(c)) /\ Len(q) <= MaxTransfers /\ Ordered(q)
    BY DEF Lists
  <1>2. /\ Len(q) \in Nat \ {0} /\ Head(q) \in Req(c) /\ Tail(q) \in Seq(Req(c))
        /\ Len(Tail(q)) = Len(q) - 1
    BY <1>1
  <1>3. \A i \in 1..(Len(q) - 1) : Tail(q)[i] = q[i + 1]
    BY <1>1, <1>2
  <1>4. Ordered(Tail(q))
    BY <1>1, <1>2, <1>3 DEF Ordered
  <1> QED
    BY <1>1, <1>2, <1>4, SessionAssumption DEF Lists

\* The empty list is one.
LEMMA EmptyList == \A c \in Nat : <<>> \in Lists(c)
  BY SessionAssumption DEF Lists, Ordered

\* merge_remote_manifests makes requests in the order of their paths.
LEMMA WantedType ==
    ASSUME NEW c \in Nat, NEW merged \in [Files -> Ver(c)], NEW kept, NEW remote
    PROVE  Wanted(merged, kept, remote) \in Seq(Req(c)) /\ Ordered(Wanted(merged, kept, remote))
  <1> DEFINE S == {f \in Files : remote[f] # 0 /\ merged[f] = remote[f] /\ kept[f] = 0}
             fs == Sorted(S)
             n == Cardinality(S)
             q == [i \in 1..Len(fs) |-> FileRequest(fs[i], merged[fs[i]])]
  <1>1. n \in Nat /\ fs \in [1..n -> S] /\ \A i, j \in 1..n : i < j => fs[i] < fs[j]
    BY SortedOrder DEF Increasing
  <1>2. S \subseteq Files
    OBVIOUS
  <1> HIDE DEF S, fs, n
  <1>3. Len(fs) = n
    BY <1>1
  <1>4. \A i \in 1..n : FileRequest(fs[i], merged[fs[i]]) \in Req(c)
    BY <1>1, <1>2 DEF FileRequest, Req
  <1>5. q \in Seq(Req(c)) /\ Len(q) = n
    BY <1>1, <1>3, <1>4
  <1>6. \A i \in 1..n : q[i].path = fs[i]
    BY <1>3 DEF FileRequest
  <1>7. Ordered(q)
    BY <1>1, <1>5, <1>6 DEF Ordered
  <1> QED
    BY <1>5, <1>7 DEF Wanted, S, fs

\* The selection keeps at most MAX_TRANSFERS of them.
LEMMA SelectType ==
    ASSUME NEW c \in Nat, NEW q \in Seq(Req(c)), Ordered(q)
    PROVE  Select(q) \in Lists(c)
  <1> DEFINE fits == {0} \cup {k \in 1..Len(q) :
                         k <= MaxTransfers /\ Bytes(SubSeq(q, 1, k)) <= MaxFileBytes}
             m == CHOOSE k \in fits : \A j \in fits : j <= k
  <1>1. fits \subseteq 0..Len(q) /\ Len(q) \in Nat /\ \A k \in fits : k <= MaxTransfers
    BY SessionAssumption
  <1>0. 0 \in fits
    OBVIOUS
  <1> HIDE DEF fits
  <1>2. IsFiniteSet(fits)
    <2>1. IsFiniteSet(0..Len(q))
      BY <1>1, FS_Interval
    <2> QED
      BY <1>1, <2>1, FS_Subset
  <1>3. \E k \in fits : \A j \in fits : j <= k
    <2>1. fits \in SUBSET Nat /\ fits # {}
      BY <1>0, <1>1
    <2> QED
      BY <1>2, <2>1, HasGreatest
  <1>4. m \in fits
    BY <1>3
  <1> HIDE DEF m
  <1>5. m \in 0..Len(q) /\ m <= MaxTransfers
    BY <1>1, <1>4
  <1>6. /\ SubSeq(q, 1, m) \in Seq(Req(c)) /\ Len(SubSeq(q, 1, m)) = m
        /\ \A i \in 1..m : SubSeq(q, 1, m)[i] = q[i]
    BY <1>1, <1>5
  <1>7. SubSeq(q, 1, m) \in Lists(c)
    <2>1. Ordered(SubSeq(q, 1, m))
      BY <1>1, <1>5, <1>6 DEF Ordered
    <2> QED
      BY <1>5, <1>6, <2>1 DEF Lists
  <1> QED
    BY <1>7 DEF Select, fits, m

\* The units of a frame, one by one.
LEMMA UnitsType ==
    ASSUME NEW c \in Nat, NEW n \in Nat, NEW tag \in Tags, NEW val \in Values(c),
           tag = "Manifests" => val \in [Files -> Ver(c)],
           tag = "Requests" => val \in Lists(c),
           tag \in {"File", "Body"} => val \in Req(c)
    PROVE  /\ Units(tag, val, n) \in Seq(Unit(c)) /\ Len(Units(tag, val, n)) = n
           /\ \A i \in 1..n : Units(tag, val, n)[i] = [tag |-> tag, val |-> val, more |-> n - i]
  <1>1. \A i \in 1..n : [tag |-> tag, val |-> val, more |-> n - i] \in Unit(c)
    BY DEF Unit
  <1> QED
    BY <1>1 DEF Units

\* Every value of a step is typed by the number of changes after it: a version
\* that was given out stays one.
LEMMA Grows ==
    ASSUME NEW c \in Nat
    PROVE  /\ Ver(c) \subseteq Ver(c + 1)
           /\ [Files -> Ver(c)] \subseteq [Files -> Ver(c + 1)]
           /\ Req(c) \subseteq Req(c + 1)
           /\ Lists(c) \subseteq Lists(c + 1)
           /\ Values(c) \subseteq Values(c + 1)
           /\ Unit(c) \subseteq Unit(c + 1)
           /\ Seq(Unit(c)) \subseteq Seq(Unit(c + 1))
  <1>1. Ver(c) \subseteq Ver(c + 1)
    BY DEF Ver
  <1>2. [Files -> Ver(c)] \subseteq [Files -> Ver(c + 1)]
    BY <1>1
  <1>3. Req(c) \subseteq Req(c + 1)
    BY <1>1 DEF Req
  <1>4. Lists(c) \subseteq Lists(c + 1)
    <2>1. Seq(Req(c)) \subseteq Seq(Req(c + 1))
      BY <1>3
    <2> QED
      BY <2>1 DEF Lists
  <1>5. Values(c) \subseteq Values(c + 1)
    BY <1>2, <1>3, <1>4 DEF Values
  <1>6. Unit(c) \subseteq Unit(c + 1)
    BY <1>2, <1>3, <1>4, <1>5 DEF Unit
  <1> QED
    BY <1>1, <1>2, <1>3, <1>4, <1>5, <1>6

\* The initial states are typed.
LEMMA InitType == Init => TypeInv
  <1> SUFFICES ASSUME Init PROVE TypeInv
    OBVIOUS
  <1>1. StageOK /\ CountsOK
    BY SessionAssumption DEF Init, StageOK, CountsOK, Stages, Ended, Errors
  <1>2. clock = 0 /\ clock \in Nat
    BY DEF Init
  <1>3. StreamOK /\ ListsOK
    BY <1>2, EmptyList, SessionAssumption DEF Init, StreamOK, ListsOK
  <1>4. GotOK
    BY DEF Init, GotOK, NoFrame, Values
  <1>5. BodyOK
    BY SessionAssumption DEF Init, BodyOK, NoBody, Bodies
  <1>6. LocalOK
    <2>1. PICK owner \in [Files -> Sides] :
              disk = [s \in Sides |-> [f \in Files |-> IF owner[f] = s THEN 1 ELSE 0]]
      BY DEF Init
    <2>2. win = disk /\ mat = disk /\ Ver(clock) = 0..1 /\ faults = 0
      BY <1>2 DEF Init, Ver
    <2>3. disk \in [Sides -> [Files -> Ver(clock)]]
      BY <2>1, <2>2
    <2> QED
      BY <1>2, <2>2, <2>3, SessionAssumption DEF LocalOK
  <1> QED
    BY <1>1, <1>3, <1>4, <1>5, <1>6 DEF TypeInv

\* What a step leaves alone stays typed.
LEMMA Frames ==
    ASSUME TypeInv, UNCHANGED clock
    PROVE  /\ UNCHANGED <<stage, error>> => StageOK'
           /\ UNCHANGED <<out, wire>> => StreamOK'
           /\ UNCHANGED <<stage, got>> => GotOK'
           /\ UNCHANGED <<received, served>> => CountsOK'
           /\ UNCHANGED <<want, serve>> => ListsOK'
           /\ UNCHANGED <<stage, want, body>> => BodyOK'
           /\ UNCHANGED <<localVars, faults>> => LocalOK'
  <1>1. UNCHANGED <<stage, error>> => StageOK'
    BY DEF TypeInv, StageOK
  <1>2. UNCHANGED <<out, wire>> => StreamOK'
    BY DEF TypeInv, StreamOK
  <1>3. UNCHANGED <<stage, got>> => GotOK'
    BY DEF TypeInv, GotOK
  <1>4. UNCHANGED <<received, served>> => CountsOK'
    BY DEF TypeInv, CountsOK
  <1>5. UNCHANGED <<want, serve>> => ListsOK'
    BY DEF TypeInv, ListsOK
  <1>6. UNCHANGED <<stage, want, body>> => BodyOK'
    BY DEF TypeInv, BodyOK
  <1>7. UNCHANGED <<localVars, faults>> => LocalOK'
    BY DEF TypeInv, LocalOK, localVars
  <1> QED
    BY <1>1, <1>2, <1>3, <1>4, <1>5, <1>6, <1>7

\* A side that fails leaves nothing behind but its bytes on the wire.
LEMMA FailType ==
    ASSUME TypeInv, NEW s \in Sides, NEW why \in Errors, Fail(s, why), UNCHANGED <<clock, wire>>
    PROVE  StageOK' /\ StreamOK' /\ GotOK' /\ ListsOK' /\ BodyOK'
  <1>0. clock \in Nat
    BY SessionAssumption DEF TypeInv, LocalOK
  <1>1. StageOK'
    BY DEF TypeInv, StageOK, Fail, Stages, Ended
  <1>2. StreamOK'
    BY DEF TypeInv, StreamOK, Fail
  <1>3. GotOK'
    <2>1. NoFrame \in [done : BOOLEAN, val : Values(clock)] /\ ~NoFrame.done
      BY DEF NoFrame, Values
    <2>2. got' = [got EXCEPT ![s] = NoFrame] /\ stage' = [stage EXCEPT ![s] = "failed"]
      BY DEF Fail
    <2> QED
      BY <2>1, <2>2 DEF TypeInv, GotOK, StageOK
  <1>4. ListsOK'
    BY <1>0, EmptyList DEF TypeInv, ListsOK, Fail
  <1>5. BodyOK'
    <2>1. NoBody \in Bodies /\ ~NoBody.on
      BY SessionAssumption DEF NoBody, Bodies
    <2>2. /\ body' = [body EXCEPT ![s] = NoBody] /\ stage' = [stage EXCEPT ![s] = "failed"]
          /\ want' = [want EXCEPT ![s] = <<>>]
      BY DEF Fail
    <2> QED
      BY <2>1, <2>2 DEF TypeInv, BodyOK, StageOK, ListsOK
  <1> QED
    BY <1>1, <1>2, <1>3, <1>4, <1>5

\* A side that enters its next stage has that stage's frame to write.
LEMMA EnterType ==
    ASSUME TypeInv, NEW s \in Sides, NEW st \in Stages, NEW units \in Seq(Unit(clock)),
           Enter(s, st, units), UNCHANGED <<clock, wire, error>>
    PROVE  /\ StageOK' /\ StreamOK' /\ GotOK'
           /\ ~body[s].on /\ UNCHANGED body /\ (\A t \in Sides \ {s} : want'[t] = want[t]) => BodyOK'
  <1>1. StageOK'
    BY DEF TypeInv, StageOK, Enter
  <1>2. StreamOK'
    BY DEF TypeInv, StreamOK, Enter
  <1>3. GotOK'
    <2>1. NoFrame \in [done : BOOLEAN, val : Values(clock)] /\ ~NoFrame.done
      BY DEF NoFrame, Values
    <2>2. got' = [got EXCEPT ![s] = NoFrame] /\ stage' = [stage EXCEPT ![s] = st]
      BY DEF Enter
    <2> QED
      BY <2>1, <2>2 DEF TypeInv, GotOK, StageOK
  <1>4. ASSUME ~body[s].on, UNCHANGED body, \A t \in Sides \ {s} : want'[t] = want[t]
        PROVE  BodyOK'
    <2>1. \A t \in Sides \ {s} : stage'[t] = stage[t]
      BY DEF Enter, TypeInv, StageOK
    <2> QED
      BY <1>4, <2>1 DEF TypeInv, BodyOK
  <1> QED
    BY <1>1, <1>2, <1>3, <1>4

\* What WriteUnit puts on the wire: the unit, or for the body of a file the
\* bytes that are in the file now.
LEMMA Written ==
    ASSUME TypeInv, NEW s \in Sides, WriteUnit(s)
    PROVE  \E u \in Unit(clock) :
              /\ wire' = [wire EXCEPT ![s] = Append(wire[s], u)]
              /\ u.tag = Head(out[s]).tag /\ u.more = Head(out[s]).more
              /\ u.tag # "Body" => u = Head(out[s])
  <1> DEFINE h == Head(out[s])
  <1>1. h \in Unit(clock)
    BY DEF TypeInv, StreamOK, WriteUnit
  <1>2. PICK v \in IF h.tag = "Body" THEN {h.val.version, disk[s][h.val.path]} ELSE {0} :
            wire' = [wire EXCEPT ![s] =
                Append(wire[s], IF h.tag = "Body" THEN [h EXCEPT !.val.version = v] ELSE h)]
    BY DEF WriteUnit
  <1> HIDE DEF h
  <1>3. CASE h.tag = "Body"
    <2>1. h.val \in Req(clock)
      BY <1>1, <1>3 DEF Unit
    <2>2. v \in Ver(clock)
      BY <1>2, <1>3, <2>1 DEF Req, TypeInv, LocalOK
    <2>3. [h.val EXCEPT !.version = v] \in Req(clock)
      BY <2>1, <2>2 DEF Req
    <2>4. [h EXCEPT !.val.version = v] = [h EXCEPT !.val = [h.val EXCEPT !.version = v]]
      OBVIOUS
    <2>5. [h EXCEPT !.val = [h.val EXCEPT !.version = v]] \in Unit(clock)
      BY <1>1, <1>3, <2>3 DEF Unit, Values
    <2>6. /\ [h EXCEPT !.val = [h.val EXCEPT !.version = v]].tag = h.tag
          /\ [h EXCEPT !.val = [h.val EXCEPT !.version = v]].more = h.more
      BY <1>1 DEF Unit
    <2> QED
      BY <1>2, <1>3, <2>4, <2>5, <2>6 DEF h
  <1>4. CASE h.tag # "Body"
    BY <1>1, <1>2, <1>4 DEF h
  <1> QED
    BY <1>3, <1>4

\* Writing and reading units keeps the types.
LEMMA UnitStepType ==
    ASSUME TypeInv, NEW s \in Sides, WriteUnit(s) \/ ReadUnit(s)
    PROVE  TypeInv'
  <1> USE DEF TypeInv
  <1>0. Peer(s) \in Sides /\ clock \in Nat
    BY SessionAssumption DEF Peer, Sides, LocalOK
  <1>1. CASE WriteUnit(s)
    <2>1. PICK u \in Unit(clock) : wire' = [wire EXCEPT ![s] = Append(wire[s], u)]
      BY <1>1, Written
    <2>2. /\ out' = [out EXCEPT ![s] = Tail(out[s])] /\ out[s] # <<>>
          /\ Len(wire[s]) < Window /\ UNCHANGED clock
      BY <1>1 DEF WriteUnit
    <2>3. /\ Tail(out[s]) \in Seq(Unit(clock)) /\ Append(wire[s], u) \in Seq(Unit(clock))
          /\ Len(Append(wire[s], u)) = Len(wire[s]) + 1 /\ Len(wire[s]) \in Nat
      BY <2>1, <2>2 DEF StreamOK
    <2>4. StreamOK'
      BY <2>1, <2>2, <2>3, SessionAssumption DEF StreamOK
    <2> QED
      BY <1>1, <2>4, Frames DEF WriteUnit, fileVars
  <1>2. CASE ReadUnit(s)
    <2> DEFINE u == Head(wire[Peer(s)])
               n == IF stage[s] = "Fin" THEN 0 ELSE 1
    <2>1. wire[Peer(s)] # <<>> /\ UNCHANGED <<localVars, clock, faults>> /\ ~got[s].done
      BY <1>2 DEF ReadUnit
    <2>2. u \in Unit(clock)
      BY <1>0, <2>1 DEF StreamOK
    <2>3. CASE u.tag # stage[s] \/ ~Counts(s, n)
      <3>1. PICK why \in Errors : Fail(s, why)
        BY <1>2, <2>3 DEF ReadUnit, Errors
      <3>2. UNCHANGED <<wire, received, served>>
        BY <1>2, <2>3 DEF ReadUnit
      <3> QED
        BY <2>1, <3>1, <3>2, FailType, Frames
    <2>4. CASE ~(u.tag # stage[s] \/ ~Counts(s, n))
      <3>1. /\ wire' = [wire EXCEPT ![Peer(s)] = Tail(wire[Peer(s)])]
            /\ received' = [received EXCEPT ![s] = received[s] + n]
            /\ got' = [got EXCEPT ![s] = [done |-> u.more = 0, val |-> u.val]]
            /\ UNCHANGED <<stage, out, fileVars, error>>
        BY <1>2, <2>4 DEF ReadUnit
      <3>2. StreamOK'
        <4>1. /\ Tail(wire[Peer(s)]) \in Seq(Unit(clock))
              /\ Len(Tail(wire[Peer(s)])) = Len(wire[Peer(s)]) - 1
              /\ Len(wire[Peer(s)]) \in Nat
          BY <1>0, <2>1 DEF StreamOK
        <4> QED
          BY <1>0, <2>1, <3>1, <4>1, SessionAssumption DEF StreamOK
      <3>3. GotOK'
        <4>1. [done |-> u.more = 0, val |-> u.val] \in [done : BOOLEAN, val : Values(clock)]
          BY <2>2 DEF Unit
        <4>2. /\ stage[s] = "Manifests" => u.val \in [Files -> Ver(clock)]
              /\ stage[s] = "Requests" => u.val \in Lists(clock)
          BY <2>2, <2>4 DEF Unit
        <4> HIDE DEF u
        <4>3. got' \in [Sides -> [done : BOOLEAN, val : Values(clock)]]
          BY <3>1, <4>1 DEF GotOK
        <4>4. got'[s].val = u.val /\ \A t \in Sides \ {s} : got'[t] = got[t]
          BY <3>1 DEF GotOK
        <4> QED
          BY <2>1, <3>1, <4>2, <4>3, <4>4 DEF GotOK
      <3>4. CountsOK'
        BY <2>4, <3>1, SessionAssumption DEF CountsOK, Counts, fileVars
      <3> QED
        BY <2>1, <3>1, <3>2, <3>3, <3>4, Frames DEF fileVars
    <2> QED
      BY <2>3, <2>4
  <1> QED
    BY <1>1, <1>2

\* The records after a merge or a scan.
LEMMA MergedType ==
    ASSUME TypeInv, NEW s \in Sides, NEW remote \in [Files -> Ver(clock)]
    PROVE  /\ Merged(s, remote) \in [Files -> Ver(clock)]
           /\ \A f \in Files : Merged(s, remote)[f] >= win[s][f]
  <1>1. win[s] \in [Files -> Ver(clock)] /\ Ver(clock) \subseteq Int
    BY SessionAssumption DEF TypeInv, LocalOK, Ver
  <1> QED
    BY <1>1 DEF Merged

\* The frames of the exchanges.
LEMMA FrameType ==
    ASSUME NEW c \in Nat
    PROVE  /\ \A tag \in {"Hello", "Roster", "Done", "Fin"} : Frame(tag, <<>>) \in Seq(Unit(c))
           /\ \A val \in [Files -> Ver(c)] : Frame("Manifests", val) \in Seq(Unit(c))
           /\ \A val \in Lists(c) : Frame("Requests", val) \in Seq(Unit(c))
  <1>1. FrameUnits \in Nat
    BY SessionAssumption
  <1>2. ASSUME NEW tag \in {"Hello", "Roster", "Done", "Fin"} PROVE Frame(tag, <<>>) \in Seq(Unit(c))
    <2>1. <<>> \in Values(c) /\ tag \in Tags
      BY DEF Values, Tags, Exchanged
    <2> QED
      BY <1>1, <2>1, UnitsType DEF Frame
  <1>3. ASSUME NEW val \in [Files -> Ver(c)] PROVE Frame("Manifests", val) \in Seq(Unit(c))
    <2>1. val \in Values(c) /\ "Manifests" \in Tags
      BY DEF Values, Tags, Exchanged
    <2> QED
      BY <1>1, <2>1, UnitsType DEF Frame
  <1>4. ASSUME NEW val \in Lists(c) PROVE Frame("Requests", val) \in Seq(Unit(c))
    <2>1. val \in Values(c) /\ "Requests" \in Tags
      BY DEF Values, Tags, Exchanged
    <2> QED
      BY <1>1, <2>1, UnitsType DEF Frame
  <1> QED
    BY <1>2, <1>3, <1>4

\* The end of an exchange, and of each half of the file phase.
LEMMA StageStepType ==
    ASSUME TypeInv, NEW s \in Sides,
           \/ HelloDone(s) \/ RosterDone(s) \/ ManifestsDone(s) \/ RequestsDone(s)
           \/ FilesDone(s) \/ DoneDone(s) \/ SessionOk(s)
    PROVE  TypeInv'
  <1> USE DEF TypeInv
  <1>0. clock \in Nat /\ win[s] \in [Files -> Ver(clock)]
    BY SessionAssumption DEF LocalOK
  <1>01. stage[s] # "Receive" => ~body[s].on
    BY DEF BodyOK
  <1>1. CASE HelloDone(s)
    <2>1. /\ Enter(s, "Roster", RosterBundle) /\ stage[s] = "Hello"
          /\ UNCHANGED <<wire, received, fileVars, error, localVars, clock, faults>>
      BY <1>1 DEF HelloDone, ExchangeDone
    <2>2. RosterBundle \in Seq(Unit(clock)) /\ "Roster" \in Stages
      BY <1>0, FrameType DEF RosterBundle, Stages, Exchanged
    <2> QED
      BY <1>01, <2>1, <2>2, EnterType, Frames DEF fileVars
  <1>2. CASE RosterDone(s)
    <2>1. /\ Enter(s, "Manifests", ManifestBundle(s)) /\ stage[s] = "Roster"
          /\ UNCHANGED <<wire, received, fileVars, error, localVars, clock, faults>>
      BY <1>2 DEF RosterDone, ExchangeDone
    <2>2. ManifestBundle(s) \in Seq(Unit(clock)) /\ "Manifests" \in Stages
      BY <1>0, FrameType DEF ManifestBundle, Stages, Exchanged
    <2> QED
      BY <1>01, <2>1, <2>2, EnterType, Frames DEF fileVars
  <1>3. CASE ManifestsDone(s)
    <2> DEFINE remote == got[s].val
               merged == Merged(s, remote)
               kept == Kept(s, merged)
               selected == Select(Wanted(merged, kept, remote))
    <2>1. /\ stage[s] = "Manifests" /\ got[s].done
          /\ win' = [win EXCEPT ![s] = merged]
          /\ mat' = [mat EXCEPT ![s] = kept]
          /\ want' = [want EXCEPT ![s] = selected]
          /\ Enter(s, "Requests", Frame("Requests", selected))
          /\ UNCHANGED <<wire, received, serve, served, body, error, disk, clock, faults>>
      BY <1>3 DEF ManifestsDone, ExchangeDone
    <2>2. remote \in [Files -> Ver(clock)]
      BY <2>1 DEF GotOK
    <2>3. merged \in [Files -> Ver(clock)]
      BY <2>2, MergedType
    <2>4. selected \in Lists(clock)
      BY <1>0, <2>3, WantedType, SelectType
    <2>5. kept \in [Files -> Ver(clock)]
      BY <1>0 DEF LocalOK, Kept, Ver
    <2> HIDE DEF selected, merged, kept, remote
    <2>6. Frame("Requests", selected) \in Seq(Unit(clock)) /\ "Requests" \in Stages
      BY <1>0, <2>4, FrameType DEF Stages, Exchanged
    <2>7. StageOK' /\ StreamOK' /\ GotOK' /\ BodyOK'
      BY <1>01, <2>1, <2>6, EnterType DEF ListsOK
    <2>8. ListsOK'
      BY <2>1, <2>4 DEF ListsOK
    <2>9. LocalOK'
      BY <2>1, <2>3, <2>5 DEF LocalOK
    <2> QED
      BY <2>1, <2>7, <2>8, <2>9, Frames
  <1>4. CASE RequestsDone(s)
    <2>1. /\ stage[s] = "Requests" /\ got[s].done
          /\ UNCHANGED <<wire, received, served, localVars, clock, faults>>
      BY <1>4 DEF RequestsDone, ExchangeDone
    <2>2. CASE Fail(s, "RequestLimit")
      BY <2>1, <2>2, FailType, Frames DEF Errors
    <2>3. CASE /\ serve' = [serve EXCEPT ![s] = got[s].val]
               /\ Enter(s, Order(s)[1], <<>>)
               /\ UNCHANGED <<want, body, error>>
      <3>1. Order(s)[1] \in Stages /\ <<>> \in Seq(Unit(clock))
        BY DEF Order, Stages
      <3>2. ListsOK'
        BY <2>1, <2>3 DEF ListsOK, GotOK
      <3> QED
        BY <1>01, <2>1, <2>3, <3>1, <3>2, EnterType, Frames
    <2> QED
      BY <1>4, <2>2, <2>3 DEF RequestsDone
  <1>5. CASE FilesDone(s)
    <2>1. ~body[s].on /\ UNCHANGED <<wire, received, fileVars, error, localVars, clock, faults>>
      BY <1>5 DEF FilesDone, BodyOK
    <2>2. \E st \in Stages, units \in Seq(Unit(clock)) : Enter(s, st, units)
      <3>1. Frame("Done", <<>>) \in Seq(Unit(clock)) /\ <<>> \in Seq(Unit(clock))
        BY <1>0, FrameType
      <3>2. Order(s)[2] \in Stages /\ "Done" \in Stages
        BY DEF Order, Stages, Exchanged
      <3> QED
        BY <1>5, <3>1, <3>2 DEF FilesDone
    <2> QED
      BY <2>1, <2>2, EnterType, Frames DEF fileVars
  <1>6. CASE DoneDone(s)
    <2>1. /\ Enter(s, "Fin", Frame("Fin", <<>>)) /\ stage[s] = "Done"
          /\ UNCHANGED <<wire, received, fileVars, error, localVars, clock, faults>>
      BY <1>6 DEF DoneDone, ExchangeDone
    <2>2. Frame("Fin", <<>>) \in Seq(Unit(clock)) /\ "Fin" \in Stages
      BY <1>0, FrameType DEF Stages, Exchanged
    <2> QED
      BY <1>01, <2>1, <2>2, EnterType, Frames DEF fileVars
  <1>7. CASE SessionOk(s)
    <2>1. /\ stage[s] = "Fin" /\ out[s] = <<>>
          /\ stage' = [stage EXCEPT ![s] = "ok"] /\ got' = [got EXCEPT ![s] = NoFrame]
          /\ UNCHANGED <<out, wire, received, fileVars, error, localVars, clock, faults>>
      BY <1>7 DEF SessionOk, PeerFinished, ExchangeDone
    <2>2. Enter(s, "ok", <<>>)
      BY <2>1 DEF Enter, StreamOK
    <2>3. <<>> \in Seq(Unit(clock)) /\ "ok" \in Stages
      BY DEF Stages, Ended
    <2> QED
      BY <1>01, <2>1, <2>2, <2>3, EnterType, Frames DEF fileVars
  <1> QED
    BY <1>1, <1>2, <1>3, <1>4, <1>5, <1>6, <1>7

\* A file fits one session.
LEMMA SizeType == \A f \in Files : Size[f] \in 0..MaxFileBytes
  <1>1. Size \in [Files -> Nat] /\ MaxFileBytes \in Nat /\ \A f \in Files : Size[f] <= MaxFileBytes
    BY SessionAssumption
  <1> QED
    BY <1>1

\* The answer to a request: a header with the size and the bytes, or none.
LEMMA AnswerType ==
    ASSUME NEW c \in Nat, NEW r \in Req(c)
    PROVE  /\ Units("File", r, 1) \o FileBody(r) \in Seq(Unit(c))
           /\ Units("FileUnavailable", <<>>, 1) \in Seq(Unit(c))
  <1>1. r \in Values(c) /\ <<>> \in Values(c) /\ {"File", "Body", "FileUnavailable"} \subseteq Tags
    BY DEF Values, Tags
  <1>2. Size[r.path] \in Nat
    BY SessionAssumption DEF Req
  <1>3. Units("File", r, 1) \in Seq(Unit(c)) /\ Units("Body", r, Size[r.path]) \in Seq(Unit(c))
    BY <1>1, <1>2, UnitsType
  <1>4. Units("FileUnavailable", <<>>, 1) \in Seq(Unit(c))
    BY <1>1, UnitsType
  <1> QED
    BY <1>3, <1>4 DEF FileBody

\* The steps of the file phase.
LEMMA FileStepType ==
    ASSUME TypeInv, NEW s \in Sides,
           \/ SendFile(s) \/ ReceiveHeader(s) \/ ReceiveBody(s)
           \/ ApplyFile(s) \/ InstallFile(s) \/ MarkFile(s) \/ ApplyFails(s)
    PROVE  TypeInv'
  <1> USE DEF TypeInv
  <1>0. clock \in Nat /\ Peer(s) \in Sides /\ MaxFileBytes \in Nat /\ MaxConnection \in Nat
    BY SessionAssumption DEF LocalOK, Peer, Sides
  <1>1. CASE SendFile(s)
    <2> DEFINE r == Head(serve[s])
               have == FileRequest(r.path, win[s][r.path])
    <2>1. /\ serve[s] # <<>> /\ serve' = [serve EXCEPT ![s] = Tail(serve[s])]
          /\ UNCHANGED <<stage, got, wire, received, want, body, error, win, disk, clock, faults>>
      BY <1>1 DEF SendFile
    <2>2. r \in Req(clock) /\ Tail(serve[s]) \in Lists(clock)
      BY <1>0, <2>1, ListRest DEF ListsOK
    <2>3. have \in Req(clock) /\ Size[r.path] \in Nat
      BY <2>2, SessionAssumption DEF FileRequest, Req, LocalOK
    <2>4. ListsOK'
      BY <2>1, <2>2 DEF ListsOK
    <2>5. CASE Holds(s, r) /\ served[s] + Size[r.path] <= MaxFileBytes
      <3>1. /\ out' = [out EXCEPT ![s] = Units("File", have, 1) \o FileBody(have)]
            /\ served' = [served EXCEPT ![s] = served[s] + Size[r.path]]
            /\ UNCHANGED mat
        BY <1>1, <2>5 DEF SendFile
      <3> HIDE DEF r, have
      <3>2. StreamOK'
        BY <1>0, <2>1, <2>3, <3>1, AnswerType DEF StreamOK
      <3>3. CountsOK'
        BY <1>0, <2>1, <2>3, <2>5, <3>1 DEF CountsOK
      <3> QED
        BY <2>1, <2>4, <3>1, <3>2, <3>3, Frames DEF localVars
    <2>6. CASE ~(Holds(s, r) /\ served[s] + Size[r.path] <= MaxFileBytes)
      <3>1. /\ out' = [out EXCEPT ![s] = Units("FileUnavailable", <<>>, 1)]
            /\ mat' = [mat EXCEPT ![s] = [mat[s] EXCEPT ![r.path] =
                                           IF LostBytes(s, r) THEN 0 ELSE mat[s][r.path]]]
            /\ UNCHANGED served
        BY <1>1, <2>6 DEF SendFile
      <3> HIDE DEF r, have
      <3>2. StreamOK'
        BY <1>0, <2>1, <2>3, <3>1, AnswerType DEF StreamOK
      <3>3. LocalOK'
        <4>1. r.path \in Files /\ 0 \in Ver(clock)
          BY <1>0, <2>2 DEF Req, Ver, r
        <4>2. mat' \in [Sides -> [Files -> Ver(clock)]]
          BY <3>1, <4>1 DEF LocalOK
        <4> QED
          BY <2>1, <4>2 DEF LocalOK
      <3> QED
        BY <2>1, <2>4, <3>1, <3>2, <3>3, Frames
    <2> QED
      BY <2>5, <2>6
  <1>2. CASE ReceiveHeader(s)
    <2> DEFINE u == Head(wire[Peer(s)])
               r == Head(want[s])
               n == IF u.tag = "File" THEN 1 + Size[r.path] ELSE 1
    <2>1. /\ stage[s] = "Receive" /\ want[s] # <<>> /\ ~body[s].on /\ wire[Peer(s)] # <<>>
          /\ UNCHANGED <<served, localVars, clock, faults>>
      BY <1>2 DEF ReceiveHeader
    <2>2. r \in Req(clock) /\ Tail(want[s]) \in Lists(clock)
      BY <1>0, <2>1, ListRest DEF ListsOK
    <2>3. Size[r.path] \in 0..MaxFileBytes
      <3>1. r.path \in Files
        BY <2>2 DEF Req
      <3> QED
        BY <3>1, SizeType
    <2>4. CASE Counts(s, n) /\ (Answers(r, u) \/ u.tag = "FileUnavailable")
      <3>1. /\ wire' = [wire EXCEPT ![Peer(s)] = Tail(wire[Peer(s)])]
            /\ received' = [received EXCEPT ![s] = received[s] + n]
            /\ UNCHANGED <<stage, out, got, serve, error>>
        BY <1>2, <2>4 DEF ReceiveHeader
      <3>2. StreamOK'
        <4>1. /\ Tail(wire[Peer(s)]) \in Seq(Unit(clock))
              /\ Len(Tail(wire[Peer(s)])) = Len(wire[Peer(s)]) - 1
              /\ Len(wire[Peer(s)]) \in Nat
          BY <1>0, <2>1 DEF StreamOK
        <4> QED
          BY <1>0, <2>1, <3>1, <4>1, SessionAssumption DEF StreamOK
      <3>3. CountsOK'
        <4>1. n \in Nat /\ received[s] + n <= MaxConnection
          BY <1>0, <2>3, <2>4 DEF Counts
        <4> HIDE DEF n
        <4> QED
          BY <1>0, <2>1, <3>1, <4>1 DEF CountsOK
      <3>4. ListsOK' /\ BodyOK'
        <4>1. CASE u.tag = "File"
          <5>1. /\ body' = [body EXCEPT ![s] = [on |-> TRUE, left |-> Size[r.path], good |-> TRUE,
                                                step |-> "bytes"]]
                /\ UNCHANGED want
            BY <1>2, <2>4, <4>1 DEF ReceiveHeader, Remaining
          <5>2. ASSUME NEW k \in 0..MaxFileBytes
                PROVE  [on |-> TRUE, left |-> k, good |-> TRUE, step |-> "bytes"] \in Bodies
            BY DEF Bodies
          <5>3. body' \in [Sides -> Bodies]
            BY <2>3, <5>1, <5>2 DEF BodyOK
          <5>4. \A t \in Sides \ {s} : body'[t] = body[t]
            BY <5>1 DEF BodyOK
          <5> QED
            BY <2>1, <3>1, <5>1, <5>3, <5>4 DEF BodyOK, ListsOK
        <4>2. CASE u.tag # "File"
          <5>1. want' = [want EXCEPT ![s] = Tail(want[s])] /\ UNCHANGED body
            BY <1>2, <2>4, <4>2 DEF ReceiveHeader
          <5>2. ListsOK' /\ \A t \in Sides \ {s} : want'[t] = want[t]
            BY <2>1, <2>2, <3>1, <5>1 DEF ListsOK
          <5> QED
            BY <2>1, <3>1, <5>1, <5>2 DEF BodyOK
        <4> QED
          BY <4>1, <4>2
      <3> QED
        BY <2>1, <3>1, <3>2, <3>3, <3>4, Frames
    <2>5. CASE ~(Counts(s, n) /\ (Answers(r, u) \/ u.tag = "FileUnavailable"))
      <3>1. PICK why \in Errors : Fail(s, why)
        BY <1>2, <2>5 DEF ReceiveHeader, Errors
      <3>2. UNCHANGED <<wire, received>>
        BY <1>2, <2>5 DEF ReceiveHeader
      <3> QED
        BY <2>1, <3>1, <3>2, FailType, Frames
    <2> QED
      BY <2>4, <2>5
  <1>3. CASE ReceiveBody(s)
    <2> DEFINE u == Head(wire[Peer(s)])
               g == (body[s].good /\ u.val.version = Head(want[s]).version)
    <2>1. /\ body[s].on /\ body[s].left > 0 /\ wire[Peer(s)] # <<>>
          /\ wire' = [wire EXCEPT ![Peer(s)] = Tail(wire[Peer(s)])]
          /\ UNCHANGED <<stage, out, got, received, want, serve, served, error,
                         localVars, clock, faults>>
      BY <1>3 DEF ReceiveBody
    <2>2. body' = [body EXCEPT ![s] = [body[s] EXCEPT !.left = body[s].left - 1, !.good = g]]
      BY <1>3 DEF ReceiveBody
    <2>3. g \in BOOLEAN
      OBVIOUS
    <2> HIDE DEF g
    <2>4. /\ [body[s] EXCEPT !.left = body[s].left - 1, !.good = g] \in Bodies
          /\ [body[s] EXCEPT !.left = body[s].left - 1, !.good = g].on = body[s].on
          /\ [body[s] EXCEPT !.left = body[s].left - 1, !.good = g].step = body[s].step
      <3>1. body[s] \in Bodies
        BY DEF BodyOK
      <3>2. body[s].left - 1 \in 0..MaxFileBytes
        BY <1>0, <2>1, <3>1 DEF Bodies
      <3> QED
        BY <2>3, <3>1, <3>2 DEF Bodies
    <2>5. body[s].step = "bytes"
      <3>1. body[s].left # 0
        BY <2>1
      <3> QED
        BY <2>1, <3>1 DEF BodyOK
    <2>6. BodyOK'
      BY <2>1, <2>2, <2>4, <2>5 DEF BodyOK
    <2>7. StreamOK'
      <3>1. /\ Tail(wire[Peer(s)]) \in Seq(Unit(clock))
            /\ Len(Tail(wire[Peer(s)])) = Len(wire[Peer(s)]) - 1
            /\ Len(wire[Peer(s)]) \in Nat
        BY <1>0, <2>1 DEF StreamOK
      <3> QED
        BY <1>0, <2>1, <3>1, SessionAssumption DEF StreamOK
    <2> QED
      BY <2>1, <2>6, <2>7, Frames
  <1>4. body[s].step # "bytes" => /\ body[s].on /\ stage[s] = "Receive" /\ want[s] # <<>>
                                  /\ body[s].left = 0
    BY DEF BodyOK, NoBody
  <1>5. ASSUME body[s].on
        PROVE  /\ Head(want[s]) \in Req(clock) /\ Tail(want[s]) \in Lists(clock)
               /\ Head(want[s]).path \in Files /\ Head(want[s]).version \in Ver(clock)
    <2>1. want[s] # <<>>
      BY <1>5 DEF BodyOK
    <2> QED
      BY <1>0, <2>1, ListRest DEF ListsOK, Req
  <1>6. ASSUME body[s].on, body' = [body EXCEPT ![s] = NoBody],
               want' = [want EXCEPT ![s] = Tail(want[s])], UNCHANGED <<stage, serve, clock>>
        PROVE  ListsOK' /\ BodyOK'
    <2>1. ListsOK' /\ \A t \in Sides \ {s} : want'[t] = want[t]
      BY <1>5, <1>6 DEF ListsOK
    <2>2. NoBody \in Bodies /\ ~NoBody.on
      BY SessionAssumption DEF NoBody, Bodies
    <2> QED
      BY <1>6, <2>1, <2>2 DEF BodyOK
  <1>7. ASSUME NEW st \in {"checked", "renamed"}, body[s].on, body[s].left = 0,
               body' = [body EXCEPT ![s] = [body[s] EXCEPT !.step = st]], UNCHANGED <<stage, want>>
        PROVE  BodyOK'
    <2>1. body[s] \in Bodies
      BY DEF BodyOK
    <2>2. /\ [body[s] EXCEPT !.step = st] \in Bodies
          /\ [body[s] EXCEPT !.step = st].on = body[s].on
          /\ [body[s] EXCEPT !.step = st].left = body[s].left
      BY <2>1 DEF Bodies
    <2> QED
      BY <1>7, <2>2 DEF BodyOK
  <1>8. CASE ApplyFile(s)
    <2>1. body[s].on /\ body[s].left = 0 /\ UNCHANGED <<wire, received, served, localVars, clock, faults>>
      BY <1>8 DEF ApplyFile
    <2>2. CASE ~body[s].good
      <3>1. Fail(s, "CorruptFile")
        BY <1>8, <2>2 DEF ApplyFile
      <3> QED
        BY <2>1, <3>1, FailType, Frames DEF Errors
    <2>3. CASE body[s].good /\ StillWins(s, Head(want[s]))
      <3>1. /\ body' = [body EXCEPT ![s] = [body[s] EXCEPT !.step = "checked"]]
            /\ UNCHANGED <<stage, out, got, want, serve, error>>
        BY <1>8, <2>3 DEF ApplyFile
      <3> QED
        BY <1>7, <2>1, <3>1, Frames
    <2>4. CASE body[s].good /\ ~StillWins(s, Head(want[s]))
      <3>1. /\ body' = [body EXCEPT ![s] = NoBody] /\ want' = [want EXCEPT ![s] = Tail(want[s])]
            /\ UNCHANGED <<stage, out, got, serve, error>>
        BY <1>8, <2>4 DEF ApplyFile
      <3> QED
        BY <1>6, <2>1, <3>1, Frames
    <2> QED
      BY <2>2, <2>3, <2>4
  <1>9. CASE InstallFile(s)
    <2> DEFINE r == Head(want[s])
    <2>1. /\ body[s].step = "checked"
          /\ disk' = [disk EXCEPT ![s] = [disk[s] EXCEPT ![r.path] = r.version]]
          /\ body' = [body EXCEPT ![s] = [body[s] EXCEPT !.step = "renamed"]]
          /\ UNCHANGED <<stage, streamVars, want, serve, served, error, win, mat, clock, faults>>
      BY <1>9 DEF InstallFile
    <2>2. BodyOK' /\ r.path \in Files /\ r.version \in Ver(clock)
      BY <1>4, <1>5, <1>7, <2>1
    <2> HIDE DEF r
    <2>3. LocalOK'
      BY <2>1, <2>2 DEF LocalOK
    <2> QED
      BY <2>1, <2>2, <2>3, Frames DEF streamVars
  <1>10. CASE MarkFile(s)
    <2> DEFINE r == Head(want[s])
    <2>1. /\ body[s].step = "renamed"
          /\ mat' = [mat EXCEPT ![s] = [mat[s] EXCEPT ![r.path] = r.version]]
          /\ body' = [body EXCEPT ![s] = NoBody] /\ want' = [want EXCEPT ![s] = Tail(want[s])]
          /\ UNCHANGED <<stage, streamVars, serve, served, error, win, disk, clock, faults>>
      BY <1>10 DEF MarkFile
    <2>2. ListsOK' /\ BodyOK' /\ r.path \in Files /\ r.version \in Ver(clock)
      BY <1>4, <1>5, <1>6, <2>1
    <2> HIDE DEF r
    <2>3. LocalOK'
      BY <2>1, <2>2 DEF LocalOK
    <2> QED
      BY <2>1, <2>2, <2>3, Frames DEF streamVars
  <1>11. CASE ApplyFails(s)
    <2> DEFINE r == Head(want[s])
    <2>1. /\ body[s].step # "bytes" /\ faults < MaxFaults /\ faults' = faults + 1
          /\ \/ mat' = [mat EXCEPT ![s] = [mat[s] EXCEPT ![r.path] = 0]]
             \/ mat' = mat
          /\ body' = [body EXCEPT ![s] = NoBody] /\ want' = [want EXCEPT ![s] = Tail(want[s])]
          /\ UNCHANGED <<stage, streamVars, serve, served, error, win, disk, clock>>
      BY <1>11 DEF ApplyFails
    <2>2. ListsOK' /\ BodyOK' /\ r.path \in Files
      BY <1>4, <1>5, <1>6, <2>1
    <2> HIDE DEF r
    <2>3. mat' \in [Sides -> [Files -> Ver(clock)]]
      <3>1. 0 \in Ver(clock)
        BY <1>0 DEF Ver
      <3>2. mat \in [Sides -> [Files -> Ver(clock)]]
        BY DEF LocalOK
      <3>3. CASE mat' = [mat EXCEPT ![s] = [mat[s] EXCEPT ![r.path] = 0]]
        BY <2>2, <3>1, <3>2, <3>3
      <3> QED
        BY <2>1, <3>2, <3>3
    <2>4. LocalOK'
      BY <2>1, <2>3, SessionAssumption DEF LocalOK
    <2> QED
      BY <2>1, <2>2, <2>4, Frames DEF streamVars
  <1> QED
    BY <1>1, <1>2, <1>3, <1>8, <1>9, <1>10, <1>11

\* New connections, lost ones, edits and scans.
LEMMA OtherStepType ==
    ASSUME TypeInv,
           \/ StartSession
           \/ \E s \in Sides : \/ PeerGone(s) \/ Breaks(s) \/ Scan(s)
                               \/ \E f \in Files : UserEdits(s, f)
    PROVE  TypeInv'
  <1> USE DEF TypeInv
  <1>0. clock \in Nat /\ MaxEdits \in Nat /\ MaxFaults \in Nat
    BY SessionAssumption DEF LocalOK
  <1>1. CASE StartSession
    <2>1. /\ \A s \in Sides : stage[s] \in Ended
          /\ stage' = [s \in Sides |-> "Hello"] /\ error' = [s \in Sides |-> "none"]
          /\ out' = [s \in Sides |-> Hello] /\ wire' = [s \in Sides |-> <<>>]
          /\ got' = [s \in Sides |-> NoFrame]
          /\ received' = [s \in Sides |-> 0] /\ served' = [s \in Sides |-> 0]
          /\ UNCHANGED <<want, serve, body, localVars, clock, faults>>
      BY <1>1 DEF StartSession
    <2>2. StageOK' /\ CountsOK'
      BY <2>1, SessionAssumption DEF StageOK, CountsOK, Stages, Exchanged, Errors
    <2>3. Hello \in Seq(Unit(clock)) /\ <<>> \in Seq(Unit(clock)) /\ Len(<<>>) <= Window
      BY <1>0, FrameType, SessionAssumption DEF Hello
    <2>4. StreamOK'
      BY <2>1, <2>3 DEF StreamOK
    <2>5. GotOK'
      BY <2>1 DEF GotOK, NoFrame, Values
    <2>6. BodyOK'
      <3>1. \A s \in Sides : ~body[s].on
        BY <2>1 DEF BodyOK, Ended
      <3> QED
        BY <2>1, <3>1 DEF BodyOK
    <2> QED
      BY <2>1, <2>2, <2>4, <2>5, <2>6, Frames
  <1>2. ASSUME NEW s \in Sides, PeerGone(s) PROVE TypeInv'
    <2>1. Fail(s, "Transport") /\ UNCHANGED <<wire, received, served, localVars, clock, faults>>
      BY <1>2 DEF PeerGone
    <2> QED
      BY <2>1, FailType, Frames DEF Errors
  <1>3. ASSUME NEW s \in Sides, Breaks(s) PROVE TypeInv'
    <2>1. /\ Fail(s, "Transport") /\ UNCHANGED <<wire, received, served, localVars, clock>>
          /\ faults < MaxFaults /\ faults' = faults + 1
      BY <1>3 DEF Breaks
    <2>2. LocalOK'
      BY <1>0, <2>1 DEF LocalOK, localVars
    <2> QED
      BY <2>1, <2>2, FailType, Frames DEF Errors
  <1>4. ASSUME NEW s \in Sides, Scan(s) PROVE TypeInv'
    <2>1. /\ win' = [win EXCEPT ![s] = Merged(s, disk[s])]
          /\ mat' = [mat EXCEPT ![s] = [f \in Files |-> Scanned(s, f)]]
          /\ UNCHANGED <<stage, streamVars, fileVars, error, disk, clock, faults>>
      BY <1>4 DEF Scan
    <2>2. Merged(s, disk[s]) \in [Files -> Ver(clock)]
      BY MergedType DEF LocalOK
    <2>3. \A f \in Files : Scanned(s, f) \in Ver(clock)
      <3>1. ASSUME NEW f \in Files PROVE Scanned(s, f) \in Ver(clock)
        <4>1. disk[s][f] \in Ver(clock) /\ mat[s][f] \in Ver(clock) /\ 0 \in Ver(clock)
          BY <1>0 DEF LocalOK, Ver
        <4> QED
          BY <4>1 DEF Scanned
      <3> QED
        BY <3>1
    <2>4. [f \in Files |-> Scanned(s, f)] \in [Files -> Ver(clock)]
      BY <2>3
    <2>6. LocalOK'
      BY <2>1, <2>2, <2>4 DEF LocalOK
    <2> QED
      BY <2>1, <2>6, Frames DEF streamVars, fileVars
  <1>5. ASSUME NEW s \in Sides, NEW f \in Files, UserEdits(s, f) PROVE TypeInv'
    <2>1. /\ clock < MaxEdits /\ clock' = clock + 1
          /\ disk' = [disk EXCEPT ![s] = [disk[s] EXCEPT ![f] = clock + 2]]
          /\ UNCHANGED <<stage, streamVars, fileVars, error, win, mat, faults>>
      BY <1>5 DEF UserEdits
    <2>2. /\ Ver(clock) \subseteq Ver(clock') /\ [Files -> Ver(clock)] \subseteq [Files -> Ver(clock')]
          /\ Lists(clock) \subseteq Lists(clock') /\ Values(clock) \subseteq Values(clock')
          /\ Seq(Unit(clock)) \subseteq Seq(Unit(clock'))
      BY <1>0, <2>1, Grows
    <2>3. StageOK' /\ CountsOK'
      BY <2>1 DEF StageOK, CountsOK, streamVars, fileVars
    <2>4. StreamOK' /\ ListsOK'
      BY <2>1, <2>2 DEF StreamOK, ListsOK, streamVars, fileVars
    <2>5. GotOK'
      BY <2>1, <2>2 DEF GotOK, streamVars
    <2>6. BodyOK'
      BY <2>1 DEF BodyOK, fileVars
    <2>7. LocalOK'
      <3>1. clock + 2 \in Ver(clock') /\ clock' \in 0..MaxEdits
        BY <1>0, <2>1 DEF Ver
      <3>2. /\ disk' \in [Sides -> [Files -> Ver(clock')]]
            /\ win' \in [Sides -> [Files -> Ver(clock')]]
            /\ mat' \in [Sides -> [Files -> Ver(clock')]]
        BY <2>1, <2>2, <3>1 DEF LocalOK
      <3> QED
        BY <2>1, <3>1, <3>2 DEF LocalOK
    <2> QED
      BY <2>3, <2>4, <2>5, <2>6, <2>7
  <1> QED
    BY <1>1, <1>2, <1>3, <1>4, <1>5

\* Every step keeps the types.
LEMMA NextType == TypeInv /\ [Next]_vars => TypeInv'
  <1> SUFFICES ASSUME TypeInv, [Next]_vars PROVE TypeInv'
    OBVIOUS
  <1>1. CASE UNCHANGED vars
    BY <1>1, Frames DEF vars, streamVars, fileVars, TypeInv
  <1>2. CASE Next
    BY <1>2, UnitStepType, StageStepType, FileStepType, OtherStepType DEF Next, SideStep
  <1> QED
    BY <1>1, <1>2

\* Every variable stays within its type and every limit of a session is kept,
\* for any window, sizes and limits: the window of a stream, MAX_TRANSFERS,
\* MAX_SESSION_FILE_BYTES and MAX_CONNECTION_BYTES (protocol.rs, sync.rs).
THEOREM TypeCorrect == Spec => []TypeOK
  BY InitType, NextType, TypeParts, PTL DEF Spec

-----------------------------------------------------------------------------
(* The conversation.  What a side has written and the other has not read   *)
(* is a legal continuation of what the other expects next.                 *)

\* Units of p on the wire, and those it is still to write in this stage.
Unread(p) == wire[p] \o out[p]

Early == {"Hello", "Roster", "Manifests", "Requests"}

\* What follows an exchange.
After(st) == IF st = "Hello" THEN "Roster"
             ELSE IF st = "Roster" THEN "Manifests"
             ELSE IF st = "Manifests" THEN "Requests"
             ELSE "Files"

\* The units received by the end of an exchange.
Due(st) == IF st = "Hello" THEN 1
           ELSE IF st = "Roster" THEN 1 + FrameUnits
           ELSE IF st = "Manifests" THEN 1 + FrameUnits + FrameUnits
           ELSE 1 + FrameUnits + FrameUnits + FrameUnits

\* A place in the conversation, as its reader sees it: the stage, the units
\* left of the frame or the file, the requests without an answer and the
\* units counted.  Every limit of the connection holds at every place.
Position ==
    {x \in [st : Early \cup {"Files", "Fin", "End"}, left : Nat, todo : Seq(Requests), rcv : Nat] :
        /\ x.st \in Early => x.left > 0 /\ x.rcv + x.left = Due(x.st)
        /\ x.st = "Files" => x.rcv + Len(x.todo) <= Due("Requests") + MaxTransfers + MaxFileBytes
        /\ x.rcv <= MaxConnection}

\* One unit of an exchanged frame: the last one of the Requests opens the file
\* phase, in which the requests in `list` are answered.
FrameStep(x, u, y, list) ==
    /\ x.st \in Early /\ u.tag = x.st /\ u.more + 1 = x.left /\ y.rcv = x.rcv + 1
    /\ IF u.more > 0
       THEN y.st = x.st
       ELSE y.st = After(x.st) /\ (x.st = "Requests" => y.left = 0 /\ y.todo = list)

\* The answer to the next request, or one unit of the file it announced.
AnswerStep(x, u, y) ==
    /\ x.st = "Files" /\ x.left = 0 /\ x.todo # <<>>
    /\ y.st = "Files" /\ y.todo = Tail(x.todo)
    /\ \/ /\ u.tag = "File" /\ u.val = Head(x.todo)
          /\ y.left = Size[u.val.path] /\ y.rcv = x.rcv + (1 + Size[u.val.path])
       \/ u.tag = "FileUnavailable" /\ y.left = 0 /\ y.rcv = x.rcv + 1

BodyStep(x, u, y) ==
    /\ x.st = "Files" /\ x.left > 0 /\ u.tag = "Body"
    /\ y.st = "Files" /\ y.left = x.left - 1 /\ y.todo = x.todo /\ y.rcv = x.rcv

\* Done, and the end of the stream.
EndStep(x, u, y) ==
    /\ u.more = 0
    /\ \/ /\ x.st = "Files" /\ x.left = 0 /\ x.todo = <<>> /\ u.tag = "Done"
          /\ y.st = "Fin" /\ y.rcv = x.rcv + 1
       \/ x.st = "Fin" /\ u.tag = "Fin" /\ y.st = "End" /\ y.rcv = x.rcv

Step(x, u, y, list) ==
    FrameStep(x, u, y, list) \/ AnswerStep(x, u, y) \/ BodyStep(x, u, y) \/ EndStep(x, u, y)

\* The places between units: pos[k] is the one before the k-th.
Linked(pos, units, list) ==
    /\ pos \in [1..(Len(units) + 1) -> Position]
    /\ \A k \in 1..Len(units) : Step(pos[k], units[k], pos[k + 1], list)

\* The first unit is read.
LEMMA LinkedRest ==
    ASSUME NEW units, units \in Seq(Unit(clock)), units # <<>>, NEW pos, NEW list,
           Linked(pos, units, list)
    PROVE  /\ pos[1] \in Position /\ pos[2] \in Position
           /\ Step(pos[1], Head(units), pos[2], list)
           /\ \E rest : /\ Linked(rest, Tail(units), list) /\ rest[1] = pos[2]
                        /\ rest[Len(Tail(units)) + 1] = pos[Len(units) + 1]
  <1> DEFINE n == Len(units)
             t == Tail(units)
             rest == [k \in 1..n |-> pos[k + 1]]
  <1>1. n \in Nat \ {0} /\ Len(t) = n - 1 /\ Head(units) = units[1]
    OBVIOUS
  <1>2. \A k \in 1..(n - 1) : t[k] = units[k + 1]
    OBVIOUS
  <1>3. pos \in [1..(n + 1) -> Position] /\ \A k \in 1..n : Step(pos[k], units[k], pos[k + 1], list)
    BY DEF Linked
  <1> HIDE DEF n, t
  <1>4. rest \in [1..n -> Position] /\ \A k \in 1..n : rest[k] = pos[k + 1]
    BY <1>1, <1>3
  <1> HIDE DEF rest
  <1>5. \A k \in 1..(n - 1) : Step(rest[k], t[k], rest[k + 1], list)
    <2> TAKE k \in 1..(n - 1)
    <2>1. k \in 1..n /\ k + 1 \in 1..n
      BY <1>1
    <2>2. Step(pos[k + 1], units[k + 1], pos[(k + 1) + 1], list)
      BY <1>3, <2>1
    <2> QED
      BY <1>2, <1>4, <2>1, <2>2
  <1>6. Linked(rest, t, list)
    <2>1. Len(t) + 1 = n
      BY <1>1
    <2> QED
      BY <1>1, <1>4, <1>5, <2>1 DEF Linked
  <1>7. /\ pos[1] \in Position /\ pos[2] \in Position
        /\ Step(pos[1], units[1], pos[1 + 1], list)
    BY <1>1, <1>3
  <1>8. rest[1] = pos[2] /\ rest[Len(t) + 1] = pos[n + 1]
    BY <1>1, <1>4
  <1> QED
    BY <1>1, <1>6, <1>7, <1>8 DEF n, t

\* The units that a failing side has not written are lost.
LEMMA LinkedStart ==
    ASSUME NEW a, a \in Seq(Unit(clock)), NEW b, b \in Seq(Unit(clock)), NEW pos, NEW list,
           Linked(pos, a \o b, list)
    PROVE  \E start : Linked(start, a, list) /\ start[1] = pos[1]
  <1> DEFINE n == Len(a)
             start == [k \in 1..(n + 1) |-> pos[k]]
  <1>1. n \in Nat /\ Len(a \o b) \in Nat /\ Len(a \o b) >= n
    OBVIOUS
  <1>2. \A k \in 1..n : (a \o b)[k] = a[k]
    OBVIOUS
  <1> DEFINE ab == a \o b
  <1>3. /\ pos \in [1..(Len(ab) + 1) -> Position]
        /\ \A k \in 1..Len(ab) : Step(pos[k], ab[k], pos[k + 1], list)
    BY DEF Linked
  <1> HIDE DEF ab
  <1>4. start \in [1..(n + 1) -> Position] /\ \A k \in 1..(n + 1) : start[k] = pos[k]
    BY <1>1, <1>3 DEF ab
  <1> HIDE DEF start
  <1>5. \A k \in 1..n : Step(start[k], a[k], start[k + 1], list)
    <2> TAKE k \in 1..n
    <2>1. k \in 1..Len(ab) /\ k \in 1..(n + 1) /\ k + 1 \in 1..(n + 1) /\ ab[k] = a[k]
      BY <1>1, <1>2 DEF ab
    <2>2. Step(pos[k], ab[k], pos[k + 1], list)
      BY <1>3, <2>1
    <2> QED
      BY <1>4, <2>1, <2>2
  <1>6. Linked(start, a, list)
    BY <1>4, <1>5 DEF Linked
  <1>7. start[1] = pos[1]
    BY <1>1, <1>4
  <1> QED
    BY <1>6, <1>7

\* A frame continues what was written before.
LEMMA LinkedJoin ==
    ASSUME NEW a, a \in Seq(Unit(clock)), NEW b, b \in Seq(Unit(clock)), NEW pa, NEW pb, NEW list,
           Linked(pa, a, list), Linked(pb, b, list), pa[Len(a) + 1] = pb[1]
    PROVE  \E pos : /\ Linked(pos, a \o b, list) /\ pos[1] = pa[1]
                    /\ pos[Len(a \o b) + 1] = pb[Len(b) + 1]
  <1> DEFINE n == Len(a)
             m == Len(b)
             ab == a \o b
             pos == [k \in 1..(n + m + 1) |-> IF k <= n THEN pa[k] ELSE pb[k - n]]
  <1>1. n \in Nat /\ m \in Nat /\ Len(ab) = n + m
    OBVIOUS
  <1>2. (\A k \in 1..n : ab[k] = a[k]) /\ (\A k \in 1..m : ab[n + k] = b[k])
    OBVIOUS
  <1>3. /\ pa \in [1..(n + 1) -> Position] /\ pb \in [1..(m + 1) -> Position]
        /\ \A k \in 1..n : Step(pa[k], a[k], pa[k + 1], list)
        /\ \A k \in 1..m : Step(pb[k], b[k], pb[k + 1], list)
        /\ pa[n + 1] = pb[1]
    BY DEF Linked
  <1> HIDE DEF n, m, ab
  <1>4. /\ pos \in [1..(n + m + 1) -> Position]
        /\ \A k \in 1..n : pos[k] = pa[k]
        /\ \A k \in 1..(m + 1) : pos[n + k] = pb[k]
    <2>1. ASSUME NEW k \in 1..(n + m + 1)
          PROVE  (IF k <= n THEN pa[k] ELSE pb[k - n]) \in Position
      <3>1. k <= n => k \in 1..(n + 1)
        BY <1>1
      <3>2. ~(k <= n) => k - n \in 1..(m + 1)
        BY <1>1
      <3> QED
        BY <1>3, <3>1, <3>2
    <2>2. \A k \in 1..n : k \in 1..(n + m + 1) /\ k <= n
      BY <1>1
    <2>3. \A k \in 1..(m + 1) : n + k \in 1..(n + m + 1) /\ ~(n + k <= n) /\ (n + k) - n = k
      BY <1>1
    <2> QED
      BY <2>1, <2>2, <2>3
  <1> HIDE DEF pos
  <1>5. \A k \in 1..(n + 1) : pos[k] = pa[k]
    <2>1. pos[n + 1] = pb[1]
      BY <1>1, <1>4
    <2> QED
      BY <1>1, <1>3, <1>4, <2>1
  <1>6. \A k \in 1..(n + m) : Step(pos[k], ab[k], pos[k + 1], list)
    <2> TAKE k \in 1..(n + m)
    <2>1. CASE k \in 1..n
      <3>1. k \in 1..(n + 1) /\ k + 1 \in 1..(n + 1)
        BY <1>1, <2>1
      <3>2. Step(pa[k], a[k], pa[k + 1], list)
        BY <1>3, <2>1
      <3> QED
        BY <1>2, <1>5, <2>1, <3>1, <3>2
    <2>2. CASE k \notin 1..n
      <3>1. PICK j \in 1..m : k = n + j
        <4>1. k - n \in 1..m /\ k = n + (k - n)
          BY <1>1, <2>2
        <4> QED
          BY <4>1
      <3>2. Step(pb[j], b[j], pb[j + 1], list)
        BY <1>3, <3>1
      <3>3. j \in 1..(m + 1) /\ j + 1 \in 1..(m + 1) /\ k + 1 = n + (j + 1)
        BY <1>1, <3>1
      <3>4. pos[k] = pb[j] /\ pos[k + 1] = pb[j + 1] /\ ab[k] = b[j]
        BY <1>2, <1>4, <3>1, <3>3
      <3> QED
        BY <3>2, <3>4
    <2> QED
      BY <2>1, <2>2
  <1>7. Linked(pos, ab, list)
    BY <1>1, <1>4, <1>6 DEF Linked
  <1>8. pos[1] = pa[1] /\ pos[(n + m) + 1] = pb[m + 1]
    <2>1. 1 \in 1..(n + 1) /\ m + 1 \in 1..(m + 1) /\ (n + m) + 1 = n + (m + 1)
      BY <1>1
    <2> QED
      BY <1>4, <1>5, <2>1
  <1> QED
    BY <1>1, <1>7, <1>8 DEF n, m, ab

\* A unit moves from its writer to the wire: only the bytes of a file can be
\* others than those that were opened.
LEMMA LinkedSame ==
    ASSUME NEW a, NEW b, NEW pos, NEW list, Linked(pos, a, list), Len(b) = Len(a),
           \A k \in 1..Len(a) : /\ b[k].tag = a[k].tag /\ b[k].more = a[k].more
                                /\ a[k].tag # "Body" => b[k] = a[k]
    PROVE  Linked(pos, b, list)
  <1>1. ASSUME NEW k \in 1..Len(a) PROVE Step(pos[k], b[k], pos[k + 1], list)
    <2>1. Step(pos[k], a[k], pos[k + 1], list)
      BY DEF Linked
    <2>2. /\ b[k].tag = a[k].tag /\ b[k].more = a[k].more
          /\ a[k].tag # "Body" => b[k] = a[k]
      OBVIOUS
    <2> QED
      BY <2>1, <2>2 DEF Step, FrameStep, AnswerStep, BodyStep, EndStep
  <1> QED
    BY <1>1 DEF Linked

\* The requests may still change while no answer is under way.
LEMMA LinkedList ==
    ASSUME NEW units, units \in Seq(Unit(clock)), NEW pos, NEW old, NEW list, list \in Lists(clock),
           Linked(pos, units, old), clock \in 0..MaxEdits, pos[1].st \in Early,
           \A k \in 1..Len(units) : units[k].tag \in Early
    PROVE  \E new : /\ Linked(new, units, list) /\ new[1] = pos[1]
                    /\ LET n == Len(units) + 1
                       IN  /\ new[n].st = pos[n].st /\ new[n].rcv = pos[n].rcv
                           /\ new[n].left = pos[n].left
                           /\ pos[n].st = "Files" => new[n].todo = list
  <1> DEFINE n == Len(units)
             new == [k \in 1..(n + 1) |-> IF pos[k].st = "Files"
                                          THEN [pos[k] EXCEPT !.todo = list] ELSE pos[k]]
  <1>1. n \in Nat /\ pos \in [1..(n + 1) -> Position]
        /\ \A k \in 1..n : Step(pos[k], units[k], pos[k + 1], old)
    BY DEF Linked
  <1>2. list \in Seq(Requests) /\ Len(list) <= MaxTransfers
    <2>1. Req(clock) \subseteq Requests
      BY SessionAssumption DEF Req, Requests, Ver, Versions
    <2> QED
      BY <2>1 DEF Lists
  <1> HIDE DEF n
  <1>3. \A k \in 1..n : pos[k].st \in Early
    BY <1>1 DEF Step, FrameStep, AnswerStep, BodyStep, EndStep, Early, n
  <1>4. ASSUME NEW k \in 1..(n + 1), pos[k].st = "Files"
        PROVE  /\ [pos[k] EXCEPT !.todo = list] \in Position
               /\ k # 1 /\ k = n + 1 /\ pos[k].left = 0
    <2>1. k # 1 /\ k - 1 \in 1..n /\ (k - 1) + 1 = k
      BY <1>1, <1>4 DEF Early
    <2>2. Step(pos[k - 1], units[k - 1], pos[k], old) /\ pos[k - 1].st \in Early
      BY <1>1, <1>3, <2>1
    <2>3. FrameStep(pos[k - 1], units[k - 1], pos[k], old)
      BY <2>2 DEF Step, AnswerStep, BodyStep, EndStep, Early
    <2>4. pos[k] \in Position /\ pos[k - 1] \in Position
      BY <1>1, <2>1
    <2> DEFINE x == pos[k - 1]
               y == pos[k]
               u == units[k - 1]
    <2>5. x.st = "Requests" /\ y.rcv = x.rcv + 1 /\ y.left = 0 /\ u.more + 1 = x.left /\ ~(u.more > 0)
      BY <1>4, <2>3 DEF FrameStep, After, Early
    <2>6. u.more \in Nat
      BY <2>1, <1>1 DEF Unit, n
    <2>7. x.rcv + x.left = Due("Requests") /\ x.rcv \in Nat /\ x.left \in Nat
      BY <2>4, <2>5 DEF Position, Early
    <2>8. y.rcv = Due("Requests")
      BY <2>5, <2>6, <2>7
    <2>9. y \in [st : Early \cup {"Files", "Fin", "End"}, left : Nat, todo : Seq(Requests), rcv : Nat]
          /\ y.rcv <= MaxConnection
      BY <2>4 DEF Position
    <2>10. Len(list) \in Nat /\ MaxTransfers \in Nat /\ MaxFileBytes \in Nat
      BY <1>2, SessionAssumption
    <2> DEFINE z == [y EXCEPT !.todo = list]
    <2>12. y.st = "Files"
      BY <1>4
    <2> HIDE DEF x, y, u
    <2>13. /\ z \in [st : Early \cup {"Files", "Fin", "End"}, left : Nat, todo : Seq(Requests), rcv : Nat]
           /\ z.st = "Files" /\ z.rcv = Due("Requests") /\ z.todo = list /\ z.rcv <= MaxConnection
      BY <1>2, <2>8, <2>9, <2>12
    <2> HIDE DEF z
    <2>14. z.rcv \in Nat
      BY <2>13
    <2>11. z \in Position
      BY <1>2, <2>10, <2>13, <2>14 DEF Position, Early
    <2> QED
      BY <1>1, <1>3, <1>4, <2>1, <2>5, <2>11 DEF y, z, Early
  <1>5. /\ new \in [1..(n + 1) -> Position]
        /\ \A k \in 1..n : new[k] = pos[k]
        /\ \A k \in 1..(n + 1) : /\ new[k].st = pos[k].st /\ new[k].rcv = pos[k].rcv
                                 /\ new[k].left = pos[k].left
                                 /\ IF pos[k].st = "Files" THEN new[k].todo = list
                                                           ELSE new[k] = pos[k]
    <2>1. \A k \in 1..(n + 1) :
              (IF pos[k].st = "Files" THEN [pos[k] EXCEPT !.todo = list] ELSE pos[k]) \in Position
      BY <1>1, <1>4
    <2>2. new \in [1..(n + 1) -> Position]
      BY <2>1
    <2>31. \A k \in 1..n : k \in 1..(n + 1)
      BY <1>1
    <2>32. \A k \in 1..n : pos[k].st # "Files"
      BY <1>3 DEF Early
    <2>3. \A k \in 1..n : k \in 1..(n + 1) /\ pos[k].st # "Files"
      BY <2>31, <2>32
    <2>4. ASSUME NEW k \in 1..(n + 1)
          PROVE  /\ new[k].st = pos[k].st /\ new[k].rcv = pos[k].rcv
                 /\ new[k].left = pos[k].left
                 /\ IF pos[k].st = "Files" THEN new[k].todo = list
                                           ELSE new[k] = pos[k]
      <3>1. pos[k] \in [st : Early \cup {"Files", "Fin", "End"}, left : Nat, todo : Seq(Requests), rcv : Nat]
        BY <1>1 DEF Position
      <3>2. new[k] = IF pos[k].st = "Files" THEN [pos[k] EXCEPT !.todo = list] ELSE pos[k]
        OBVIOUS
      <3> QED
        BY <3>1, <3>2
    <2>5. \A k \in 1..n : new[k] = pos[k]
      BY <2>3
    <2> QED
      BY <2>2, <2>4, <2>5
  <1> HIDE DEF new
  <1>6. ASSUME NEW k \in 1..n PROVE Step(new[k], units[k], new[k + 1], list)
    <2>1. k + 1 \in 1..(n + 1) /\ new[k] = pos[k] /\ pos[k].st \in Early
      BY <1>1, <1>3, <1>5
    <2>2. FrameStep(pos[k], units[k], pos[k + 1], old)
      BY <1>1, <2>1 DEF Step, AnswerStep, BodyStep, EndStep, Early
    <2>3. FrameStep(new[k], units[k], new[k + 1], list)
      BY <1>5, <2>1, <2>2 DEF FrameStep, After, Early
    <2> QED
      BY <2>3 DEF Step
  <1>7. Linked(new, units, list)
    BY <1>5, <1>6 DEF Linked, n
  <1>8. n + 1 \in 1..(n + 1) /\ 1 \in 1..(n + 1) /\ pos[1].st # "Files"
    BY <1>1 DEF Early
  <1>9. new[1] = pos[1]
    BY <1>5, <1>8
  <1>10. /\ new[n + 1].st = pos[n + 1].st /\ new[n + 1].rcv = pos[n + 1].rcv
         /\ new[n + 1].left = pos[n + 1].left
         /\ pos[n + 1].st = "Files" => new[n + 1].todo = list
    BY <1>5, <1>8
  <1> QED
    BY <1>7, <1>9, <1>10 DEF n

\* The frame of an exchange leads to the next stage.
LEMMA LinkedFrame ==
    ASSUME NEW x \in Position, x.st \in Early, NEW val, NEW list, list \in Lists(clock),
           clock \in 0..MaxEdits
    PROVE  \E pos : LET units == Units(x.st, val, x.left) IN
              /\ Linked(pos, units, list) /\ pos[1] = x
              /\ LET y == pos[Len(units) + 1]
                 IN  /\ y.st = After(x.st) /\ y.rcv = Due(x.st)
                     /\ y.left = IF x.st = "Requests" THEN 0 ELSE FrameUnits
                     /\ x.st = "Requests" => y.todo = list
  <1> DEFINE n == x.left
             units == Units(x.st, val, n)
             y == [st |-> After(x.st), left |-> IF x.st = "Requests" THEN 0 ELSE FrameUnits,
                   todo |-> list, rcv |-> Due(x.st)]
             pos == [k \in 1..(n + 1) |-> IF k = n + 1 THEN y
                        ELSE [x EXCEPT !.left = n + 1 - k, !.rcv = x.rcv + (k - 1)]]
  <1>1. /\ x \in [st : Early \cup {"Files", "Fin", "End"}, left : Nat, todo : Seq(Requests), rcv : Nat]
        /\ n \in Nat \ {0} /\ x.rcv \in Nat /\ x.rcv + n = Due(x.st)
    BY DEF Position
  <1>2. list \in Seq(Requests) /\ Len(list) <= MaxTransfers /\ Len(list) \in Nat
    <2>1. Req(clock) \subseteq Requests
      BY SessionAssumption DEF Req, Requests, Ver, Versions
    <2> QED
      BY <2>1 DEF Lists
  <1>3. /\ FrameUnits \in Nat \ {0} /\ MaxTransfers \in Nat /\ MaxFileBytes \in Nat
        /\ MaxConnection \in Nat
        /\ FrameUnits + FrameUnits + FrameUnits + MaxTransfers + MaxFileBytes + 2 <= MaxConnection
    BY SessionAssumption
  <1>4. /\ Due(x.st) \in Nat /\ Due(x.st) <= MaxConnection
        /\ Due("Requests") \in Nat /\ Due(x.st) <= Due("Requests")
    BY <1>3 DEF Due, Early
  <1>5. /\ Len(units) = n
        /\ \A k \in 1..n : units[k].tag = x.st /\ units[k].more = n - k
    BY <1>1 DEF Units
  <1> HIDE DEF n, units
  <1>6. y \in Position
    <2>1. After(x.st) \in Early \cup {"Files", "Fin", "End"}
      BY DEF After, Early
    <2>2. y \in [st : Early \cup {"Files", "Fin", "End"}, left : Nat, todo : Seq(Requests), rcv : Nat]
      BY <1>2, <1>3, <1>4, <2>1
    <2>3. y.st \in Early => y.left > 0 /\ y.rcv + y.left = Due(y.st)
      BY <1>3 DEF After, Early, Due
    <2>4. y.st = "Files" => y.rcv + Len(y.todo) <= Due("Requests") + MaxTransfers + MaxFileBytes
      BY <1>2, <1>3, <1>4
    <2> QED
      BY <1>4, <2>2, <2>3, <2>4 DEF Position
  <1>7. /\ y.st = After(x.st) /\ y.rcv = Due(x.st) /\ y.todo = list
        /\ y.left = IF x.st = "Requests" THEN 0 ELSE FrameUnits
    OBVIOUS
  <1> HIDE DEF y
  <1>8. ASSUME NEW k \in 1..n
        PROVE  /\ [x EXCEPT !.left = n + 1 - k, !.rcv = x.rcv + (k - 1)] \in Position
               /\ [x EXCEPT !.left = n + 1 - k, !.rcv = x.rcv + (k - 1)].st = x.st
               /\ [x EXCEPT !.left = n + 1 - k, !.rcv = x.rcv + (k - 1)].left = n + 1 - k
               /\ [x EXCEPT !.left = n + 1 - k, !.rcv = x.rcv + (k - 1)].rcv = x.rcv + (k - 1)
    <2>1. n + 1 - k \in Nat \ {0} /\ x.rcv + (k - 1) \in Nat
      BY <1>1
    <2>2. (x.rcv + (k - 1)) + (n + 1 - k) = Due(x.st) /\ x.rcv + (k - 1) <= MaxConnection
      BY <1>1, <1>3, <1>4
    <2> DEFINE z == [x EXCEPT !.left = n + 1 - k, !.rcv = x.rcv + (k - 1)]
    <2>3. /\ z \in [st : Early \cup {"Files", "Fin", "End"}, left : Nat, todo : Seq(Requests), rcv : Nat]
          /\ z.st = x.st /\ z.left = n + 1 - k /\ z.rcv = x.rcv + (k - 1)
      BY <1>1, <2>1
    <2> HIDE DEF z
    <2>4. z \in Position
      BY <2>1, <2>2, <2>3 DEF Position, Early
    <2> QED
      BY <2>3, <2>4 DEF z
  <1>9. /\ pos \in [1..(n + 1) -> Position] /\ pos[n + 1] = y
        /\ \A k \in 1..n : /\ pos[k].st = x.st /\ pos[k].left = n + 1 - k
                           /\ pos[k].rcv = x.rcv + (k - 1)
    <2>1. \A k \in 1..n : k \in 1..(n + 1) /\ k # n + 1
      BY <1>1
    <2>2. \A k \in 1..(n + 1) : k # n + 1 => k \in 1..n
      BY <1>1
    <2>3. n + 1 \in 1..(n + 1)
      BY <1>1
    <2> QED
      BY <1>6, <1>8, <2>1, <2>2, <2>3
  <1>10. pos[1] = x
    <2>0. 1 \in 1..(n + 1) /\ 1 # n + 1
      BY <1>1
    <2>1. pos[1] = [x EXCEPT !.left = n + 1 - 1, !.rcv = x.rcv + (1 - 1)]
      BY <2>0
    <2>2. n + 1 - 1 = x.left /\ x.rcv + (1 - 1) = x.rcv
      BY <1>1 DEF n
    <2> QED
      BY <1>1, <2>1, <2>2
  <1> HIDE DEF pos
  <1>11. ASSUME NEW k \in 1..n PROVE Step(pos[k], units[k], pos[k + 1], list)
    <2>1. CASE k = n
      <3>1. /\ pos[k].st = x.st /\ pos[k].left = 1 /\ pos[k].rcv = x.rcv + (n - 1)
            /\ units[k].more = 0 /\ pos[k + 1] = y /\ units[k].tag = x.st
        BY <1>1, <1>5, <1>9, <2>1
      <3>2. y.rcv = pos[k].rcv + 1 /\ (x.st = "Requests" => y.left = 0)
        BY <1>1, <1>7, <3>1
      <3>3. FrameStep(pos[k], units[k], y, list)
        BY <1>7, <3>1, <3>2 DEF FrameStep
      <3> QED
        BY <3>1, <3>3 DEF Step
    <2>2. CASE k # n
      <3>1. k + 1 \in 1..n
        BY <1>1, <2>2
      <3>2. /\ pos[k].st = x.st /\ pos[k].left = n + 1 - k /\ pos[k].rcv = x.rcv + (k - 1)
            /\ pos[k + 1].st = x.st /\ pos[k + 1].rcv = x.rcv + ((k + 1) - 1)
            /\ units[k].tag = x.st /\ units[k].more = n - k
        BY <1>5, <1>9, <3>1
      <3>3. n - k > 0 /\ (n - k) + 1 = n + 1 - k /\ x.rcv + ((k + 1) - 1) = (x.rcv + (k - 1)) + 1
        BY <1>1, <3>1
      <3>4. FrameStep(pos[k], units[k], pos[k + 1], list)
        BY <3>2, <3>3 DEF FrameStep
      <3> QED
        BY <3>4 DEF Step
    <2> QED
      BY <2>1, <2>2
  <1>12. Linked(pos, units, list)
    BY <1>5, <1>9, <1>11 DEF Linked
  <1> QED
    BY <1>5, <1>7, <1>9, <1>10, <1>12 DEF n, units

\* A single unit.
LEMMA LinkedOne ==
    ASSUME NEW x \in Position, NEW y \in Position, NEW units, Len(units) = 1, NEW list,
           Step(x, units[1], y, list)
    PROVE  \E pos : Linked(pos, units, list) /\ pos[1] = x /\ pos[2] = y
  <1> DEFINE pos == [k \in 1..2 |-> IF k = 1 THEN x ELSE y]
  <1>1. pos \in [1..(1 + 1) -> Position] /\ pos[1] = x /\ pos[1 + 1] = y
    OBVIOUS
  <1> HIDE DEF pos
  <1>2. Linked(pos, units, list)
    BY <1>1 DEF Linked
  <1> QED
    BY <1>1, <1>2

\* The body of a file, unit by unit.
LEMMA LinkedBody ==
    ASSUME NEW x \in Position, x.st = "Files", NEW val, NEW list
    PROVE  \E pos : LET units == Units("Body", val, x.left) IN
              /\ Linked(pos, units, list) /\ pos[1] = x
              /\ LET y == pos[Len(units) + 1]
                 IN  y.st = "Files" /\ y.left = 0 /\ y.todo = x.todo /\ y.rcv = x.rcv
  <1> DEFINE n == x.left
             units == Units("Body", val, n)
             pos == [k \in 1..(n + 1) |-> [x EXCEPT !.left = n + 1 - k]]
  <1>1. /\ x \in [st : Early \cup {"Files", "Fin", "End"}, left : Nat, todo : Seq(Requests), rcv : Nat]
        /\ n \in Nat
        /\ x.rcv + Len(x.todo) <= Due("Requests") + MaxTransfers + MaxFileBytes
        /\ x.rcv <= MaxConnection
    BY DEF Position
  <1>2. Len(units) = n /\ \A k \in 1..n : units[k].tag = "Body"
    BY <1>1 DEF Units
  <1> HIDE DEF n, units
  <1>3. ASSUME NEW k \in 1..(n + 1)
        PROVE  /\ pos[k] \in Position /\ pos[k].st = "Files" /\ pos[k].left = n + 1 - k
               /\ pos[k].todo = x.todo /\ pos[k].rcv = x.rcv
    <2>1. n + 1 - k \in Nat
      BY <1>1
    <2> DEFINE z == [x EXCEPT !.left = n + 1 - k]
    <2>2. /\ z \in [st : Early \cup {"Files", "Fin", "End"}, left : Nat, todo : Seq(Requests), rcv : Nat]
          /\ z.st = x.st /\ z.left = n + 1 - k /\ z.rcv = x.rcv /\ z.todo = x.todo
      BY <1>1, <2>1
    <2>3. pos[k] = z
      OBVIOUS
    <2> HIDE DEF z
    <2>4. z \in Position
      BY <1>1, <2>2 DEF Position, Early
    <2> QED
      BY <2>2, <2>3, <2>4
  <1>4. pos \in [1..(n + 1) -> Position]
    BY <1>3
  <1>5. pos[1] = x
    <2>1. 1 \in 1..(n + 1) /\ n + 1 - 1 = x.left
      BY <1>1 DEF n
    <2> QED
      BY <1>1, <2>1
  <1> HIDE DEF pos
  <1>6. ASSUME NEW k \in 1..n PROVE Step(pos[k], units[k], pos[k + 1], list)
    <2>1. k \in 1..(n + 1) /\ k + 1 \in 1..(n + 1) /\ n + 1 - k > 0 /\ n + 1 - (k + 1) = (n + 1 - k) - 1
      BY <1>1
    <2>2. BodyStep(pos[k], units[k], pos[k + 1])
      BY <1>2, <1>3, <2>1 DEF BodyStep
    <2> QED
      BY <2>2 DEF Step
  <1>7. Linked(pos, units, list)
    BY <1>2, <1>4, <1>6 DEF Linked
  <1>8. n + 1 \in 1..(n + 1) /\ n + 1 - (n + 1) = 0
    BY <1>1
  <1>9. pos[n + 1].st = "Files" /\ pos[n + 1].left = 0 /\ pos[n + 1].todo = x.todo /\ pos[n + 1].rcv = x.rcv
    BY <1>3, <1>8
  <1> QED
    BY <1>2, <1>5, <1>7, <1>9 DEF n, units

\* The file that answers the next request, within the budget of the session.
LEMMA LinkedFile ==
    ASSUME NEW x \in Position, x.st = "Files", x.left = 0, x.todo # <<>>, NEW list,
           clock \in 0..MaxEdits, NEW r \in Req(clock), r = Head(x.todo), NEW b \in Nat,
           x.rcv + Len(x.todo) <= Due("Requests") + MaxTransfers + b,
           b + Size[r.path] <= MaxFileBytes
    PROVE  \E pos : LET units == Units("File", r, 1) \o FileBody(r) IN
              /\ Linked(pos, units, list) /\ pos[1] = x
              /\ LET y == pos[Len(units) + 1]
                 IN  /\ y.st = "Files" /\ y.left = 0 /\ y.todo = Tail(x.todo)
                     /\ y.rcv + Len(y.todo) <= Due("Requests") + MaxTransfers + (b + Size[r.path])
  <1>0. r.path \in Files /\ Size[r.path] \in 0..MaxFileBytes
    BY SizeType DEF Req
  <1>00. PICK size : size = Size[r.path] /\ size \in Nat
    BY <1>0, SessionAssumption
  <1> DEFINE head == Units("File", r, 1)
             y == [st |-> "Files", left |-> size, todo |-> Tail(x.todo), rcv |-> x.rcv + (1 + size)]
  <1>1. x \in [st : Early \cup {"Files", "Fin", "End"}, left : Nat, todo : Seq(Requests), rcv : Nat]
    BY DEF Position
  <1>2. /\ Tail(x.todo) \in Seq(Requests) /\ Len(Tail(x.todo)) = Len(x.todo) - 1
        /\ Len(x.todo) \in Nat \ {0} /\ x.rcv \in Nat
    BY <1>1
  <1>3. size \in Nat /\ r.path \in Files /\ MaxTransfers \in Nat /\ MaxFileBytes \in Nat
        /\ MaxConnection \in Nat /\ b + size <= MaxFileBytes
    BY <1>0, <1>00, SessionAssumption
  <1>4. Due("Requests") \in Nat /\ Due("Requests") + MaxTransfers + MaxFileBytes <= MaxConnection
    <2>1. /\ FrameUnits \in Nat
          /\ FrameUnits + FrameUnits + FrameUnits + MaxTransfers + MaxFileBytes + 2 <= MaxConnection
      BY SessionAssumption
    <2> QED
      BY <1>3, <2>1 DEF Due
  <1>5. /\ y \in Position /\ y.st = "Files" /\ y.left = size /\ y.todo = Tail(x.todo)
        /\ y.rcv = x.rcv + (1 + size)
        /\ y.rcv + Len(y.todo) <= Due("Requests") + MaxTransfers + (b + size)
    <2>1. /\ y \in [st : Early \cup {"Files", "Fin", "End"}, left : Nat, todo : Seq(Requests), rcv : Nat]
          /\ y.st = "Files" /\ y.left = size /\ y.todo = Tail(x.todo) /\ y.rcv = x.rcv + (1 + size)
      BY <1>2, <1>3
    <2> HIDE DEF y
    <2>2. y.rcv + Len(y.todo) <= Due("Requests") + MaxTransfers + (b + size)
      <3> DEFINE l == Len(x.todo)
                 d == Due("Requests") + MaxTransfers
                 v == x.rcv
      <3>1. l \in Nat \ {0} /\ d \in Nat /\ v \in Nat /\ v + l <= d + b
        BY <1>2, <1>3, <1>4
      <3> HIDE DEF l, d, v
      <3>2. (v + (1 + size)) + (l - 1) <= d + (b + size)
        BY <1>3, <3>1
      <3> QED
        BY <1>2, <2>1, <3>2 DEF l, d, v
    <2>3. /\ y.rcv + Len(y.todo) <= Due("Requests") + MaxTransfers + MaxFileBytes
          /\ y.rcv <= MaxConnection
      <3> DEFINE e == Len(y.todo)
                 d == Due("Requests") + MaxTransfers
                 v == y.rcv
      <3>1. e \in Nat /\ d \in Nat /\ v \in Nat /\ v + e <= d + (b + size) /\ d + MaxFileBytes <= MaxConnection
        <4>1. e \in Nat /\ v \in Nat
          BY <2>1
        <4>2. d \in Nat /\ d + MaxFileBytes <= MaxConnection
          BY <1>3, <1>4
        <4> QED
          BY <2>2, <4>1, <4>2
      <3> HIDE DEF e, d, v
      <3>2. v + e <= d + MaxFileBytes /\ v <= MaxConnection
        BY <1>3, <3>1
      <3> QED
        BY <3>2 DEF e, d, v
    <2> QED
      BY <2>1, <2>2, <2>3 DEF Position, Early
  <1> HIDE DEF y
  <1>6. /\ Len(head) = 1 /\ head[1].tag = "File" /\ head[1].val = r
        /\ head \in Seq(Unit(clock)) /\ FileBody(r) \in Seq(Unit(clock))
    <2>1. clock \in Nat /\ r \in Values(clock) /\ {"File", "Body"} \subseteq Tags
      BY SessionAssumption DEF Values, Tags
    <2>2. /\ head \in Seq(Unit(clock)) /\ Len(head) = 1
          /\ head[1] = [tag |-> "File", val |-> r, more |-> 1 - 1]
      <3>1. Units("File", r, 1) \in Seq(Unit(clock))
        BY <2>1, UnitsType
      <3>2. /\ Len(Units("File", r, 1)) = 1
            /\ Units("File", r, 1)[1] = [tag |-> "File", val |-> r, more |-> 1 - 1]
        BY DEF Units
      <3> QED
        BY <3>1, <3>2
    <2>3. Units("Body", r, size) \in Seq(Unit(clock))
      BY <1>3, <2>1, UnitsType
    <2> QED
      BY <1>00, <2>2, <2>3 DEF FileBody
  <1> HIDE DEF head
  <1>7. Step(x, head[1], y, list)
    BY <1>00, <1>5, <1>6 DEF Step, AnswerStep
  <1>8. PICK pa : Linked(pa, head, list) /\ pa[1] = x /\ pa[2] = y
    <2>1. y \in Position /\ Len(head) = 1
      BY <1>5, <1>6
    <2> QED
      BY <1>7, <2>1, LinkedOne
  <1>9. PICK pb : /\ Linked(pb, FileBody(r), list) /\ pb[1] = y
                  /\ LET z == pb[Len(FileBody(r)) + 1]
                     IN  z.st = "Files" /\ z.left = 0 /\ z.todo = y.todo /\ z.rcv = y.rcv
    <2>1. FileBody(r) = Units("Body", r, y.left)
      BY <1>00, <1>5 DEF FileBody
    <2>2. y \in Position /\ y.st = "Files"
      BY <1>5
    <2>3. \E pos : LET units == Units("Body", r, y.left) IN
              /\ Linked(pos, units, list) /\ pos[1] = y
              /\ LET z == pos[Len(units) + 1]
                 IN  z.st = "Files" /\ z.left = 0 /\ z.todo = y.todo /\ z.rcv = y.rcv
      BY <2>2, LinkedBody
    <2> QED
      BY <2>1, <2>3
  <1>10. PICK pos : /\ Linked(pos, head \o FileBody(r), list) /\ pos[1] = x
                    /\ pos[Len(head \o FileBody(r)) + 1] = pb[Len(FileBody(r)) + 1]
    <2>1. head \in Seq(Unit(clock)) /\ FileBody(r) \in Seq(Unit(clock))
      BY <1>6
    <2>2. Linked(pa, head, list) /\ Linked(pb, FileBody(r), list) /\ pa[Len(head) + 1] = pb[1]
      BY <1>6, <1>8, <1>9
    <2>3. pa[1] = x
      BY <1>8
    <2> QED
      BY <2>1, <2>2, <2>3, LinkedJoin
  <1> QED
    BY <1>00, <1>5, <1>9, <1>10 DEF head

-----------------------------------------------------------------------------
(* The inductive invariant of the conversation.                            *)

Alive(s) == stage[s] \notin Ended
Sent(p) == {Unread(p)[k] : k \in 1..Len(Unread(p))}

\* Stages and tags in the order of the protocol.
Rank(x) == IF x = "Hello" THEN 1
           ELSE IF x = "Roster" THEN 2
           ELSE IF x = "Manifests" THEN 3
           ELSE IF x = "Requests" THEN 4
           ELSE IF x = "Done" THEN 6
           ELSE IF x = "Fin" THEN 7
           ELSE 5

\* Nobody is ahead of its stage, and nobody answers a request before it is
\* made: a side that has read the peer's Requests knows the peer has sent them.
Ordering(p) ==
    LET q == Peer(p) IN
    /\ Alive(p) => \A u \in Sent(p) : Rank(u.tag) <= Rank(stage[p])
    /\ stage[q] \in Early \ {"Requests"} => \A u \in Sent(p) : u.tag \in Early
    /\ /\ Alive(p) /\ Alive(q)
       /\ Rank(stage[q]) >= 5 \/ (stage[q] = "Requests" /\ got[q].done)
       => Rank(stage[p]) >= 4

\* Requests are open from their selection to the end of their half of the file
\* phase.
Quiet(s) ==
    /\ stage[s] \notin {"Requests", "Send", "Receive"} => want[s] = <<>>
    /\ stage[s] \notin {"Send", "Receive"} => serve[s] = <<>>
    /\ stage[s] = Order(s)[2] => IF s = "Dialer" THEN serve[s] = <<>> ELSE want[s] = <<>>
    /\ stage[s] = "Receive" => out[s] = <<>>

\* The place that q has read to, when its requests of this session are `list`.
Reader(x, q, list) ==
    /\ x.rcv = received[q]
    /\ stage[q] \in Early =>
           /\ list = want[q]
           /\ IF got[q].done
              THEN /\ x.st = After(stage[q])
                   /\ stage[q] = "Requests" => x.left = 0 /\ x.todo = list
              ELSE x.st = stage[q]
    /\ stage[q] \in {"Send", "Receive"} =>
           /\ x.st = "Files" /\ x.left = body[q].left
           /\ x.todo = IF body[q].on THEN Tail(want[q]) ELSE want[q]
    /\ stage[q] = "Done" => IF got[q].done THEN x.st = "Fin"
                                           ELSE x.st = "Files" /\ x.left = 0 /\ x.todo = <<>>
    /\ stage[q] = "Fin" => x.st = IF got[q].done THEN "End" ELSE "Fin"

\* The place that p's writing leads to, when the peer's requests are `list`.
Writer(y, p, list) ==
    /\ y.st = IF stage[p] \in Early THEN After(stage[p])
              ELSE IF stage[p] \in {"Send", "Receive"} THEN "Files"
              ELSE IF stage[p] = "Done" THEN "Fin" ELSE "End"
    /\ stage[p] \in Early \ {"Requests"} => y.left = FrameUnits
    /\ stage[p] = "Requests" => y.left = 0 /\ y.todo = list /\ y.rcv = Due("Requests")
    /\ stage[p] \in {"Send", "Receive"} =>
           /\ y.left = 0 /\ y.todo = serve[p]
           /\ y.rcv + Len(y.todo) <= Due("Requests") + MaxTransfers + served[p]

\* The requests that p reads are those of its peer.
Asked(p, list) ==
    /\ stage[p] \in Early => \A u \in Sent(Peer(p)) : u.tag = "Requests" => u.val = list
    /\ stage[p] = "Requests" /\ got[p].done => got[p].val = list

Link(p, pos, list) ==
    /\ list \in Lists(clock)
    /\ Linked(pos, Unread(p), list)
    /\ Reader(pos[1], Peer(p), list)
    /\ Alive(p) => Writer(pos[Len(Unread(p)) + 1], p, list) /\ Asked(p, list)

Chain(p) == Alive(Peer(p)) => \E pos, list : Link(p, pos, list)

\* The end of p's stream, sent or seen.
EndSeen(p) ==
    \/ stage[Peer(p)] = "ok"
    \/ stage[Peer(p)] = "Fin" /\ got[Peer(p)].done
    \/ \E u \in Sent(p) : u.tag = "Fin"

Finished(p) ==
    EndSeen(p) => stage[p] \in {"Fin", "ok"} \/ (stage[p] = "failed" /\ error[p] = "Transport")

TalkInv ==
    /\ TypeInv
    /\ \A p \in Sides : Ordering(p) /\ Quiet(p) /\ Chain(p) /\ Finished(p)
    /\ HonestNeverRejected

\* There are two sides.
LEMMA Pair ==
    ASSUME NEW s \in Sides
    PROVE  /\ Peer(s) \in Sides /\ Peer(s) # s /\ Peer(Peer(s)) = s
           /\ \A t \in Sides : t = s \/ t = Peer(s)
  BY DEF Sides, Peer

\* The streams are sequences of units.
LEMMA UnreadType ==
    ASSUME TypeInv, NEW p \in Sides
    PROVE  /\ wire[p] \in Seq(Unit(clock)) /\ out[p] \in Seq(Unit(clock))
           /\ Unread(p) \in Seq(Unit(clock)) /\ Len(Unread(p)) \in Nat
           /\ \A u \in Sent(p) : u \in Unit(clock)
           /\ clock \in 0..MaxEdits /\ clock \in Nat
           /\ stage \in [Sides -> Stages]
  <1>1. wire[p] \in Seq(Unit(clock)) /\ out[p] \in Seq(Unit(clock))
    BY DEF TypeInv, StreamOK
  <1>2. Unread(p) \in Seq(Unit(clock)) /\ Len(Unread(p)) \in Nat
    BY <1>1, ConcatProperties, LenProperties DEF Unread
  <1>3. clock \in 0..MaxEdits /\ clock \in Nat /\ stage \in [Sides -> Stages]
    BY SessionAssumption DEF TypeInv, LocalOK, StageOK
  <1> QED
    BY <1>1, <1>2, <1>3 DEF Sent

\* The head and the tail of a sequence that another one follows.
LEMMA ConcatRest ==
    ASSUME NEW S, NEW w \in Seq(S), NEW o \in Seq(S), w # <<>>
    PROVE  Tail(w \o o) = Tail(w) \o o /\ Head(w \o o) = Head(w) /\ w \o o # <<>>
  <1> DEFINE a == Tail(w \o o)
             b == Tail(w) \o o
             n == Len(w)
             m == Len(o)
  <1>1. n \in Nat \ {0} /\ m \in Nat /\ w \o o \in Seq(S) /\ Len(w \o o) = n + m
    BY EmptySeq, LenProperties, ConcatProperties
  <1>2. w \o o # <<>>
    BY <1>1, EmptySeq
  <1>3. a \in Seq(S) /\ Len(a) = (n + m) - 1 /\ \A i \in 1..Len(a) : a[i] = (w \o o)[i + 1]
    BY <1>1, <1>2, HeadTailProperties
  <1>4. /\ Tail(w) \in Seq(S) /\ Len(Tail(w)) = n - 1
        /\ \A i \in 1..(n - 1) : Tail(w)[i] = w[i + 1]
    BY HeadTailProperties
  <1>5. b \in Seq(S) /\ Len(b) = (n - 1) + m
    BY <1>4, ConcatProperties
  <1>6. \A i \in 1..(n + m) : (w \o o)[i] = IF i <= n THEN w[i] ELSE o[i - n]
    BY ConcatProperties
  <1>7. \A i \in 1..((n - 1) + m) : b[i] = IF i <= n - 1 THEN Tail(w)[i] ELSE o[i - (n - 1)]
    BY <1>4, ConcatProperties
  <1> HIDE DEF a, b, n, m
  <1>8. ASSUME NEW i \in 1..Len(a) PROVE a[i] = b[i]
    <2>1. i \in 1..((n - 1) + m) /\ i + 1 \in 1..(n + m) /\ (i + 1) - n = i - (n - 1)
      BY <1>1, <1>3
    <2>2. a[i] = IF i + 1 <= n THEN w[i + 1] ELSE o[(i + 1) - n]
      BY <1>3, <1>6, <2>1
    <2>3. CASE i <= n - 1
      <3>1. i \in 1..(n - 1) /\ i + 1 <= n
        BY <1>1, <2>1, <2>3
      <3> QED
        BY <1>4, <1>7, <2>1, <2>2, <2>3, <3>1
    <2>4. CASE ~(i <= n - 1)
      <3>1. ~(i + 1 <= n)
        BY <1>1, <2>1, <2>4
      <3> QED
        BY <1>7, <2>1, <2>2, <2>4, <3>1
    <2> QED
      BY <2>3, <2>4
  <1>9. a = b
    <2>1. Len(a) = Len(b)
      BY <1>1, <1>3, <1>5
    <2> QED
      BY <1>3, <1>5, <1>8, <2>1, SeqEqual
  <1>10. Head(w \o o) = Head(w)
    <2>1. Head(w \o o) = (w \o o)[1] /\ Head(w) = w[1]
      BY <1>1, <1>2
    <2>2. 1 \in 1..(n + m) /\ 1 <= n
      BY <1>1
    <2> QED
      BY <1>6, <2>1, <2>2
  <1> QED
    BY <1>2, <1>9, <1>10 DEF a, b

\* The peer reads the first unit.
LEMMA UnreadTail ==
    ASSUME TypeInv, NEW p \in Sides, wire[p] # <<>>, out'[p] = out[p], wire'[p] = Tail(wire[p])
    PROVE  /\ Unread(p) # <<>> /\ Head(Unread(p)) = Head(wire[p]) /\ Head(wire[p]) \in Sent(p)
           /\ Unread(p)' = Tail(Unread(p)) /\ Sent(p)' \subseteq Sent(p)
  <1> DEFINE w == wire[p]
             o == out[p]
  <1>1. w \in Seq(Unit(clock)) /\ o \in Seq(Unit(clock)) /\ w # <<>>
    BY UnreadType
  <1> HIDE DEF w, o
  <1>2. /\ w \o o # <<>> /\ Head(w \o o) = Head(w) /\ Tail(w \o o) = Tail(w) \o o
        /\ Head(w) = (w \o o)[1] /\ 1 \in 1..Len(w \o o)
    <2>1. Tail(w \o o) = Tail(w) \o o /\ Head(w \o o) = Head(w) /\ w \o o # <<>>
      BY <1>1, ConcatRest
    <2>2. Len(w \o o) = Len(w) + Len(o) /\ Len(w) \in Nat \ {0} /\ Len(o) \in Nat
      BY <1>1
    <2>3. Head(w) = w[1] /\ (w \o o)[1] = w[1]
      BY <1>1, <2>2
    <2> QED
      BY <2>1, <2>2, <2>3
  <1>3. Unread(p) = w \o o /\ Unread(p)' = Tail(w \o o)
    BY <1>2 DEF Unread, w, o
  <1> DEFINE z == w \o o
  <1>4. z \in Seq(Unit(clock)) /\ z # <<>>
    BY <1>1, <1>2
  <1> HIDE DEF z
  <1>5. \A k \in 1..Len(Tail(z)) : k + 1 \in 1..Len(z) /\ Tail(z)[k] = z[k + 1]
    BY <1>4
  <1>6. {Tail(z)[k] : k \in 1..Len(Tail(z))} \subseteq {z[k] : k \in 1..Len(z)}
    BY <1>5
  <1> QED
    BY <1>2, <1>3, <1>6 DEF z, w, Sent

\* A frame is appended when the one before is written.
LEMMA UnreadJoin ==
    ASSUME TypeInv, NEW p \in Sides, out[p] = <<>>, NEW units \in Seq(Unit(clock)),
           out'[p] = units, wire'[p] = wire[p]
    PROVE  /\ Unread(p)' = Unread(p) \o units
           /\ \A u \in Sent(p)' : u \in Sent(p) \/ \E k \in 1..Len(units) : u = units[k]
  <1> DEFINE w == wire[p]
  <1>1. w \in Seq(Unit(clock))
    BY UnreadType
  <1> HIDE DEF w
  <1>2. w \o <<>> = w
    BY <1>1
  <1>3. Unread(p) = w /\ Unread(p)' = w \o units
    BY <1>2 DEF Unread, w
  <1>4. ASSUME NEW k \in 1..Len(w \o units)
        PROVE  \/ k \in 1..Len(w) /\ (w \o units)[k] = w[k]
               \/ k - Len(w) \in 1..Len(units) /\ (w \o units)[k] = units[k - Len(w)]
    BY <1>1
  <1> QED
    BY <1>3, <1>4 DEF Sent

\* A side that ends leaves what is on the wire.
LEMMA UnreadStart ==
    ASSUME TypeInv, NEW p \in Sides, out'[p] = <<>>, wire'[p] = wire[p]
    PROVE  Unread(p)' = wire[p] /\ Sent(p)' \subseteq Sent(p)
  <1> DEFINE w == wire[p]
             o == out[p]
  <1>1. w \in Seq(Unit(clock)) /\ o \in Seq(Unit(clock))
    BY UnreadType
  <1> HIDE DEF w, o
  <1>2. w \o <<>> = w
    BY <1>1
  <1>3. Unread(p) = w \o o /\ Unread(p)' = w
    BY <1>2 DEF Unread, w, o
  <1>4. \A k \in 1..Len(w) : k \in 1..Len(w \o o) /\ (w \o o)[k] = w[k]
    BY <1>1
  <1> QED
    BY <1>3, <1>4 DEF Sent, w

\* What WriteUnit makes of the stream.
LEMMA UnreadWrite ==
    ASSUME TypeInv, NEW p \in Sides, WriteUnit(p)
    PROVE  /\ Len(Unread(p)') = Len(Unread(p))
           /\ \A k \in 1..Len(Unread(p)) :
                  /\ Unread(p)'[k].tag = Unread(p)[k].tag
                  /\ Unread(p)'[k].more = Unread(p)[k].more
                  /\ Unread(p)[k].tag # "Body" => Unread(p)'[k] = Unread(p)[k]
           /\ \A u \in Sent(p)' : \E v \in Sent(p) :
                  u.tag = v.tag /\ (v.tag # "Body" => u = v)
  <1> DEFINE w == wire[p]
             o == out[p]
  <1>1. w \in Seq(Unit(clock)) /\ o \in Seq(Unit(clock)) /\ o # <<>> /\ wire \in [Sides -> Seq(Unit(clock))]
        /\ out \in [Sides -> Seq(Unit(clock))]
    BY UnreadType DEF WriteUnit, TypeInv, StreamOK
  <1>2. PICK u \in Unit(clock) :
            /\ wire' = [wire EXCEPT ![p] = Append(wire[p], u)]
            /\ u.tag = Head(o).tag /\ u.more = Head(o).more
            /\ u.tag # "Body" => u = Head(o)
    BY Written
  <1>3. wire'[p] = Append(w, u) /\ out'[p] = Tail(o)
    BY <1>1, <1>2 DEF WriteUnit
  <1> HIDE DEF w, o
  <1> DEFINE a == w \o o
             b == Append(w, u) \o Tail(o)
             n == Len(w)
  <1>4. Unread(p) = a /\ Unread(p)' = b
    BY <1>3 DEF Unread, w, o
  <1>5. /\ Len(a) = n + Len(o) /\ Len(b) = n + Len(o) /\ n \in Nat /\ Len(o) \in Nat \ {0}
        /\ Head(o) = o[1]
    BY <1>1, <1>2
  <1>6. ASSUME NEW k \in 1..Len(a)
        PROVE  IF k = n + 1 THEN a[k] = Head(o) /\ b[k] = u ELSE b[k] = a[k]
    <2>1. CASE k <= n
      <3>1. a[k] = w[k] /\ b[k] = w[k] /\ k # n + 1
        BY <1>1, <1>2, <1>5, <2>1
      <3> QED
        BY <3>1
    <2>2. CASE k = n + 1
      <3>1. a[k] = o[1]
        BY <1>1, <1>5, <2>2
      <3>2. Append(w, u) \in Seq(Unit(clock)) /\ Len(Append(w, u)) = n + 1 /\ Append(w, u)[n + 1] = u
        BY <1>1, <1>2
      <3>3. b[k] = Append(w, u)[k]
        BY <1>1, <1>5, <2>2, <3>2
      <3> QED
        BY <1>5, <2>2, <3>1, <3>2, <3>3
    <2>3. CASE k > n + 1
      <3>1. a[k] = o[k - n]
        BY <1>1, <1>5, <2>3
      <3>2. Append(w, u) \in Seq(Unit(clock)) /\ Len(Append(w, u)) = n + 1 /\ Tail(o) \in Seq(Unit(clock))
            /\ Len(Tail(o)) = Len(o) - 1
        BY <1>1, <1>2
      <3>3. b[k] = Tail(o)[k - (n + 1)] /\ k - (n + 1) \in 1..Len(Tail(o))
        BY <1>1, <1>5, <2>3, <3>2
      <3>4. Tail(o)[k - (n + 1)] = o[k - n]
        BY <1>1, <1>5, <2>3, <3>2, <3>3
      <3> QED
        BY <1>5, <2>3, <3>1, <3>3, <3>4
    <2> QED
      BY <1>5, <2>1, <2>2, <2>3
  <1> HIDE DEF a, b, n
  <1>7. \A k \in 1..Len(a) : /\ b[k].tag = a[k].tag /\ b[k].more = a[k].more
                             /\ a[k].tag # "Body" => b[k] = a[k]
    BY <1>2, <1>6
  <1>8. Len(b) = Len(a)
    BY <1>5
  <1> QED
    BY <1>4, <1>7, <1>8 DEF Sent

\* The chain of p is about p's stream and stages and about its peer's reading.
LEMMA ChainKeep ==
    ASSUME NEW p \in Sides, Chain(p), Unread(p)' = Unread(p), stage' = stage,
           Lists(clock) \subseteq Lists(clock'),
           received'[Peer(p)] = received[Peer(p)], got'[Peer(p)] = got[Peer(p)],
           want'[Peer(p)] = want[Peer(p)], body'[Peer(p)] = body[Peer(p)],
           got'[p] = got[p], serve'[p] = serve[p], served'[p] = served[p],
           \A u \in Sent(Peer(p))' : u.tag = "Requests" => u \in Sent(Peer(p))
    PROVE  Chain(p)'
  <1> DEFINE q == Peer(p)
  <1>1. SUFFICES ASSUME Alive(q) PROVE \E pos, list : Link(p, pos, list)'
    BY DEF Chain, Alive
  <1>2. PICK pos, list : Link(p, pos, list)
    BY <1>1 DEF Chain
  <1>3. Reader(pos[1], q, list)'
    BY <1>2 DEF Link, Reader
  <1>4. Alive(p) => Writer(pos[Len(Unread(p)) + 1], p, list)' /\ Asked(p, list)'
    <2>1. Alive(p) => Writer(pos[Len(Unread(p)) + 1], p, list)'
      BY <1>2 DEF Link, Writer
    <2>2. Alive(p) => Asked(p, list)'
      BY <1>2 DEF Link, Asked
    <2> QED
      BY <2>1, <2>2
  <1>5. Link(p, pos, list)'
    BY <1>2, <1>3, <1>4 DEF Link, Alive
  <1> QED
    BY <1>5

\* Writing a unit changes neither side's place.
LEMMA WriteChain ==
    ASSUME TypeInv, NEW s \in Sides, WriteUnit(s), Chain(s), Chain(Peer(s))
    PROVE  Chain(s)' /\ Chain(Peer(s))'
  <1> DEFINE q == Peer(s)
  <1>0. q \in Sides /\ q # s /\ Peer(q) = s
    BY Pair
  <1>1. UNCHANGED <<stage, got, received, fileVars, error, localVars, clock, faults>>
    BY DEF WriteUnit
  <1>2. Unread(q)' = Unread(q)
    <2>1. wire'[q] = wire[q] /\ out'[q] = out[q]
      <3>1. out' = [out EXCEPT ![s] = Tail(@)]
        BY DEF WriteUnit
      <3>2. \E w : wire' = [wire EXCEPT ![s] = w]
        BY Written
      <3> QED
        BY <1>0, <3>1, <3>2 DEF TypeInv, StreamOK
    <2> QED
      BY <2>1 DEF Unread
  <1>3. Chain(q)'
    <2>1. \A u \in Sent(s)' : u.tag = "Requests" => u \in Sent(s)
      BY UnreadWrite
    <2> QED
      BY <1>0, <1>1, <1>2, <2>1, ChainKeep DEF fileVars
  <1>4. Chain(s)'
    <2>1. SUFFICES ASSUME Alive(q) PROVE \E pos, list : Link(s, pos, list)'
      BY <1>1 DEF Chain, Alive
    <2>2. PICK pos, list : Link(s, pos, list)
      BY <2>1 DEF Chain
    <2>3. Linked(pos, Unread(s)', list) /\ Len(Unread(s)') = Len(Unread(s))
      BY <2>2, UnreadWrite, LinkedSame DEF Link
    <2>4. Sent(q)' = Sent(q)
      BY <1>2 DEF Sent
    <2>5. Reader(pos[1], q, list)'
      BY <1>1, <2>2 DEF Link, Reader, fileVars
    <2>6. Alive(s) => Writer(pos[Len(Unread(s)) + 1], s, list)'
      BY <1>1, <2>2, <2>3 DEF Link, Writer, fileVars
    <2>7. Alive(s) => Asked(s, list)'
      BY <1>1, <2>2, <2>4 DEF Link, Asked
    <2>8. Link(s, pos, list)'
      BY <1>1, <2>2, <2>3, <2>5, <2>6, <2>7 DEF Link, Alive
    <2> QED
      BY <2>8
  <1> QED
    BY <1>3, <1>4

\* A side that ends drops what it has not written, and reads nothing more.
LEMMA EndChain ==
    ASSUME TypeInv, NEW s \in Sides, Chain(s), stage' = [stage EXCEPT ![s] = stage'[s]],
           stage'[s] \in Ended, out' = [out EXCEPT ![s] = <<>>], got' = [got EXCEPT ![s] = NoFrame],
           UNCHANGED <<wire, received, clock>>,
           want'[Peer(s)] = want[Peer(s)], body'[Peer(s)] = body[Peer(s)]
    PROVE  Chain(s)' /\ Chain(Peer(s))'
  <1> DEFINE q == Peer(s)
  <1>0. q \in Sides /\ q # s /\ Peer(q) = s
    BY Pair
  <1>1. stage'[q] = stage[q] /\ got'[q] = got[q] /\ out'[s] = <<>> /\ ~Alive(s)'
    BY <1>0 DEF TypeInv, StageOK, GotOK, StreamOK, Alive
  <1>2. Chain(q)'
    BY <1>0, <1>1 DEF Chain
  <1>3. Chain(s)'
    <2>1. SUFFICES ASSUME Alive(q) PROVE \E pos, list : Link(s, pos, list)'
      BY <1>1 DEF Chain, Alive
    <2>2. PICK pos, list : Link(s, pos, list)
      BY <2>1 DEF Chain
    <2>3. Linked(pos, wire[s] \o out[s], list)
      BY <2>2 DEF Link, Unread
    <2>4. PICK start : Linked(start, wire[s], list) /\ start[1] = pos[1]
      BY <2>3, UnreadType, LinkedStart
    <2>5. Linked(start, Unread(s)', list)
      BY <1>1, <2>4, UnreadStart
    <2>6. Reader(start[1], q, list)'
      BY <1>1, <2>2, <2>4 DEF Link, Reader
    <2>7. Link(s, start, list)'
      BY <1>1, <2>2, <2>5, <2>6 DEF Link
    <2> QED
      BY <2>7
  <1> QED
    BY <1>2, <1>3

\* A side that waits for a frame reads the one it waits for.
LEMMA ReadExpected ==
    ASSUME TypeInv, NEW s \in Sides, Chain(Peer(s)), stage[s] \in Exchanged, ~got[s].done,
           wire[Peer(s)] # <<>>
    PROVE  LET u == Head(wire[Peer(s)])
           IN  u.tag = stage[s] /\ Counts(s, IF stage[s] = "Fin" THEN 0 ELSE 1)
  <1> DEFINE q == Peer(s)
             u == Head(wire[q])
  <1>0. q \in Sides /\ q # s /\ Peer(q) = s
    BY Pair
  <1>1. Alive(s)
    BY DEF Alive, Ended, Exchanged
  <1>2. PICK pos, list : Link(q, pos, list)
    BY <1>0, <1>1 DEF Chain
  <1>3. Unread(q) \in Seq(Unit(clock)) /\ Unread(q) # <<>> /\ Head(Unread(q)) = u
    <2>1. wire[q] \in Seq(Unit(clock)) /\ out[q] \in Seq(Unit(clock)) /\ Unread(q) \in Seq(Unit(clock))
      BY <1>0, UnreadType
    <2> QED
      BY <2>1, ConcatRest DEF Unread
  <1>4. pos[1] \in Position /\ pos[2] \in Position /\ Step(pos[1], u, pos[2], list)
    BY <1>2, <1>3, LinkedRest DEF Link
  <1>5. Reader(pos[1], s, list)
    BY <1>0, <1>2 DEF Link
  <1> DEFINE x == pos[1]
             y == pos[2]
  <1>6. y.rcv <= MaxConnection /\ x.rcv <= MaxConnection /\ x.rcv = received[s]
    BY <1>4, <1>5 DEF Position, Reader
  <1> HIDE DEF x, y, u, q
  <1>7. CASE stage[s] \in Early
    <2>1. x.st = stage[s]
      BY <1>5, <1>7 DEF Reader, x
    <2>2. FrameStep(x, u, y, list)
      BY <1>4, <1>7, <2>1 DEF Step, AnswerStep, BodyStep, EndStep, Early, x, y
    <2>3. u.tag = stage[s] /\ y.rcv = x.rcv + 1 /\ stage[s] # "Fin"
      BY <1>7, <2>1, <2>2 DEF FrameStep, Early
    <2> QED
      BY <1>6, <2>3 DEF Counts, u, q
  <1>8. CASE stage[s] = "Done"
    <2>1. x.st = "Files" /\ x.left = 0 /\ x.todo = <<>>
      BY <1>5, <1>8 DEF Reader, x
    <2>2. EndStep(x, u, y)
      BY <1>4, <2>1 DEF Step, FrameStep, AnswerStep, BodyStep, Early, x, y
    <2>3. u.tag = stage[s] /\ y.rcv = x.rcv + 1 /\ stage[s] # "Fin"
      BY <1>8, <2>1, <2>2 DEF EndStep
    <2> QED
      BY <1>6, <2>3 DEF Counts, u, q
  <1>9. CASE stage[s] = "Fin"
    <2>1. x.st = "Fin"
      BY <1>5, <1>9 DEF Reader, x
    <2>2. u.tag = stage[s]
      BY <1>4, <1>9, <2>1 DEF Step, FrameStep, AnswerStep, BodyStep, EndStep, Early, x, y
    <2>3. received[s] + 0 <= MaxConnection
      BY <1>6, SessionAssumption DEF TypeInv, CountsOK
    <2> QED
      BY <1>9, <2>2, <2>3 DEF Counts, u, q
  <1> QED
    BY <1>7, <1>8, <1>9 DEF Exchanged, Early

\* The place after a unit of a frame.
LEMMA ReadChain ==
    ASSUME TypeInv, NEW s \in Sides, ReadUnit(s), Chain(s), Chain(Peer(s))
    PROVE  Chain(s)' /\ Chain(Peer(s))'
  <1> DEFINE q == Peer(s)
             u == Head(wire[q])
             n == IF stage[s] = "Fin" THEN 0 ELSE 1
  <1>0. q \in Sides /\ q # s /\ Peer(q) = s
    BY Pair
  <1>1. /\ stage[s] \in Exchanged /\ ~got[s].done /\ wire[q] # <<>>
        /\ UNCHANGED <<localVars, clock, faults>>
    BY DEF ReadUnit
  <1>2. u.tag = stage[s] /\ Counts(s, n)
    BY <1>1, ReadExpected
  <1>3. /\ wire' = [wire EXCEPT ![q] = Tail(wire[q])]
        /\ received' = [received EXCEPT ![s] = received[s] + n]
        /\ got' = [got EXCEPT ![s] = [done |-> u.more = 0, val |-> u.val]]
        /\ UNCHANGED <<stage, out, fileVars, error>>
    BY <1>2 DEF ReadUnit
  <1>4. /\ wire'[q] = Tail(wire[q]) /\ wire'[s] = wire[s]
        /\ received'[s] = received[s] + n /\ received'[q] = received[q]
        /\ got'[s] = [done |-> u.more = 0, val |-> u.val] /\ got'[q] = got[q]
    BY <1>0, <1>3 DEF TypeInv, StreamOK, CountsOK, GotOK
  <1>5. /\ Unread(q) # <<>> /\ Head(Unread(q)) = u /\ u \in Sent(q)
        /\ Unread(q)' = Tail(Unread(q)) /\ Sent(q)' \subseteq Sent(q)
    BY <1>0, <1>1, <1>3, <1>4, UnreadTail
  <1>6. Unread(s)' = Unread(s) /\ Sent(s)' = Sent(s)
    BY <1>3, <1>4 DEF Unread, Sent
  <1> HIDE DEF q, n
  <1>7. Chain(s)'
    <2>1. SUFFICES ASSUME Alive(q) PROVE \E pos, list : Link(s, pos, list)'
      BY <1>3 DEF Chain, Alive, q
    <2>2. PICK pos, list : Link(s, pos, list)
      BY <2>1 DEF Chain, q
    <2>3. Reader(pos[1], q, list)'
      BY <1>3, <1>4, <2>2 DEF Link, Reader, fileVars, q
    <2>4. Alive(s) => Writer(pos[Len(Unread(s)) + 1], s, list)'
      BY <1>3, <1>6, <2>2 DEF Link, Writer, fileVars
    <2>5. Alive(s) => Asked(s, list)'
      <3>1. ASSUME Alive(s) PROVE Asked(s, list)
        BY <2>2, <3>1 DEF Link
      <3>2. stage[s] = "Requests" /\ Alive(s) => u.val = list
        BY <1>2, <1>5, <3>1 DEF Asked, Early, q
      <3>3. got'[s].val = u.val
        BY <1>4
      <3>4. stage' = stage /\ \A v \in Sent(q)' : v \in Sent(q)
        BY <1>3, <1>5
      <3> HIDE DEF u
      <3> QED
        BY <3>1, <3>2, <3>3, <3>4 DEF Asked, q
    <2>6. Link(s, pos, list)'
      BY <1>1, <1>3, <1>6, <2>2, <2>3, <2>4, <2>5 DEF Link, Alive, q
    <2> QED
      BY <2>6
  <1>8. Chain(q)'
    <2>0. Alive(s)
      BY <1>1 DEF Alive, Ended, Exchanged
    <2>1. PICK pos, list : Link(q, pos, list)
      BY <1>0, <2>0 DEF Chain, q
    <2>2. Linked(pos, Unread(q), list) /\ Unread(q) \in Seq(Unit(clock))
      BY <1>0, <2>1, UnreadType DEF Link
    <2>3. /\ pos[1] \in Position /\ pos[2] \in Position /\ Step(pos[1], u, pos[2], list)
          /\ \E rest : /\ Linked(rest, Tail(Unread(q)), list) /\ rest[1] = pos[2]
                       /\ rest[Len(Tail(Unread(q))) + 1] = pos[Len(Unread(q)) + 1]
      BY <1>5, <2>2, LinkedRest
    <2>4. PICK rest : /\ Linked(rest, Unread(q)', list) /\ rest[1] = pos[2]
                      /\ rest[Len(Unread(q)') + 1] = pos[Len(Unread(q)) + 1]
      BY <1>5, <2>3
    <2>5. Reader(pos[1], s, list)
      BY <1>0, <2>1 DEF Link
    <2>6. Reader(pos[2], s, list)'
      <3> DEFINE x == pos[1]
                 y == pos[2]
      <3>1. x \in Position /\ y \in Position /\ Step(x, u, y, list) /\ u.more \in Nat
        BY <1>0, <1>5, <2>3, UnreadType DEF Unit
      <3>2. received'[s] = x.rcv + n /\ got'[s].done = (u.more = 0) /\ want'[s] = want[s] /\ stage' = stage
        BY <1>3, <1>4, <2>5 DEF Reader, fileVars
      <3>3. x.rcv \in Nat
        BY <3>1 DEF Position
      <3> HIDE DEF x, y, u
      <3>4. CASE stage[s] \in Early
        <4>1. x.st = stage[s] /\ list = want[s]
          BY <1>1, <2>5, <3>4 DEF Reader, x
        <4>2. FrameStep(x, u, y, list)
          BY <3>1, <3>4, <4>1 DEF Step, AnswerStep, BodyStep, EndStep, Early
        <4>3. y.rcv = x.rcv + n
          BY <3>4, <4>2 DEF FrameStep, Early, n
        <4>4. IF u.more = 0 THEN /\ y.st = After(stage[s])
                                 /\ stage[s] = "Requests" => y.left = 0 /\ y.todo = list
                            ELSE y.st = stage[s]
          BY <3>1, <4>1, <4>2 DEF FrameStep
        <4> QED
          BY <3>2, <3>4, <4>1, <4>3, <4>4 DEF Reader, Early, y
      <3>5. CASE stage[s] = "Done"
        <4>1. x.st = "Files" /\ x.left = 0 /\ x.todo = <<>>
          BY <1>1, <2>5, <3>5 DEF Reader, x
        <4>2. EndStep(x, u, y)
          BY <3>1, <4>1 DEF Step, FrameStep, AnswerStep, BodyStep, Early
        <4>3. y.st = "Fin" /\ y.rcv = x.rcv + n
          BY <3>5, <4>1, <4>2 DEF EndStep, n
        <4>4. u.more = 0
          BY <4>2 DEF EndStep
        <4> QED
          BY <3>2, <3>5, <4>3, <4>4 DEF Reader, Early, y
      <3>6. CASE stage[s] = "Fin"
        <4>1. x.st = "Fin"
          BY <1>1, <2>5, <3>6 DEF Reader, x
        <4>2. y.st = "End" /\ y.rcv = x.rcv /\ u.more = 0
          BY <3>1, <4>1 DEF Step, FrameStep, AnswerStep, BodyStep, EndStep, Early
        <4>3. x.rcv + n = x.rcv
          BY <3>3, <3>6 DEF n
        <4> QED
          BY <3>2, <3>6, <4>2, <4>3 DEF Reader, Early, y
      <3> QED
        BY <1>1, <3>4, <3>5, <3>6 DEF Exchanged, Early
    <2>7. Alive(q) => Writer(pos[Len(Unread(q)) + 1], q, list) /\ Asked(q, list)
      BY <2>1 DEF Link
    <2>8. Alive(q) => Writer(rest[Len(Unread(q)) + 1], q, list)'
      BY <1>3, <2>4, <2>7 DEF Writer, fileVars
    <2>9. Alive(q) => Asked(q, list)'
      BY <1>0, <1>3, <1>4, <1>6, <2>7 DEF Asked
    <2>10. Link(q, rest, list)'
      BY <1>0, <1>1, <1>3, <2>1, <2>4, <2>6, <2>8, <2>9 DEF Link, Alive
    <2> QED
      BY <2>10 DEF Chain
  <1> QED
    BY <1>7, <1>8 DEF q

\* A side in the file phase reads what it asked for.
LEMMA AnswerExpected ==
    ASSUME TypeInv, NEW s \in Sides, Chain(Peer(s)), stage[s] = "Receive", want[s] # <<>>,
           ~body[s].on, wire[Peer(s)] # <<>>
    PROVE  LET u == Head(wire[Peer(s)])
               r == Head(want[s])
           IN  /\ Answers(r, u) \/ u.tag = "FileUnavailable"
               /\ Counts(s, IF u.tag = "File" THEN 1 + Size[r.path] ELSE 1)
  <1> DEFINE q == Peer(s)
             u == Head(wire[q])
             r == Head(want[s])
  <1>0. q \in Sides /\ q # s /\ Peer(q) = s
    BY Pair
  <1>1. Alive(s)
    BY DEF Alive, Ended
  <1>2. PICK pos, list : Link(q, pos, list)
    BY <1>0, <1>1 DEF Chain
  <1>3. Unread(q) \in Seq(Unit(clock)) /\ Unread(q) # <<>> /\ Head(Unread(q)) = u
    <2>1. wire[q] \in Seq(Unit(clock)) /\ out[q] \in Seq(Unit(clock)) /\ Unread(q) \in Seq(Unit(clock))
      BY <1>0, UnreadType
    <2> QED
      BY <2>1, ConcatRest DEF Unread
  <1>4. pos[1] \in Position /\ pos[2] \in Position /\ Step(pos[1], u, pos[2], list)
    BY <1>2, <1>3, LinkedRest DEF Link
  <1>5. Reader(pos[1], s, list)
    BY <1>0, <1>2 DEF Link
  <1> DEFINE x == pos[1]
             y == pos[2]
  <1>6. y.rcv <= MaxConnection /\ x.rcv = received[s]
    BY <1>4, <1>5 DEF Position, Reader
  <1>7. x.st = "Files" /\ x.left = 0 /\ x.todo = want[s]
    BY <1>5 DEF Reader, TypeInv, BodyOK, NoBody
  <1> HIDE DEF x, y, u, q, r
  <1>8. AnswerStep(x, u, y)
    BY <1>4, <1>7 DEF Step, FrameStep, BodyStep, EndStep, Early, x, y
  <1>9. CASE u.tag = "File"
    <2>1. u.val = r /\ y.rcv = x.rcv + (1 + Size[r.path])
      BY <1>7, <1>8, <1>9 DEF AnswerStep, r
    <2> QED
      BY <1>6, <1>9, <2>1 DEF Answers, Counts, u, q, r
  <1>10. CASE u.tag # "File"
    <2>1. u.tag = "FileUnavailable" /\ y.rcv = x.rcv + 1
      BY <1>8, <1>10 DEF AnswerStep
    <2> QED
      BY <1>6, <2>1 DEF Counts, u, q
  <1> QED
    BY <1>9, <1>10

\* The steps of a receiving side move its place and no other.
LEMMA ReceiveChain ==
    ASSUME TypeInv, NEW s \in Sides, Chain(s), Chain(Peer(s)), stage[s] = "Receive",
           wire[Peer(s)] # <<>>, wire' = [wire EXCEPT ![Peer(s)] = Tail(wire[Peer(s)])],
           UNCHANGED <<stage, out, got, serve, served, clock>>,
           received'[Peer(s)] = received[Peer(s)], want'[Peer(s)] = want[Peer(s)],
           body'[Peer(s)] = body[Peer(s)],
           \A x, y \in Position : \A list :
               Reader(x, s, list) /\ Step(x, Head(wire[Peer(s)]), y, list) => Reader(y, s, list)'
    PROVE  Chain(s)' /\ Chain(Peer(s))'
  <1> DEFINE q == Peer(s)
             u == Head(wire[q])
  <1>0. q \in Sides /\ q # s /\ Peer(q) = s
    BY Pair
  <1>1. wire'[q] = Tail(wire[q]) /\ wire'[s] = wire[s]
    BY <1>0 DEF TypeInv, StreamOK
  <1>2. /\ Unread(q) # <<>> /\ Head(Unread(q)) = u
        /\ Unread(q)' = Tail(Unread(q)) /\ Sent(q)' \subseteq Sent(q)
    BY <1>0, <1>1, UnreadTail
  <1>3. Unread(s)' = Unread(s) /\ Sent(s)' = Sent(s)
    BY <1>1 DEF Unread, Sent
  <1>4. Chain(s)'
    BY <1>2, <1>3, ChainKeep
  <1>5. Chain(q)'
    <2>0. Alive(s)
      BY DEF Alive, Ended
    <2>1. PICK pos, list : Link(q, pos, list)
      BY <1>0, <2>0 DEF Chain
    <2>2. Linked(pos, Unread(q), list) /\ Unread(q) \in Seq(Unit(clock))
      BY <1>0, <2>1, UnreadType DEF Link
    <2>3. /\ pos[1] \in Position /\ pos[2] \in Position /\ Step(pos[1], u, pos[2], list)
          /\ \E rest : /\ Linked(rest, Tail(Unread(q)), list) /\ rest[1] = pos[2]
                       /\ rest[Len(Tail(Unread(q))) + 1] = pos[Len(Unread(q)) + 1]
      BY <1>2, <2>2, LinkedRest
    <2>4. PICK rest : /\ Linked(rest, Unread(q)', list) /\ rest[1] = pos[2]
                      /\ rest[Len(Unread(q)') + 1] = pos[Len(Unread(q)) + 1]
      BY <1>2, <2>3
    <2>5. Reader(pos[1], s, list)
      BY <1>0, <2>1 DEF Link
    <2>6. Reader(pos[2], s, list)'
      BY <2>3, <2>5
    <2>7. Alive(q) => Writer(pos[Len(Unread(q)) + 1], q, list) /\ Asked(q, list)
      BY <2>1 DEF Link
    <2> HIDE DEF q
    <2>8. Alive(q) => Writer(rest[Len(Unread(q)) + 1], q, list)'
      BY <2>4, <2>7 DEF Writer
    <2>9. Alive(q) => Asked(q, list)'
      BY <1>0, <1>3, <2>7 DEF Asked
    <2>10. Link(q, rest, list)'
      BY <1>0, <2>1, <2>4, <2>6, <2>8, <2>9 DEF Link, Alive
    <2> QED
      BY <2>10 DEF Chain
  <1> QED
    BY <1>4, <1>5

\* The answer to the next request.
LEMMA HeaderChain ==
    ASSUME TypeInv, NEW s \in Sides, ReceiveHeader(s), Chain(s), Chain(Peer(s))
    PROVE  Chain(s)' /\ Chain(Peer(s))'
  <1> DEFINE q == Peer(s)
             u == Head(wire[q])
             r == Head(want[s])
             n == IF u.tag = "File" THEN 1 + Size[r.path] ELSE 1
  <1>0. q \in Sides /\ q # s
    BY Pair
  <1>1. /\ stage[s] = "Receive" /\ want[s] # <<>> /\ ~body[s].on /\ wire[q] # <<>>
        /\ UNCHANGED <<served, localVars, clock, faults>>
    BY DEF ReceiveHeader
  <1>2. (Answers(r, u) \/ u.tag = "FileUnavailable") /\ Counts(s, n)
    BY <1>1, AnswerExpected
  <1>3. /\ wire' = [wire EXCEPT ![q] = Tail(wire[q])]
        /\ received' = [received EXCEPT ![s] = received[s] + n]
        /\ IF u.tag = "File"
           THEN /\ body' = [body EXCEPT ![s] = [on |-> TRUE, left |-> Size[r.path], good |-> TRUE,
                                                step |-> "bytes"]]
                /\ UNCHANGED want
           ELSE want' = [want EXCEPT ![s] = Tail(want[s])] /\ UNCHANGED body
        /\ UNCHANGED <<stage, out, got, serve, error>>
    BY <1>2 DEF ReceiveHeader, Remaining
  <1>4. /\ received'[s] = received[s] + n /\ received'[q] = received[q]
        /\ want'[q] = want[q] /\ body'[q] = body[q]
        /\ IF u.tag = "File"
           THEN body'[s].on /\ body'[s].left = Size[r.path] /\ want'[s] = want[s]
           ELSE body'[s] = body[s] /\ want'[s] = Tail(want[s])
    BY <1>0, <1>3 DEF TypeInv, CountsOK, BodyOK, ListsOK
  <1>5. body[s].left = 0
    BY <1>1 DEF TypeInv, BodyOK, NoBody
  <1>6. ASSUME NEW x \in Position, NEW y \in Position, NEW list,
               Reader(x, s, list), Step(x, u, y, list)
        PROVE  Reader(y, s, list)'
    <2>1. x.st = "Files" /\ x.left = 0 /\ x.todo = want[s] /\ x.rcv = received[s]
      BY <1>1, <1>5, <1>6 DEF Reader
    <2> HIDE DEF u, r, n
    <2>2. AnswerStep(x, u, y)
      BY <1>1, <1>6, <2>1 DEF Step, FrameStep, BodyStep, EndStep, Early
    <2>3. y.st = "Files" /\ y.todo = Tail(want[s]) /\ y.rcv = received'[s] /\ y.left = body'[s].left
      <3>1. CASE u.tag = "File"
        <4>1. u.val = r /\ y.rcv = x.rcv + (1 + Size[r.path]) /\ y.left = Size[r.path]
          BY <2>1, <2>2, <3>1 DEF AnswerStep, r
        <4> QED
          BY <1>4, <2>1, <2>2, <3>1, <4>1 DEF AnswerStep, n
      <3>2. CASE u.tag # "File"
        BY <1>4, <1>5, <2>1, <2>2, <3>2 DEF AnswerStep, n
      <3> QED
        BY <3>1, <3>2
    <2>4. y.todo = IF body'[s].on THEN Tail(want'[s]) ELSE want'[s]
      BY <1>1, <1>4, <2>3
    <2> QED
      BY <1>1, <1>3, <2>3, <2>4 DEF Reader, Early
  <1> QED
    BY <1>1, <1>3, <1>4, <1>6, ReceiveChain

\* One unit of a file.
LEMMA BodyChain ==
    ASSUME TypeInv, NEW s \in Sides, ReceiveBody(s), Chain(s), Chain(Peer(s))
    PROVE  Chain(s)' /\ Chain(Peer(s))'
  <1> DEFINE q == Peer(s)
             u == Head(wire[q])
             g == (body[s].good /\ u.val.version = Head(want[s]).version)
  <1>0. q \in Sides /\ q # s
    BY Pair
  <1>1. /\ body[s].on /\ body[s].left > 0 /\ wire[q] # <<>> /\ stage[s] = "Receive"
        /\ wire' = [wire EXCEPT ![q] = Tail(wire[q])]
        /\ UNCHANGED <<stage, out, got, received, want, serve, served, error,
                       localVars, clock, faults>>
    BY DEF ReceiveBody, TypeInv, BodyOK
  <1>2. body' = [body EXCEPT ![s] = [body[s] EXCEPT !.left = body[s].left - 1, !.good = g]]
    BY DEF ReceiveBody
  <1>3. body'[s] = [body[s] EXCEPT !.left = body[s].left - 1, !.good = g] /\ body'[q] = body[q]
    BY <1>0, <1>2 DEF TypeInv, BodyOK
  <1> HIDE DEF g
  <1>4. body'[s].on /\ body'[s].left = body[s].left - 1
    <2>1. body[s] \in Bodies
      BY DEF TypeInv, BodyOK
    <2> QED
      BY <1>1, <1>3, <2>1 DEF Bodies
  <1>5. ASSUME NEW x \in Position, NEW y \in Position, NEW list,
               Reader(x, s, list), Step(x, u, y, list)
        PROVE  Reader(y, s, list)'
    <2>1. x.st = "Files" /\ x.left = body[s].left /\ x.todo = Tail(want[s]) /\ x.rcv = received[s]
      BY <1>1, <1>5 DEF Reader
    <2> HIDE DEF u
    <2>2. BodyStep(x, u, y)
      BY <1>1, <1>5, <2>1 DEF Step, FrameStep, AnswerStep, EndStep, Early
    <2>3. y.st = "Files" /\ y.todo = Tail(want[s]) /\ y.rcv = received'[s] /\ y.left = body'[s].left
      BY <1>1, <1>4, <2>1, <2>2 DEF BodyStep
    <2> QED
      BY <1>1, <1>4, <2>3 DEF Reader, Early
  <1> QED
    BY <1>1, <1>3, <1>5, ReceiveChain

\* A received file is applied, or could not be.
LEMMA ApplyChain ==
    ASSUME TypeInv, NEW s \in Sides, Chain(s), Chain(Peer(s)), body[s].on, body[s].left = 0,
           body' = [body EXCEPT ![s] = NoBody], want' = [want EXCEPT ![s] = Tail(want[s])],
           UNCHANGED <<stage, out, got, wire, received, serve, served, clock>>
    PROVE  Chain(s)' /\ Chain(Peer(s))'
  <1> DEFINE q == Peer(s)
  <1>0. q \in Sides /\ q # s /\ Peer(q) = s
    BY Pair
  <1>1. /\ stage[s] = "Receive" /\ body'[s] = NoBody /\ body'[q] = body[q]
        /\ want'[s] = Tail(want[s]) /\ want'[q] = want[q]
    BY <1>0 DEF TypeInv, BodyOK, ListsOK
  <1>2. \A p \in Sides : Unread(p)' = Unread(p) /\ Sent(p)' = Sent(p)
    BY DEF Unread, Sent
  <1>3. Chain(s)'
    BY <1>0, <1>1, <1>2, ChainKeep
  <1>4. Chain(q)'
    <2>0. Alive(s)
      BY <1>1 DEF Alive, Ended
    <2>1. PICK pos, list : Link(q, pos, list)
      BY <1>0, <2>0 DEF Chain
    <2>2. Reader(pos[1], s, list)
      BY <1>0, <2>1 DEF Link
    <2>3. Reader(pos[1], s, list)'
      BY <1>1, <2>2 DEF Reader, Early, NoBody
    <2>4. Alive(q) => Writer(pos[Len(Unread(q)) + 1], q, list) /\ Asked(q, list)
      BY <2>1 DEF Link
    <2> HIDE DEF q
    <2>5. Alive(q) => Writer(pos[Len(Unread(q)) + 1], q, list)' /\ Asked(q, list)'
      BY <1>0, <1>2, <2>4 DEF Writer, Asked
    <2>6. Link(q, pos, list)'
      BY <1>0, <1>2, <2>1, <2>3, <2>5 DEF Link, Alive
    <2> QED
      BY <2>6 DEF Chain
  <1> QED
    BY <1>3, <1>4

\* The first place and the last.
LEMMA LinkedEnds ==
    ASSUME NEW units, Len(units) \in Nat, NEW pos, NEW list, Linked(pos, units, list)
    PROVE  pos[1] \in Position /\ pos[Len(units) + 1] \in Position
  BY DEF Linked

\* No unit at all.
LEMMA LinkedNone ==
    ASSUME NEW x \in Position, NEW list
    PROVE  \E pos : Linked(pos, <<>>, list) /\ pos[1] = x
  <1> DEFINE pos == [k \in 1..1 |-> x]
  <1>1. pos \in [1..(0 + 1) -> Position] /\ pos[1] = x /\ Len(<<>>) = 0
    OBVIOUS
  <1> HIDE DEF pos
  <1>2. Linked(pos, <<>>, list)
    BY <1>1 DEF Linked
  <1> QED
    BY <1>1, <1>2

\* A side that has written everything writes more.
LEMMA AppendChain ==
    ASSUME TypeInv, NEW s \in Sides, Chain(s), Alive(s), out[s] = <<>>,
           NEW units \in Seq(Unit(clock)), out'[s] = units, wire'[s] = wire[s],
           LET q == Peer(s)
           IN  /\ stage'[q] = stage[q] /\ received'[q] = received[q] /\ got'[q] = got[q]
               /\ want'[q] = want[q] /\ body'[q] = body[q] /\ Sent(q)' = Sent(q),
           UNCHANGED clock,
           \A x \in Position : \A list \in Lists(clock) : Writer(x, s, list) /\ Asked(s, list) =>
               /\ \E more : /\ Linked(more, units, list) /\ more[1] = x
                            /\ \E y : y = more[Len(units) + 1] /\ Writer(y, s, list)'
               /\ Asked(s, list)'
    PROVE  Chain(s)'
  <1> DEFINE q == Peer(s)
  <1>1. SUFFICES ASSUME Alive(q) PROVE \E pos, list : Link(s, pos, list)'
    BY DEF Chain, Alive
  <1>2. PICK pos, list : Link(s, pos, list)
    BY <1>1 DEF Chain
  <1>3. /\ list \in Lists(clock) /\ Linked(pos, Unread(s), list) /\ Reader(pos[1], q, list)
        /\ Writer(pos[Len(Unread(s)) + 1], s, list) /\ Asked(s, list)
    BY <1>2 DEF Link
  <1>4. Unread(s) \in Seq(Unit(clock)) /\ Len(Unread(s)) \in Nat /\ Unread(s)' = Unread(s) \o units
    BY UnreadType, UnreadJoin
  <1>5. PICK x : x = pos[Len(Unread(s)) + 1] /\ x \in Position
    BY <1>3, <1>4, LinkedEnds
  <1>6. /\ \E more : /\ Linked(more, units, list) /\ more[1] = x
                     /\ \E y : y = more[Len(units) + 1] /\ Writer(y, s, list)'
        /\ Asked(s, list)'
    BY <1>3, <1>5
  <1>7. PICK more, y : /\ Linked(more, units, list) /\ more[1] = x
                       /\ y = more[Len(units) + 1] /\ Writer(y, s, list)'
    BY <1>6
  <1>8. PICK all : /\ Linked(all, Unread(s) \o units, list) /\ all[1] = pos[1]
                   /\ all[Len(Unread(s) \o units) + 1] = y
    <2>1. Linked(pos, Unread(s), list) /\ Linked(more, units, list) /\ pos[Len(Unread(s)) + 1] = more[1]
      BY <1>3, <1>5, <1>7
    <2> QED
      BY <1>4, <1>7, <2>1, LinkedJoin
  <1>9. Reader(all[1], q, list)'
    BY <1>3, <1>8 DEF Reader
  <1>10. Link(s, all, list)'
    BY <1>3, <1>4, <1>6, <1>7, <1>8, <1>9 DEF Link
  <1> QED
    BY <1>10

\* A side that goes on reads from where it was.
LEMMA ReaderChain ==
    ASSUME TypeInv, NEW s \in Sides, Chain(Peer(s)), Alive(s),
           LET q == Peer(s)
           IN  /\ Unread(q)' = Unread(q) /\ stage'[q] = stage[q] /\ got'[q] = got[q]
               /\ serve'[q] = serve[q] /\ served'[q] = served[q],
           UNCHANGED clock,
           \A x \in Position : \A list : Reader(x, s, list) => Reader(x, s, list)',
           \A u \in Sent(s)' : u.tag = "Requests" => u \in Sent(s)
    PROVE  Chain(Peer(s))'
  <1> DEFINE q == Peer(s)
  <1>0. q \in Sides /\ q # s /\ Peer(q) = s
    BY Pair
  <1>1. PICK pos, list : Link(q, pos, list)
    BY <1>0 DEF Chain
  <1>2. pos[1] \in Position
    <2>1. Linked(pos, Unread(q), list) /\ Len(Unread(q)) \in Nat
      BY <1>0, <1>1, UnreadType DEF Link
    <2> QED
      BY <2>1 DEF Linked
  <1>3. Reader(pos[1], s, list)'
    BY <1>0, <1>1, <1>2 DEF Link
  <1>4. Alive(q) => Writer(pos[Len(Unread(q)) + 1], q, list) /\ Asked(q, list)
    BY <1>1 DEF Link
  <1>5. Unread(q)' = Unread(q) /\ stage'[q] = stage[q] /\ got'[q] = got[q]
        /\ serve'[q] = serve[q] /\ served'[q] = served[q]
    OBVIOUS
  <1> HIDE DEF q
  <1>6. Alive(q) => Writer(pos[Len(Unread(q)) + 1], q, list)'
    BY <1>4, <1>5 DEF Writer
  <1>7. Alive(q) => Asked(q, list)'
    BY <1>0, <1>4, <1>5 DEF Asked
  <1>8. Link(q, pos, list)'
    BY <1>0, <1>1, <1>3, <1>5, <1>6, <1>7 DEF Link, Alive
  <1> QED
    BY <1>8 DEF Chain, q

\* A step of an install that leaves the request open.
LEMMA InstallChain ==
    ASSUME TypeInv, NEW s \in Sides, Chain(s), Chain(Peer(s)), body[s].on, NEW st,
           body' = [body EXCEPT ![s] = [body[s] EXCEPT !.step = st]],
           UNCHANGED <<stage, out, got, wire, received, want, serve, served, clock>>
    PROVE  Chain(s)' /\ Chain(Peer(s))'
  <1> DEFINE q == Peer(s)
  <1>0. q \in Sides /\ q # s /\ Peer(q) = s
    BY Pair
  <1>1. body'[s] = [body[s] EXCEPT !.step = st] /\ body'[q] = body[q] /\ body[s] \in Bodies
    BY <1>0 DEF TypeInv, BodyOK
  <1>2. body'[s].on = body[s].on /\ body'[s].left = body[s].left
    <2>1. \A b \in Bodies : [b EXCEPT !.step = st].on = b.on /\ [b EXCEPT !.step = st].left = b.left
      BY DEF Bodies
    <2> QED
      BY <1>1, <2>1
  <1>3. \A p \in Sides : Unread(p)' = Unread(p) /\ Sent(p)' = Sent(p)
    BY DEF Unread, Sent
  <1>4. Chain(s)'
    BY <1>0, <1>1, <1>3, ChainKeep
  <1>5. Alive(s)
    BY DEF TypeInv, BodyOK, Alive, Ended
  <1>6. \A x \in Position : \A list : Reader(x, s, list) => Reader(x, s, list)'
    BY <1>2 DEF Reader
  <1>7. Chain(q)'
    BY <1>0, <1>3, <1>5, <1>6, ReaderChain
  <1> QED
    BY <1>4, <1>7

\* A side enters an exchange: its frame is what the peer expects after the
\* frames before it.
LEMMA FrameChain ==
    ASSUME TypeInv, NEW s \in Sides, Chain(s), out[s] = <<>>, stage[s] \in Early \ {"Requests"},
           NEW val, Frame(After(stage[s]), val) \in Seq(Unit(clock)),
           Enter(s, After(stage[s]), Frame(After(stage[s]), val)), UNCHANGED <<wire, received, clock, body>>,
           want'[Peer(s)] = want[Peer(s)]
    PROVE  Chain(s)'
  <1> DEFINE q == Peer(s)
             st == After(stage[s])
  <1>0. q \in Sides /\ q # s
    BY Pair
  <1>1. st \in {"Roster", "Manifests", "Requests"} /\ st \in Early /\ Alive(s)
    BY DEF After, Early, Alive, Ended
  <1>2. PICK units : units = Frame(st, val)
    OBVIOUS
  <1>3. /\ stage' = [stage EXCEPT ![s] = st] /\ out' = [out EXCEPT ![s] = units]
        /\ got' = [got EXCEPT ![s] = NoFrame]
    BY <1>2 DEF Enter
  <1>4. /\ stage'[s] = st /\ out'[s] = units /\ ~got'[s].done
        /\ stage'[q] = stage[q] /\ out'[q] = out[q] /\ got'[q] = got[q]
    BY <1>0, <1>3 DEF TypeInv, StageOK, StreamOK, GotOK, NoFrame
  <1>5. Sent(q)' = Sent(q)
    BY <1>4 DEF Sent, Unread
  <1>6. units = Units(st, val, FrameUnits) /\ units \in Seq(Unit(clock))
    BY <1>1, <1>2 DEF Frame
  <1> HIDE DEF q, st
  <1>7. ASSUME NEW x \in Position, NEW list \in Lists(clock), Writer(x, s, list), Asked(s, list)
        PROVE  /\ \E more : /\ Linked(more, units, list) /\ more[1] = x
                            /\ \E y : y = more[Len(units) + 1] /\ Writer(y, s, list)'
               /\ Asked(s, list)'
    <2>1. x.st = st /\ x.left = FrameUnits
      BY <1>7 DEF Writer, st
    <2>2. x.st \in Early /\ units = Units(x.st, val, x.left) /\ clock \in 0..MaxEdits
      BY <1>1, <1>6, <2>1, UnreadType
    <2>3. \E pos : LET us == Units(x.st, val, x.left) IN
              /\ Linked(pos, us, list) /\ pos[1] = x
              /\ LET y == pos[Len(us) + 1]
                 IN  /\ y.st = After(x.st) /\ y.rcv = Due(x.st)
                     /\ y.left = IF x.st = "Requests" THEN 0 ELSE FrameUnits
                     /\ x.st = "Requests" => y.todo = list
      BY <2>2, LinkedFrame
    <2>4. PICK more : /\ Linked(more, units, list) /\ more[1] = x
                      /\ LET y == more[Len(units) + 1]
                         IN  /\ y.st = After(x.st) /\ y.rcv = Due(x.st)
                             /\ y.left = IF x.st = "Requests" THEN 0 ELSE FrameUnits
                             /\ x.st = "Requests" => y.todo = list
      BY <2>2, <2>3
    <2>5. PICK y : y = more[Len(units) + 1]
      OBVIOUS
    <2>6. Writer(y, s, list)'
      BY <1>1, <1>4, <2>1, <2>4, <2>5 DEF Writer, Early
    <2>7. Asked(s, list)'
      BY <1>4, <1>5, <1>7 DEF Asked, Early, q
    <2> QED
      BY <2>4, <2>5, <2>6, <2>7
  <1>8. wire'[s] = wire[s] /\ received'[q] = received[q] /\ want'[q] = want[q] /\ body'[q] = body[q]
    BY DEF q
  <1> QED
    BY <1>1, <1>4, <1>5, <1>6, <1>7, <1>8, AppendChain DEF q

\* The end of the Hello and the Roster exchange.
LEMMA ExchangeChain ==
    ASSUME TypeInv, NEW s \in Sides, HelloDone(s) \/ RosterDone(s), Chain(s), Chain(Peer(s))
    PROVE  Chain(s)' /\ Chain(Peer(s))'
  <1> DEFINE q == Peer(s)
             st == After(stage[s])
  <1>0. q \in Sides /\ q # s /\ clock \in Nat
    BY Pair, UnreadType
  <1>1. /\ stage[s] \in {"Hello", "Roster"} /\ out[s] = <<>> /\ got[s].done
        /\ UNCHANGED <<wire, received, fileVars, error, localVars, clock, faults>>
    BY DEF HelloDone, RosterDone, ExchangeDone
  <1>2. PICK val : Enter(s, st, Frame(st, val)) /\ Frame(st, val) \in Seq(Unit(clock))
    <2>1. CASE HelloDone(s)
      <3>1. Enter(s, "Roster", Frame("Roster", <<>>)) /\ stage[s] = "Hello"
        BY <2>1 DEF HelloDone, ExchangeDone, RosterBundle
      <3>2. Frame("Roster", <<>>) \in Seq(Unit(clock))
        BY <1>0, FrameType
      <3> QED
        BY <3>1, <3>2 DEF After
    <2>2. CASE RosterDone(s)
      <3>1. Enter(s, "Manifests", Frame("Manifests", win[s])) /\ stage[s] = "Roster"
        BY <2>2 DEF RosterDone, ExchangeDone, ManifestBundle
      <3>2. Frame("Manifests", win[s]) \in Seq(Unit(clock))
        BY <1>0, FrameType DEF TypeInv, LocalOK
      <3> QED
        BY <3>1, <3>2 DEF After
    <2> QED
      BY <2>1, <2>2
  <1>3. st \in {"Roster", "Manifests"}
    BY <1>1 DEF After
  <1>4. Chain(s)'
    BY <1>1, <1>2, FrameChain DEF Early, fileVars
  <1>5. /\ stage'[s] = st /\ ~got'[s].done /\ out'[s] = Frame(st, val)
        /\ stage'[q] = stage[q] /\ out'[q] = out[q] /\ got'[q] = got[q]
    BY <1>0, <1>2 DEF Enter, TypeInv, StageOK, StreamOK, GotOK, NoFrame
  <1>6. Unread(q)' = Unread(q)
    BY <1>1, <1>5 DEF Unread
  <1>7. ASSUME NEW u \in Sent(s)', u.tag = "Requests" PROVE u \in Sent(s)
    <2>1. wire'[s] = wire[s]
      BY <1>1
    <2>2. u \in Sent(s) \/ \E k \in 1..Len(Frame(st, val)) : u = Frame(st, val)[k]
      BY <1>1, <1>2, <1>5, <2>1, UnreadJoin
    <2>3. FrameUnits \in Nat
      BY SessionAssumption
    <2>4. \A k \in 1..Len(Frame(st, val)) : Frame(st, val)[k].tag = st
      BY <1>3, <2>3 DEF Frame, Units
    <2> QED
      BY <1>3, <1>7, <2>2, <2>4
  <1>8. ASSUME NEW x \in Position, NEW list, Reader(x, s, list) PROVE Reader(x, s, list)'
    BY <1>1, <1>3, <1>5, <1>8 DEF Reader, Early, After, fileVars
  <1>9. Alive(s) /\ UNCHANGED <<clock, serve, served>>
    BY <1>1 DEF Alive, Ended, fileVars
  <1>10. Chain(q)'
    BY <1>5, <1>6, <1>7, <1>8, <1>9, ReaderChain
  <1> QED
    BY <1>4, <1>10

\* The Requests have been read: the file phase begins.
LEMMA RequestsChain ==
    ASSUME TypeInv, NEW s \in Sides, RequestsDone(s), Chain(s), Chain(Peer(s))
    PROVE  /\ Chain(s)' /\ Chain(Peer(s))'
           /\ serve' = [serve EXCEPT ![s] = got[s].val] /\ Enter(s, Order(s)[1], <<>>)
           /\ UNCHANGED <<want, body, error>>
  <1> DEFINE q == Peer(s)
  <1>0. q \in Sides /\ q # s /\ clock \in Nat
    BY Pair, UnreadType
  <1>1. /\ stage[s] = "Requests" /\ out[s] = <<>> /\ got[s].done
        /\ UNCHANGED <<wire, received, served, localVars, clock, faults>>
    BY DEF RequestsDone, ExchangeDone
  <1>2. got[s].val \in Lists(clock)
    BY <1>1 DEF TypeInv, GotOK
  <1>3. /\ Len(got[s].val) <= MaxTransfers /\ Len(got[s].val) \in Nat
        /\ \A i \in 1..(Len(got[s].val) - 1) : got[s].val[i].path < got[s].val[i + 1].path
    <2>1. ASSUME NEW v \in Lists(clock)
          PROVE  /\ Len(v) <= MaxTransfers /\ Len(v) \in Nat
                 /\ \A i \in 1..(Len(v) - 1) : v[i].path < v[i + 1].path
      <3>1. v \in Seq(Req(clock)) /\ Len(v) <= MaxTransfers /\ Ordered(v)
        BY DEF Lists
      <3>2. Len(v) \in Nat
        BY <3>1
      <3>3. ASSUME NEW i \in 1..(Len(v) - 1) PROVE v[i].path < v[i + 1].path
        <4>1. i \in 1..Len(v) /\ i + 1 \in 1..Len(v) /\ i < i + 1
          BY <3>2
        <4> QED
          BY <3>1, <4>1 DEF Ordered
      <3> QED
        BY <3>1, <3>2, <3>3
    <2> QED
      BY <1>2, <2>1
  <1>4. /\ serve' = [serve EXCEPT ![s] = got[s].val] /\ Enter(s, Order(s)[1], <<>>)
        /\ UNCHANGED <<want, body, error>>
    BY <1>3 DEF RequestsDone
  <1>5. /\ stage'[s] \in {"Send", "Receive"} /\ ~got'[s].done /\ out'[s] = <<>> /\ serve'[s] = got[s].val
        /\ stage'[q] = stage[q] /\ out'[q] = out[q] /\ got'[q] = got[q] /\ serve'[q] = serve[q]
    BY <1>0, <1>4 DEF Enter, TypeInv, StageOK, StreamOK, GotOK, ListsOK, NoFrame, Order
  <1>6. \A p \in Sides : Unread(p)' = Unread(p) /\ Sent(p)' = Sent(p)
    <2>1. ASSUME NEW p \in Sides PROVE wire'[p] = wire[p] /\ out'[p] = out[p]
      BY <1>1, <1>5, Pair
    <2> QED
      BY <2>1 DEF Unread, Sent
  <1>7. served[s] \in Nat /\ MaxTransfers \in Nat /\ Due("Requests") \in Nat
    BY SessionAssumption DEF TypeInv, CountsOK, Due
  <1>8. ASSUME NEW x \in Position, NEW list \in Lists(clock), Writer(x, s, list), Asked(s, list)
        PROVE  /\ \E more : /\ Linked(more, <<>>, list) /\ more[1] = x
                            /\ \E y : y = more[Len(<<>>) + 1] /\ Writer(y, s, list)'
               /\ Asked(s, list)'
    <2>1. PICK more : Linked(more, <<>>, list) /\ more[1] = x
      BY LinkedNone
    <2>2. x.st = "Files" /\ x.left = 0 /\ x.todo = list /\ x.rcv = Due("Requests") /\ got[s].val = list
      BY <1>1, <1>8 DEF Writer, Asked, Early, After
    <2>3. served'[s] = served[s]
      BY <1>1
    <2>4. x.rcv + Len(x.todo) <= Due("Requests") + MaxTransfers + served'[s]
      BY <1>3, <1>7, <2>2, <2>3
    <2>5. Writer(x, s, list)'
      BY <1>5, <2>2, <2>4 DEF Writer, Early
    <2>6. Asked(s, list)'
      BY <1>5 DEF Asked, Early
    <2>7. Len(<<>>) + 1 = 1
      OBVIOUS
    <2> QED
      BY <2>1, <2>5, <2>6, <2>7
  <1>9. Chain(s)'
    <2>1. <<>> \in Seq(Unit(clock)) /\ Alive(s)
      BY <1>1 DEF Alive, Ended
    <2>2. /\ stage'[q] = stage[q] /\ received'[q] = received[q] /\ got'[q] = got[q]
          /\ want'[q] = want[q] /\ body'[q] = body[q] /\ Sent(q)' = Sent(q)
      BY <1>0, <1>1, <1>4, <1>5, <1>6
    <2> QED
      BY <1>1, <1>5, <1>8, <2>1, <2>2, AppendChain
  <1>10. ASSUME NEW x \in Position, NEW list, Reader(x, s, list) PROVE Reader(x, s, list)'
    <2>1. ~body[s].on /\ body[s].left = 0
      BY <1>1 DEF TypeInv, BodyOK, NoBody
    <2>2. x.st = "Files" /\ x.left = 0 /\ x.todo = want[s] /\ x.rcv = received[s]
      BY <1>1, <1>10 DEF Reader, Early, After
    <2>3. want'[s] = want[s] /\ body'[s] = body[s] /\ received'[s] = received[s]
      BY <1>1, <1>4
    <2> QED
      BY <1>5, <2>1, <2>2, <2>3 DEF Reader, Early
  <1>11. Chain(q)'
    <2>1. Alive(s) /\ UNCHANGED <<clock, served>>
      BY <1>1 DEF Alive, Ended
    <2>2. \A u \in Sent(s)' : u.tag = "Requests" => u \in Sent(s)
      BY <1>6
    <2>3. Unread(q)' = Unread(q)
      BY <1>0, <1>6
    <2> QED
      BY <1>5, <1>10, <2>1, <2>2, <2>3, ReaderChain
  <1> QED
    BY <1>4, <1>9, <1>11

\* The manifests are merged and the requests selected: nothing the peer has
\* sent depends on them yet.
LEMMA ManifestsChain ==
    ASSUME TypeInv, NEW s \in Sides, ManifestsDone(s), Chain(s), Chain(Peer(s)),
           Ordering(s), Ordering(Peer(s))
    PROVE  Chain(s)' /\ Chain(Peer(s))'
  <1> DEFINE q == Peer(s)
             remote == got[s].val
             merged == Merged(s, remote)
             kept == Kept(s, merged)
             selected == Select(Wanted(merged, kept, remote))
  <1>0. q \in Sides /\ q # s /\ Peer(q) = s /\ clock \in Nat /\ clock \in 0..MaxEdits
    BY Pair, UnreadType
  <1>1. /\ stage[s] = "Manifests" /\ got[s].done /\ out[s] = <<>>
        /\ want' = [want EXCEPT ![s] = selected]
        /\ Enter(s, "Requests", Frame("Requests", selected))
        /\ UNCHANGED <<wire, received, serve, served, body, clock>>
    BY DEF ManifestsDone, ExchangeDone
  <1>2. selected \in Lists(clock)
    <2>1. remote \in [Files -> Ver(clock)]
      BY <1>1 DEF TypeInv, GotOK
    <2>2. merged \in [Files -> Ver(clock)]
      BY <2>1, MergedType
    <2> QED
      BY <1>0, <2>2, WantedType, SelectType
  <1> HIDE DEF selected
  <1>3. PICK sel : sel = selected
    OBVIOUS
  <1>4. Frame("Requests", sel) \in Seq(Unit(clock)) /\ sel \in Lists(clock)
    BY <1>0, <1>2, <1>3, FrameType
  <1>5. /\ want' = [want EXCEPT ![s] = sel] /\ Enter(s, "Requests", Frame("Requests", sel))
    BY <1>1, <1>3
  <1>6. /\ stage'[s] = "Requests" /\ ~got'[s].done /\ out'[s] = Frame("Requests", sel)
        /\ want'[s] = sel /\ want'[q] = want[q]
        /\ stage'[q] = stage[q] /\ out'[q] = out[q] /\ got'[q] = got[q]
    BY <1>0, <1>5 DEF Enter, TypeInv, StageOK, StreamOK, GotOK, ListsOK, NoFrame
  <1>7. Chain(s)'
    <2>1. After(stage[s]) = "Requests" /\ stage[s] \in Early \ {"Requests"}
      BY <1>1 DEF After, Early
    <2> QED
      BY <1>1, <1>4, <1>5, <1>6, <2>1, FrameChain
  <1>8. Unread(q)' = Unread(q) /\ Unread(q) \in Seq(Unit(clock))
    BY <1>0, <1>1, <1>6, UnreadType DEF Unread
  <1> HIDE DEF q
  <1>9. Chain(q)'
    <2>0. Alive(s)
      BY <1>1 DEF Alive, Ended
    <2>1. PICK pos, old : Link(q, pos, old)
      BY <1>0, <2>0 DEF Chain, q
    <2>2. /\ Linked(pos, Unread(q), old) /\ Reader(pos[1], s, old)
          /\ Alive(q) => Writer(pos[Len(Unread(q)) + 1], q, old)
      BY <1>0, <2>1 DEF Link
    <2>3. pos[1].st = "Requests" /\ pos[1].rcv = received[s]
      BY <1>1, <2>2 DEF Reader, Early, After
    <2>4. \A k \in 1..Len(Unread(q)) : Unread(q)[k].tag \in Early
      <3>1. \A u \in Sent(q) : u.tag \in Early
        BY <1>0, <1>1 DEF Ordering, Early, q
      <3> QED
        BY <3>1 DEF Sent
    <2>5. \E new : /\ Linked(new, Unread(q), sel) /\ new[1] = pos[1]
                   /\ LET n == Len(Unread(q)) + 1
                      IN  /\ new[n].st = pos[n].st /\ new[n].rcv = pos[n].rcv
                          /\ new[n].left = pos[n].left
                          /\ pos[n].st = "Files" => new[n].todo = sel
      <3>1. pos[1].st \in Early
        BY <2>3 DEF Early
      <3> QED
        BY <1>0, <1>4, <1>8, <2>2, <2>4, <3>1, LinkedList
    <2>6. PICK new : /\ Linked(new, Unread(q), sel) /\ new[1] = pos[1]
                     /\ LET n == Len(Unread(q)) + 1
                        IN  /\ new[n].st = pos[n].st /\ new[n].rcv = pos[n].rcv
                            /\ new[n].left = pos[n].left
                            /\ pos[n].st = "Files" => new[n].todo = sel
      BY <2>5
    <2>7. Reader(new[1], s, sel)'
      <3>1. received'[s] = received[s]
        BY <1>1
      <3> QED
        BY <1>6, <2>3, <2>6, <3>1 DEF Reader, Early
    <2>8. ASSUME Alive(q) PROVE Writer(new[Len(Unread(q)) + 1], q, sel)'
      <3>1. stage[q] \in Early
        <4>1. Rank(stage[q]) <= 4
          <5>1. Rank(stage[q]) >= 5 => Rank(stage[s]) >= 4
            BY <1>0, <2>0, <2>8 DEF Ordering, q
          <5>2. Rank(stage[s]) = 3
            BY <1>1 DEF Rank
          <5>3. Rank(stage[q]) \in Nat
            BY DEF Rank
          <5> QED
            BY <5>1, <5>2, <5>3
        <4>2. stage[q] \in Stages
          BY <1>0 DEF TypeInv, StageOK
        <4> QED
          BY <2>8, <4>1, <4>2 DEF Rank, Early, Stages, Exchanged, Alive, Ended
      <3>2. Writer(pos[Len(Unread(q)) + 1], q, old)
        BY <2>2, <2>8
      <3>3. PICK n : n = Len(Unread(q)) + 1
        OBVIOUS
      <3>4. pos[n].st = After(stage[q]) /\ new[n].st = pos[n].st /\ new[n].rcv = pos[n].rcv
            /\ new[n].left = pos[n].left /\ (pos[n].st = "Files" => new[n].todo = sel)
        BY <2>6, <3>1, <3>2, <3>3 DEF Writer
      <3>5. /\ stage[q] \in Early \ {"Requests"} => pos[n].left = FrameUnits
            /\ stage[q] = "Requests" => pos[n].left = 0 /\ pos[n].rcv = Due("Requests")
        BY <3>2, <3>3 DEF Writer
      <3>6. Writer(new[n], q, sel)'
        BY <1>6, <3>1, <3>4, <3>5 DEF Writer, Early, After
      <3> QED
        BY <1>8, <3>3, <3>6
    <2>9. ASSUME Alive(q) PROVE Asked(q, sel)'
      <3>1. ~(stage[q] = "Requests" /\ got[q].done)
        <4>1. stage[q] = "Requests" /\ got[q].done => Rank(stage[s]) >= 4
          BY <1>0, <2>0, <2>9 DEF Ordering, q
        <4> QED
          BY <1>1, <4>1 DEF Rank
      <3>2. ASSUME NEW u \in Sent(s)', u.tag = "Requests" PROVE u.val = sel
        <4>1. u \in Sent(s) \/ \E k \in 1..Len(Frame("Requests", sel)) : u = Frame("Requests", sel)[k]
          <5>1. wire'[s] = wire[s]
            BY <1>1
          <5> QED
            BY <1>1, <1>4, <1>6, <5>1, UnreadJoin
        <4>2. \A k \in 1..Len(Frame("Requests", sel)) : Frame("Requests", sel)[k].val = sel
          BY SessionAssumption DEF Frame, Units
        <4>3. u \notin Sent(s)
          <5>1. u \in Sent(s) => Rank(u.tag) <= Rank(stage[s])
            BY <2>0 DEF Ordering
          <5> QED
            BY <1>1, <3>2, <5>1 DEF Rank
        <4> QED
          BY <4>1, <4>2, <4>3
      <3> QED
        BY <1>0, <1>6, <3>1, <3>2 DEF Asked
    <2>10. Link(q, new, sel)'
      <3>1. Alive(q)' <=> Alive(q)
        BY <1>6 DEF Alive
      <3> QED
        BY <1>0, <1>1, <1>4, <1>8, <2>6, <2>7, <2>8, <2>9, <3>1 DEF Link
    <2> QED
      BY <2>10 DEF Chain
  <1> QED
    BY <1>7, <1>9 DEF q

\* Done, or the end of the stream, is appended.
LEMMA LastChain ==
    ASSUME TypeInv, NEW s \in Sides, Chain(s), Alive(s), out[s] = <<>>, NEW tag \in {"Done", "Fin"},
           Enter(s, tag, Frame(tag, <<>>)), UNCHANGED <<wire, received, want, body, clock>>,
           IF tag = "Done" THEN stage[s] \in {"Send", "Receive"} /\ serve[s] = <<>>
                           ELSE stage[s] = "Done"
    PROVE  Chain(s)'
  <1> DEFINE q == Peer(s)
  <1>0. q \in Sides /\ q # s /\ clock \in Nat
    BY Pair, UnreadType
  <1>1. PICK units : units = Frame(tag, <<>>)
    OBVIOUS
  <1>2. units \in Seq(Unit(clock)) /\ units = Units(tag, <<>>, 1)
    BY <1>0, <1>1, FrameType DEF Frame
  <1>3. Len(units) = 1 /\ units[1] = [tag |-> tag, val |-> <<>>, more |-> 1 - 1]
    BY <1>2 DEF Units
  <1>4. /\ stage'[s] = tag /\ ~got'[s].done /\ out'[s] = units
        /\ stage'[q] = stage[q] /\ out'[q] = out[q] /\ got'[q] = got[q]
    BY <1>0, <1>1 DEF Enter, TypeInv, StageOK, StreamOK, GotOK, NoFrame
  <1>5. Sent(q)' = Sent(q)
    BY <1>4 DEF Sent, Unread
  <1>6. ASSUME NEW x \in Position, NEW list \in Lists(clock), Writer(x, s, list), Asked(s, list)
        PROVE  /\ \E more : /\ Linked(more, units, list) /\ more[1] = x
                            /\ \E y : y = more[Len(units) + 1] /\ Writer(y, s, list)'
               /\ Asked(s, list)'
    <2>1. /\ x \in [st : Early \cup {"Files", "Fin", "End"}, left : Nat, todo : Seq(Requests), rcv : Nat]
          /\ x.rcv <= MaxConnection
          /\ x.st = "Files" => x.rcv + Len(x.todo) <= Due("Requests") + MaxTransfers + MaxFileBytes
      BY DEF Position
    <2> DEFINE y == [st |-> IF tag = "Done" THEN "Fin" ELSE "End", left |-> 0, todo |-> x.todo,
                     rcv |-> IF tag = "Done" THEN x.rcv + 1 ELSE x.rcv]
    <2>2. CASE tag = "Done"
      <3>1. x.st = "Files" /\ x.left = 0 /\ x.todo = <<>>
        BY <1>6, <2>2 DEF Writer, Early
      <3>2. x.rcv + 1 <= MaxConnection /\ x.rcv \in Nat
        <4>1. /\ FrameUnits \in Nat /\ MaxTransfers \in Nat /\ MaxFileBytes \in Nat /\ MaxConnection \in Nat
              /\ FrameUnits + FrameUnits + FrameUnits + MaxTransfers + MaxFileBytes + 2 <= MaxConnection
          BY SessionAssumption
        <4>2. Len(x.todo) = 0 /\ x.rcv \in Nat
          BY <2>1, <3>1
        <4>3. x.rcv <= Due("Requests") + MaxTransfers + MaxFileBytes
          BY <2>1, <3>1, <4>1, <4>2 DEF Due
        <4> QED
          BY <4>1, <4>2, <4>3 DEF Due
      <3>3. y \in Position /\ y.st = "Fin" /\ y.rcv = x.rcv + 1
        BY <2>1, <2>2, <3>2 DEF Position, Early
      <3> HIDE DEF y
      <3>4. Step(x, units[1], y, list)
        BY <1>3, <2>2, <3>1, <3>3 DEF Step, EndStep
      <3>5. PICK more : Linked(more, units, list) /\ more[1] = x /\ more[2] = y
        BY <1>3, <3>3, <3>4, LinkedOne
      <3>6. Writer(y, s, list)' /\ Asked(s, list)'
        BY <1>4, <2>2, <3>3 DEF Writer, Asked, Early
      <3>7. Len(units) + 1 = 2
        BY <1>3
      <3> QED
        BY <3>5, <3>6, <3>7
    <2>3. CASE tag = "Fin"
      <3>1. x.st = "Fin"
        BY <1>6, <2>3 DEF Writer, Early
      <3>3. y \in Position /\ y.st = "End" /\ y.rcv = x.rcv
        BY <2>1, <2>3 DEF Position, Early
      <3> HIDE DEF y
      <3>4. Step(x, units[1], y, list)
        BY <1>3, <2>3, <3>1, <3>3 DEF Step, EndStep
      <3>5. PICK more : Linked(more, units, list) /\ more[1] = x /\ more[2] = y
        BY <1>3, <3>3, <3>4, LinkedOne
      <3>6. Writer(y, s, list)' /\ Asked(s, list)'
        BY <1>4, <2>3, <3>3 DEF Writer, Asked, Early
      <3>7. Len(units) + 1 = 2
        BY <1>3
      <3> QED
        BY <3>5, <3>6, <3>7
    <2> QED
      BY <2>2, <2>3
  <1>7. /\ stage'[q] = stage[q] /\ received'[q] = received[q] /\ got'[q] = got[q]
        /\ want'[q] = want[q] /\ body'[q] = body[q] /\ Sent(q)' = Sent(q)
    BY <1>4, <1>5
  <1> QED
    BY <1>2, <1>4, <1>6, <1>7, AppendChain

\* Every unit of a frame carries its tag.
LEMMA FrameTag ==
    ASSUME NEW tag, NEW val
    PROVE  \A k \in 1..Len(Frame(tag, val)) : Frame(tag, val)[k].tag = tag /\ Frame(tag, val)[k].val = val
  <1>1. PICK n : n \in Nat /\ Frame(tag, val) = Units(tag, val, n)
    BY SessionAssumption DEF Frame
  <1>2. Len(Units(tag, val, n)) = n
    BY <1>1 DEF Units
  <1>3. \A k \in 1..n : Units(tag, val, n)[k].tag = tag /\ Units(tag, val, n)[k].val = val
    BY DEF Units
  <1> QED
    BY <1>1, <1>2, <1>3

\* A half of the file phase is over.
LEMMA FilesChain ==
    ASSUME TypeInv, NEW s \in Sides, FilesDone(s), Quiet(s), Chain(s), Chain(Peer(s))
    PROVE  Chain(s)' /\ Chain(Peer(s))'
  <1> DEFINE q == Peer(s)
  <1>0. q \in Sides /\ q # s /\ clock \in Nat
    BY Pair, UnreadType
  <1>1. /\ stage[s] \in {"Send", "Receive"} /\ out[s] = <<>>
        /\ stage[s] = "Send" => serve[s] = <<>>
        /\ stage[s] = "Receive" => want[s] = <<>>
        /\ UNCHANGED <<wire, received, fileVars, clock>>
    BY DEF FilesDone, Quiet
  <1>3. UNCHANGED <<want, serve, served, body>>
    BY <1>1 DEF fileVars
  <1>4. ~body[s].on /\ body[s].left = 0 /\ Alive(s)
    BY <1>1 DEF TypeInv, BodyOK, NoBody, Alive, Ended
  <1>5. CASE stage[s] = Order(s)[1]
    <2>1. Enter(s, Order(s)[2], <<>>)
      BY <1>5 DEF FilesDone
    <2>2. /\ stage'[s] \in {"Send", "Receive"} /\ out'[s] = <<>>
          /\ stage'[q] = stage[q] /\ out'[q] = out[q] /\ got'[q] = got[q]
      BY <1>0, <2>1 DEF Enter, TypeInv, StageOK, StreamOK, GotOK, Order
    <2>3. \A p \in Sides : Unread(p)' = Unread(p) /\ Sent(p)' = Sent(p)
      <3>1. ASSUME NEW p \in Sides PROVE wire'[p] = wire[p] /\ out'[p] = out[p]
        BY <1>1, <2>2, Pair
      <3> QED
        BY <3>1 DEF Unread, Sent
    <2>4. ASSUME NEW x \in Position, NEW list \in Lists(clock), Writer(x, s, list), Asked(s, list)
          PROVE  /\ \E more : /\ Linked(more, <<>>, list) /\ more[1] = x
                              /\ \E y : y = more[Len(<<>>) + 1] /\ Writer(y, s, list)'
                 /\ Asked(s, list)'
      <3>1. PICK more : Linked(more, <<>>, list) /\ more[1] = x
        BY LinkedNone
      <3>2. Writer(x, s, list)'
        BY <1>1, <1>3, <2>2, <2>4 DEF Writer, Early
      <3>3. Asked(s, list)'
        BY <2>2 DEF Asked, Early
      <3>4. Len(<<>>) + 1 = 1
        OBVIOUS
      <3> QED
        BY <3>1, <3>2, <3>3, <3>4
    <2>5. Chain(s)'
      <3>1. <<>> \in Seq(Unit(clock))
        OBVIOUS
      <3>2. /\ stage'[q] = stage[q] /\ received'[q] = received[q] /\ got'[q] = got[q]
            /\ want'[q] = want[q] /\ body'[q] = body[q] /\ Sent(q)' = Sent(q) /\ wire'[s] = wire[s]
        BY <1>0, <1>1, <1>3, <2>2, <2>3
      <3> QED
        BY <1>1, <1>4, <2>2, <2>4, <3>1, <3>2, AppendChain
    <2>6. ASSUME NEW x \in Position, NEW list, Reader(x, s, list) PROVE Reader(x, s, list)'
      BY <1>1, <1>3, <2>2, <2>6 DEF Reader, Early
    <2>7. Chain(q)'
      <3>1. Unread(q)' = Unread(q) /\ \A u \in Sent(s)' : u.tag = "Requests" => u \in Sent(s)
        BY <1>0, <2>3
      <3> QED
        BY <1>1, <1>3, <1>4, <2>2, <2>6, <3>1, ReaderChain
    <2> QED
      BY <2>5, <2>7
  <1>6. CASE stage[s] # Order(s)[1]
    <2>1. Enter(s, "Done", Frame("Done", <<>>))
      BY <1>6 DEF FilesDone
    <2>2. serve[s] = <<>> /\ want[s] = <<>>
      BY <1>1, <1>6 DEF Quiet, Order
    <2>3. Chain(s)'
      BY <1>1, <1>3, <1>4, <2>1, <2>2, LastChain
    <2>4. PICK units : units = Frame("Done", <<>>)
      OBVIOUS
    <2>5. units \in Seq(Unit(clock)) /\ \A k \in 1..Len(units) : units[k].tag = "Done"
      BY <1>0, <2>4, FrameType, FrameTag
    <2>6. /\ stage'[s] = "Done" /\ ~got'[s].done /\ out'[s] = units
          /\ stage'[q] = stage[q] /\ out'[q] = out[q] /\ got'[q] = got[q]
      BY <1>0, <2>1, <2>4 DEF Enter, TypeInv, StageOK, StreamOK, GotOK, NoFrame
    <2>7. ASSUME NEW x \in Position, NEW list, Reader(x, s, list) PROVE Reader(x, s, list)'
      <3>1. x.st = "Files" /\ x.left = 0 /\ x.todo = <<>> /\ x.rcv = received[s]
        BY <1>1, <1>4, <2>2, <2>7 DEF Reader
      <3> QED
        BY <1>1, <2>6, <3>1 DEF Reader, Early
    <2>8. \A u \in Sent(s)' : u.tag = "Requests" => u \in Sent(s)
      <3>1. wire'[s] = wire[s]
        BY <1>1
      <3> QED
        BY <1>1, <2>5, <2>6, <3>1, UnreadJoin
    <2>9. Unread(q)' = Unread(q)
      BY <1>1, <2>6 DEF Unread
    <2>10. Chain(q)'
      BY <1>1, <1>3, <1>4, <2>6, <2>7, <2>8, <2>9, ReaderChain
    <2> QED
      BY <2>3, <2>10
  <1> QED
    BY <1>5, <1>6

\* Done has been exchanged: the stream ends.
LEMMA DoneChain ==
    ASSUME TypeInv, NEW s \in Sides, DoneDone(s), Chain(s), Chain(Peer(s))
    PROVE  Chain(s)' /\ Chain(Peer(s))'
  <1> DEFINE q == Peer(s)
  <1>0. q \in Sides /\ q # s /\ clock \in Nat
    BY Pair, UnreadType
  <1>1. /\ stage[s] = "Done" /\ out[s] = <<>> /\ got[s].done /\ Alive(s)
        /\ Enter(s, "Fin", Frame("Fin", <<>>))
        /\ UNCHANGED <<wire, received, want, serve, served, body, clock>>
    BY DEF DoneDone, ExchangeDone, fileVars, Alive, Ended
  <1>2. Chain(s)'
    BY <1>1, LastChain
  <1>3. PICK units : units = Frame("Fin", <<>>)
    OBVIOUS
  <1>4. units \in Seq(Unit(clock)) /\ \A k \in 1..Len(units) : units[k].tag = "Fin"
    BY <1>0, <1>3, FrameType, FrameTag
  <1>5. /\ stage'[s] = "Fin" /\ ~got'[s].done /\ out'[s] = units
        /\ stage'[q] = stage[q] /\ out'[q] = out[q] /\ got'[q] = got[q]
    BY <1>0, <1>1, <1>3 DEF Enter, TypeInv, StageOK, StreamOK, GotOK, NoFrame
  <1>6. ASSUME NEW x \in Position, NEW list, Reader(x, s, list) PROVE Reader(x, s, list)'
    <2>1. x.st = "Fin" /\ x.rcv = received[s]
      BY <1>1, <1>6 DEF Reader
    <2> QED
      BY <1>1, <1>5, <2>1 DEF Reader, Early
  <1>7. \A u \in Sent(s)' : u.tag = "Requests" => u \in Sent(s)
    <2>1. wire'[s] = wire[s]
      BY <1>1
    <2> QED
      BY <1>1, <1>4, <1>5, <2>1, UnreadJoin
  <1>8. Unread(q)' = Unread(q)
    BY <1>1, <1>5 DEF Unread
  <1>9. Chain(q)'
    BY <1>1, <1>5, <1>6, <1>7, <1>8, ReaderChain
  <1> QED
    BY <1>2, <1>9

\* A request is answered with the file, within the budget, or without it.
LEMMA SendChain ==
    ASSUME TypeInv, NEW s \in Sides, SendFile(s), Chain(s), Chain(Peer(s))
    PROVE  /\ Chain(s)' /\ Chain(Peer(s))'
           /\ \A u \in Sent(s)' : u \in Sent(s) \/ u.tag \in {"File", "Body", "FileUnavailable"}
  <1> DEFINE q == Peer(s)
  <1>0. q \in Sides /\ q # s /\ Peer(q) = s /\ clock \in Nat /\ clock \in 0..MaxEdits
    BY Pair, UnreadType
  <1>1. /\ stage[s] = "Send" /\ out[s] = <<>> /\ serve[s] # <<>> /\ Alive(s)
        /\ serve' = [serve EXCEPT ![s] = Tail(serve[s])]
        /\ UNCHANGED <<stage, got, wire, received, want, body, clock>>
    BY DEF SendFile, Alive, Ended
  <1>2. PICK r : r = Head(serve[s])
    OBVIOUS
  <1>3. /\ r \in Req(clock) /\ r.path \in Files /\ Tail(serve[s]) \in Lists(clock)
        /\ Len(serve[s]) \in Nat \ {0} /\ Len(Tail(serve[s])) = Len(serve[s]) - 1
    <2>1. serve[s] \in Lists(clock)
      BY DEF TypeInv, ListsOK
    <2> QED
      BY <1>0, <1>1, <1>2, <2>1, ListRest DEF Req
  <1>4. PICK b, size : /\ b = served[s] /\ b \in 0..MaxFileBytes /\ b \in Nat
                       /\ size = Size[r.path] /\ size \in Nat
    <2>1. served[s] \in 0..MaxFileBytes /\ MaxFileBytes \in Nat
      BY SessionAssumption DEF TypeInv, CountsOK
    <2>2. Size[r.path] \in Nat
      BY <1>3, SessionAssumption
    <2> QED
      BY <2>1, <2>2
  <1>5. PICK units :
            /\ out' = [out EXCEPT ![s] = units] /\ units \in Seq(Unit(clock))
            /\ \/ /\ units = Units("File", r, 1) \o FileBody(r)
                  /\ b + size <= MaxFileBytes /\ served' = [served EXCEPT ![s] = b + size]
               \/ units = Units("FileUnavailable", <<>>, 1) /\ served' = served
    <2> DEFINE have == FileRequest(r.path, win[s][r.path])
    <2>1. Units("FileUnavailable", <<>>, 1) \in Seq(Unit(clock))
      BY <1>0, <1>3, AnswerType
    <2>2. Units("File", r, 1) \o FileBody(r) \in Seq(Unit(clock))
      BY <1>0, <1>3, AnswerType
    <2>3. CASE Holds(s, r) /\ b + size <= MaxFileBytes
      <3>1. have = r
        BY <1>3, <2>3 DEF Holds, FileRequest, Req
      <3>2. /\ out' = [out EXCEPT ![s] = Units("File", have, 1) \o FileBody(have)]
            /\ served' = [served EXCEPT ![s] = b + size]
        BY <1>2, <1>4, <2>3 DEF SendFile
      <3> HIDE DEF have
      <3> QED
        BY <2>2, <2>3, <3>1, <3>2
    <2>4. CASE ~(Holds(s, r) /\ b + size <= MaxFileBytes)
      <3>1. out' = [out EXCEPT ![s] = Units("FileUnavailable", <<>>, 1)] /\ served' = served
        BY <1>2, <1>4, <2>4 DEF SendFile
      <3> QED
        BY <2>1, <3>1
    <2> QED
      BY <2>3, <2>4
  <1>6. /\ out'[s] = units /\ out'[q] = out[q] /\ serve'[s] = Tail(serve[s]) /\ serve'[q] = serve[q]
        /\ served'[q] = served[q]
    BY <1>0, <1>1, <1>5 DEF TypeInv, StreamOK, ListsOK, CountsOK
  <1>7. Unread(q)' = Unread(q) /\ Sent(q)' = Sent(q)
    BY <1>1, <1>6 DEF Unread, Sent
  <1>8. \A k \in 1..Len(units) : units[k].tag \in {"File", "Body", "FileUnavailable"}
    <2>1. CASE units = Units("File", r, 1) \o FileBody(r)
      <3> DEFINE head == Units("File", r, 1)
                 rest == FileBody(r)
      <3>0. r \in Values(clock) /\ {"File", "Body"} \subseteq Tags
        BY <1>3 DEF Values, Tags
      <3>1. Len(head) = 1 /\ head[1].tag = "File" /\ head \in Seq(Unit(clock))
        <4>1. Len(Units("File", r, 1)) = 1 /\ Units("File", r, 1)[1].tag = "File"
          BY DEF Units
        <4>2. Units("File", r, 1) \in Seq(Unit(clock))
          BY <1>0, <1>3, <3>0, UnitsType
        <4> QED
          BY <4>1, <4>2
      <3>2. Len(rest) = size /\ (\A k \in 1..size : rest[k].tag = "Body") /\ rest \in Seq(Unit(clock))
        <4>1. rest = Units("Body", r, size)
          BY <1>4 DEF FileBody
        <4>2. Len(Units("Body", r, size)) = size /\ \A k \in 1..size : Units("Body", r, size)[k].tag = "Body"
          BY <1>4 DEF Units
        <4>3. Units("Body", r, size) \in Seq(Unit(clock))
          BY <1>0, <1>3, <1>4, <3>0, UnitsType
        <4> QED
          BY <4>1, <4>2, <4>3
      <3> HIDE DEF head, rest
      <3>3. Len(head \o rest) = 1 + size
            /\ \A k \in 1..(1 + size) : (head \o rest)[k] = IF k <= 1 THEN head[k] ELSE rest[k - 1]
        <4>1. Len(head \o rest) = Len(head) + Len(rest)
          BY <3>1, <3>2, ConcatProperties
        <4>2. \A k \in 1..(Len(head) + Len(rest)) :
                  (head \o rest)[k] = IF k <= Len(head) THEN head[k] ELSE rest[k - Len(head)]
          BY <3>1, <3>2, ConcatProperties
        <4> QED
          BY <3>1, <3>2, <4>1, <4>2
      <3>4. \A k \in 1..(1 + size) : (k = 1) \/ (~(k <= 1) /\ k - 1 \in 1..size)
        BY <1>4
      <3> QED
        BY <2>1, <3>1, <3>2, <3>3, <3>4 DEF head, rest
    <2>2. CASE units = Units("FileUnavailable", <<>>, 1)
      BY <2>2 DEF Units
    <2> QED
      BY <1>5, <2>1, <2>2
  <1>9. \A u \in Sent(s)' : u \in Sent(s) \/ u.tag \in {"File", "Body", "FileUnavailable"}
    <2>1. wire'[s] = wire[s]
      BY <1>1
    <2>2. \A u \in Sent(s)' : u \in Sent(s) \/ \E k \in 1..Len(units) : u = units[k]
      BY <1>1, <1>5, <1>6, <2>1, UnreadJoin
    <2> QED
      BY <1>8, <2>2
  <1>10. ASSUME NEW x \in Position, NEW list \in Lists(clock), Writer(x, s, list), Asked(s, list)
         PROVE  /\ \E more : /\ Linked(more, units, list) /\ more[1] = x
                             /\ \E y : y = more[Len(units) + 1] /\ Writer(y, s, list)'
                /\ Asked(s, list)'
    <2>0. Asked(s, list)'
      BY <1>1 DEF Asked, Early
    <2>1. /\ x.st = "Files" /\ x.left = 0 /\ x.todo = serve[s]
          /\ x.rcv + Len(x.todo) <= Due("Requests") + MaxTransfers + b
      BY <1>1, <1>4, <1>10 DEF Writer, Early
    <2>2. ASSUME NEW y, NEW c \in Nat, c = served'[s], y.st = "Files", y.left = 0, y.todo = Tail(serve[s]),
                 y.rcv + Len(y.todo) <= Due("Requests") + MaxTransfers + c
          PROVE  Writer(y, s, list)'
      BY <1>1, <1>6, <2>2 DEF Writer, Early
    <2>3. CASE /\ units = Units("File", r, 1) \o FileBody(r)
               /\ b + size <= MaxFileBytes /\ served' = [served EXCEPT ![s] = b + size]
      <3>1. b + size = served'[s] /\ b + size \in Nat
        BY <1>4, <2>3 DEF TypeInv, CountsOK
      <3>2. x.todo # <<>> /\ r = Head(x.todo) /\ b + Size[r.path] <= MaxFileBytes
        BY <1>1, <1>2, <1>4, <2>1, <2>3
      <3>3. PICK more : LET all == Units("File", r, 1) \o FileBody(r) IN
              /\ Linked(more, all, list) /\ more[1] = x
              /\ LET y == more[Len(all) + 1]
                 IN  /\ y.st = "Files" /\ y.left = 0 /\ y.todo = Tail(x.todo)
                     /\ y.rcv + Len(y.todo) <= Due("Requests") + MaxTransfers + (b + Size[r.path])
        BY <1>0, <1>3, <1>4, <2>1, <3>2, LinkedFile
      <3>4. PICK y : y = more[Len(units) + 1]
        OBVIOUS
      <3>5. /\ Linked(more, units, list) /\ more[1] = x
            /\ y.st = "Files" /\ y.left = 0 /\ y.todo = Tail(serve[s])
            /\ y.rcv + Len(y.todo) <= Due("Requests") + MaxTransfers + (b + size)
        BY <1>4, <2>1, <2>3, <3>3, <3>4
      <3>6. Writer(y, s, list)'
        BY <2>2, <3>1, <3>5
      <3> QED
        BY <2>0, <3>4, <3>5, <3>6
    <2>4. CASE units = Units("FileUnavailable", <<>>, 1) /\ served' = served
      <3>0. PICK y : y = [st |-> "Files", left |-> 0, todo |-> Tail(serve[s]), rcv |-> x.rcv + 1]
        OBVIOUS
      <3>1. /\ x \in [st : Early \cup {"Files", "Fin", "End"}, left : Nat, todo : Seq(Requests), rcv : Nat]
            /\ x.rcv \in Nat
        BY DEF Position
      <3>2. /\ FrameUnits \in Nat /\ MaxTransfers \in Nat /\ MaxFileBytes \in Nat /\ MaxConnection \in Nat
            /\ FrameUnits + FrameUnits + FrameUnits + MaxTransfers + MaxFileBytes + 2 <= MaxConnection
        BY SessionAssumption
      <3>3. PICK n : n = Len(serve[s]) /\ n \in Nat \ {0} /\ Len(Tail(serve[s])) = n - 1
        BY <1>3
      <3>4. PICK d : d = Due("Requests") /\ d = 1 + FrameUnits + FrameUnits + FrameUnits /\ d \in Nat
        BY <3>2 DEF Due
      <3>5. PICK k : k = x.rcv /\ k \in Nat
        BY <3>1
      <3>6. k + n <= d + MaxTransfers + b
        BY <2>1, <3>3, <3>4, <3>5
      <3>7. (k + 1) + (n - 1) <= d + MaxTransfers + b /\ (k + 1) + (n - 1) <= d + MaxTransfers + MaxFileBytes
            /\ k + 1 <= MaxConnection
        <4>1. /\ n \in Nat \ {0} /\ k \in Nat /\ b \in Nat /\ b <= MaxFileBytes
              /\ d \in Nat /\ d + MaxTransfers + MaxFileBytes + 1 <= MaxConnection
          <5>1. n \in Nat \ {0} /\ k \in Nat
            BY <3>3, <3>5
          <5>2. b \in Nat /\ b <= MaxFileBytes
            BY <1>4
          <5>3. d \in Nat /\ d = 1 + FrameUnits + FrameUnits + FrameUnits
            BY <3>4
          <5>4. d + MaxTransfers + MaxFileBytes + 1 <= MaxConnection
            BY <3>2, <5>3
          <5> QED BY <5>1, <5>2, <5>3, <5>4
        <4>2. (k + 1) + (n - 1) = k + n /\ k + 1 <= k + n
          BY <4>1
        <4> QED
          BY <3>2, <3>6, <4>1, <4>2
      <3>8. Tail(serve[s]) \in Seq(Requests)
        BY <1>1, <2>1, <3>1
      <3>9. /\ y.st = "Files" /\ y.left = 0 /\ y.todo = Tail(serve[s]) /\ y.rcv = k + 1
            /\ y \in [st : Early \cup {"Files", "Fin", "End"}, left : Nat, todo : Seq(Requests), rcv : Nat]
        BY <3>0, <3>5, <3>8
      <3>10. y \in Position
        BY <3>3, <3>4, <3>7, <3>9 DEF Position, Early
      <3>11. Len(units) = 1 /\ units[1].tag = "FileUnavailable"
        BY <2>4 DEF Units
      <3>12. Step(x, units[1], y, list)
        BY <1>1, <2>1, <3>5, <3>9, <3>11 DEF Step, AnswerStep
      <3>13. PICK more : Linked(more, units, list) /\ more[1] = x /\ more[2] = y
        BY <3>10, <3>11, <3>12, LinkedOne
      <3>14. Writer(y, s, list)'
        <4>1. b = served'[s] /\ b \in Nat
          BY <1>4, <2>4
        <4>2. y.rcv + Len(y.todo) <= Due("Requests") + MaxTransfers + b
          BY <3>3, <3>4, <3>7, <3>9
        <4>3. y.st = "Files" /\ y.left = 0 /\ y.todo = Tail(serve[s])
          BY <3>9
        <4> QED
          BY <2>2, <4>1, <4>2, <4>3
      <3>15. y = more[Len(units) + 1]
        BY <3>11, <3>13
      <3> QED
        BY <2>0, <3>13, <3>14, <3>15
    <2> QED
      BY <1>5, <2>3, <2>4
  <1>11. Chain(s)'
    <2>1. /\ stage'[q] = stage[q] /\ received'[q] = received[q] /\ got'[q] = got[q]
          /\ want'[q] = want[q] /\ body'[q] = body[q] /\ Sent(q)' = Sent(q) /\ wire'[s] = wire[s]
      BY <1>1, <1>7
    <2> QED
      BY <1>1, <1>5, <1>6, <1>10, <2>1, AppendChain
  <1>12. ASSUME NEW x \in Position, NEW list, Reader(x, s, list) PROVE Reader(x, s, list)'
    BY <1>1, <1>12 DEF Reader
  <1>13. Chain(q)'
    BY <1>1, <1>6, <1>7, <1>9, <1>12, ReaderChain
  <1> QED
    BY <1>9, <1>11, <1>13

\* A session starts with the Hello of both sides.
LEMMA StartChain ==
    ASSUME TypeInv, StartSession, \A p \in Sides : Quiet(p), NEW s \in Sides
    PROVE  /\ Chain(s)' /\ Ordering(s)' /\ Quiet(s)' /\ Finished(s)'
           /\ error'[s] = "none"
  <1> DEFINE q == Peer(s)
  <1>0. q \in Sides /\ q # s /\ Peer(q) = s /\ clock \in Nat /\ clock \in 0..MaxEdits
    BY Pair, UnreadType
  <1>1. /\ \A p \in Sides : /\ stage[p] \in Ended /\ stage'[p] = "Hello" /\ out'[p] = Hello
                            /\ got'[p] = NoFrame /\ wire'[p] = <<>> /\ received'[p] = 0
                            /\ error'[p] = "none"
        /\ UNCHANGED <<want, serve, body, clock>>
    BY DEF StartSession
  <1>2. \A p \in Sides : want[p] = <<>> /\ serve[p] = <<>>
    BY <1>1 DEF Quiet, Ended
  <1>3. PICK units : units = Hello /\ units = Units("Hello", <<>>, 1) /\ units \in Seq(Unit(clock))
    BY <1>0, FrameType DEF Hello, Frame
  <1>4. \A k \in 1..Len(units) : units[k].tag = "Hello"
    BY <1>3, FrameTag DEF Hello
  <1>5. ASSUME NEW p \in Sides
        PROVE  Unread(p)' = units /\ \A u \in Sent(p)' : u.tag = "Hello"
    <2>1. <<>> \o units = units
      BY <1>3
    <2>2. Unread(p)' = units
      BY <1>1, <1>3, <2>1 DEF Unread
    <2> QED
      BY <1>4, <2>2 DEF Sent
  <1>6. Ordering(s)'
    BY <1>0, <1>1, <1>5 DEF Ordering, Rank, Early, NoFrame
  <1>7. Quiet(s)'
    BY <1>1, <1>2 DEF Quiet, Order
  <1>8. Finished(s)'
    BY <1>0, <1>1, <1>5 DEF Finished, EndSeen
  <1>9. PICK x : x = [st |-> "Hello", left |-> 1, todo |-> <<>>, rcv |-> 0]
    OBVIOUS
  <1>10. /\ x.st = "Hello" /\ x.left = 1 /\ x.rcv = 0
         /\ x \in [st : Early \cup {"Files", "Fin", "End"}, left : Nat, todo : Seq(Requests), rcv : Nat]
    BY <1>9 DEF Early
  <1>11. x \in Position /\ x.st \in Early
    <2>1. 0 <= MaxConnection /\ Due("Hello") = 1
      BY SessionAssumption DEF Due
    <2> QED
      BY <1>10, <2>1 DEF Position, Early
  <1>12. PICK list : list = <<>> /\ list \in Lists(clock)
    BY <1>0, EmptyList
  <1>13. PICK pos : /\ Linked(pos, units, list) /\ pos[1] = x
                    /\ LET y == pos[Len(units) + 1]
                       IN  y.st = "Roster" /\ y.left = FrameUnits
    <2>1. \E pos : LET all == Units(x.st, <<>>, x.left) IN
              /\ Linked(pos, all, list) /\ pos[1] = x
              /\ LET y == pos[Len(all) + 1]
                 IN  /\ y.st = After(x.st) /\ y.rcv = Due(x.st)
                     /\ y.left = IF x.st = "Requests" THEN 0 ELSE FrameUnits
                     /\ x.st = "Requests" => y.todo = list
      BY <1>0, <1>11, <1>12, LinkedFrame
    <2>2. Units(x.st, <<>>, x.left) = units
      BY <1>3, <1>10
    <2> QED
      BY <1>10, <2>1, <2>2 DEF After
  <1>14. PICK y : y = pos[Len(units) + 1] /\ y.st = "Roster" /\ y.left = FrameUnits
    BY <1>13
  <1>15. Reader(x, q, list)'
    BY <1>0, <1>1, <1>2, <1>10, <1>12 DEF Reader, Early, NoFrame
  <1>16. Writer(y, s, list)'
    BY <1>1, <1>14 DEF Writer, Early, After
  <1>17. Asked(s, list)'
    BY <1>0, <1>1, <1>5 DEF Asked
  <1>18. Link(s, pos, list)'
    <2>1. /\ list \in Lists(clock') /\ Linked(pos, Unread(s)', list) /\ pos[1] = x
          /\ pos[Len(Unread(s)') + 1] = y
      BY <1>1, <1>5, <1>12, <1>13, <1>14
    <2> QED
      BY <1>15, <1>16, <1>17, <2>1 DEF Link
  <1> QED
    BY <1>1, <1>6, <1>7, <1>8, <1>18 DEF Chain

\* A live side reads, writes or goes on to a later stage.
LEMMA Advance ==
    ASSUME TypeInv, \A p \in Sides : Ordering(p) /\ Finished(p), NEW s \in Sides, Alive(s),
           LET q == Peer(s)
           IN  /\ stage'[q] = stage[q] /\ got'[q] = got[q] /\ error' = error
               /\ \A u \in Sent(q)' : u \in Sent(q)
               /\ \/ Rank(stage'[s]) >= 5
                  \/ stage'[s] = "Requests" /\ got'[s].done
                  => \/ Rank(stage[s]) >= 5
                     \/ stage[s] = "Requests" /\ got[s].done
                     \/ \E u \in Sent(q) : u.tag = "Requests"
               /\ stage'[s] = "Fin" /\ got'[s].done
                  => stage[s] = "Fin" /\ (got[s].done \/ \E u \in Sent(q) : u.tag = "Fin"),
           stage'[s] \in Stages \ Ended, Rank(stage'[s]) >= Rank(stage[s]),
           \A u \in Sent(s)' :
               \/ \E v \in Sent(s) : u.tag = v.tag
               \/ /\ Rank(u.tag) <= Rank(stage'[s])
                  /\ u.tag = "Fin" => stage'[s] = "Fin"
                  /\ u.tag \notin Early => Rank(stage[s]) >= 5
    PROVE  \A p \in Sides : Ordering(p)' /\ Finished(p)'
  <1> DEFINE q == Peer(s)
  <1>0. q \in Sides /\ q # s /\ Peer(q) = s /\ stage[s] \in Stages \ Ended /\ stage[q] \in Stages
    BY Pair DEF TypeInv, StageOK, Alive
  <1>1. /\ \A x : Rank(x) \in 1..7
        /\ \A x \in Stages \ Ended : Rank(x) >= 7 => x = "Fin"
        /\ \A x \in Stages \ Ended : Rank(x) >= 4 <=> x \notin Early \ {"Requests"}
    <2>1. \A x : Rank(x) \in 1..7
      BY DEF Rank
    <2> QED
      BY <2>1 DEF Rank, Stages, Exchanged, Ended, Early
  <1>2. Alive(s)' /\ (Alive(q)' <=> Alive(q))
    BY DEF Alive
  <1>3. Ordering(s) /\ Ordering(q) /\ Finished(s) /\ Finished(q)
    BY <1>0
  <1>4. \A u \in Sent(s)' : Rank(u.tag) <= Rank(stage'[s])
    <2>1. \A u \in Sent(s) : Rank(u.tag) <= Rank(stage[s])
      BY <1>3 DEF Ordering
    <2> QED
      BY <1>1, <2>1
  <1>5. stage[q] \in Early \ {"Requests"} => \A u \in Sent(s)' : u.tag \in Early
    <2>1. SUFFICES ASSUME stage[q] \in Early \ {"Requests"}, NEW u \in Sent(s)' PROVE u.tag \in Early
      OBVIOUS
    <2>2. \A v \in Sent(s) : v.tag \in Early
      BY <1>3, <2>1 DEF Ordering
    <2>3. Alive(q) /\ ~(Rank(stage[q]) >= 4)
      BY <1>0, <1>1, <2>1 DEF Alive, Early, Ended
    <2>4. ~(Rank(stage[s]) >= 5)
      BY <1>0, <1>3, <2>3 DEF Ordering
    <2> QED
      BY <2>2, <2>4
  <1>6. /\ Alive(q)
        /\ Rank(stage[q]) >= 5 \/ (stage[q] = "Requests" /\ got[q].done)
        => Rank(stage'[s]) >= 4
    <2>1. /\ Alive(q)
          /\ Rank(stage[q]) >= 5 \/ (stage[q] = "Requests" /\ got[q].done)
          => Rank(stage[s]) >= 4
      BY <1>3 DEF Ordering
    <2> QED
      BY <1>1, <2>1
  <1>7. Ordering(s)'
    BY <1>2, <1>4, <1>5, <1>6 DEF Ordering
  <1>8. Alive(q) => \A u \in Sent(q)' : Rank(u.tag) <= Rank(stage[q])
    BY <1>3 DEF Ordering
  <1>9. stage'[s] \in Early \ {"Requests"} => \A u \in Sent(q)' : u.tag \in Early
    <2>1. stage'[s] \in Early \ {"Requests"} => stage[s] \in Early \ {"Requests"}
      BY <1>0, <1>1
    <2>2. stage[s] \in Early \ {"Requests"} => \A u \in Sent(q) : u.tag \in Early
      BY <1>0, <1>3 DEF Ordering
    <2> QED
      BY <2>1, <2>2
  <1>10. /\ Alive(q)
         /\ Rank(stage'[s]) >= 5 \/ (stage'[s] = "Requests" /\ got'[s].done)
         => Rank(stage[q]) >= 4
    <2>1. SUFFICES ASSUME Alive(q), Rank(stage'[s]) >= 5 \/ (stage'[s] = "Requests" /\ got'[s].done)
                   PROVE  Rank(stage[q]) >= 4
      OBVIOUS
    <2>2. CASE Rank(stage[s]) >= 5 \/ (stage[s] = "Requests" /\ got[s].done)
      BY <1>0, <1>3, <2>1, <2>2 DEF Ordering
    <2>3. CASE \E u \in Sent(q) : u.tag = "Requests"
      <3>1. PICK u \in Sent(q) : u.tag = "Requests"
        BY <2>3
      <3>2. Rank(u.tag) <= Rank(stage[q])
        BY <1>3, <2>1, <3>1 DEF Ordering
      <3>3. Rank("Requests") = 4
        BY DEF Rank
      <3> QED
        BY <1>1, <3>1, <3>2, <3>3
    <2> QED
      BY <2>1, <2>2, <2>3
  <1>11. Ordering(q)'
    BY <1>0, <1>2, <1>8, <1>9, <1>10 DEF Ordering
  <1>12. Finished(s)'
    <2>1. SUFFICES ASSUME EndSeen(s)' PROVE stage'[s] = "Fin"
      BY DEF Finished
    <2>2. EndSeen(s) => stage[s] = "Fin"
      BY <1>3 DEF Finished, Alive, Ended
    <2>3. stage[s] = "Fin" => stage'[s] = "Fin"
      <3>1. stage[s] = "Fin" => Rank(stage[s]) = 7
        BY DEF Rank
      <3> QED
        BY <1>1, <3>1
    <2>4. CASE stage[q] = "ok" \/ (stage[q] = "Fin" /\ got[q].done)
      BY <2>2, <2>3, <2>4 DEF EndSeen
    <2>5. CASE \E u \in Sent(s)' : u.tag = "Fin"
      <3>1. PICK u \in Sent(s)' : u.tag = "Fin"
        BY <2>5
      <3>2. CASE \E v \in Sent(s) : u.tag = v.tag
        BY <2>2, <2>3, <3>1, <3>2 DEF EndSeen
      <3> QED
        BY <3>1, <3>2
    <2> QED
      BY <2>1, <2>4, <2>5 DEF EndSeen
  <1>13. Finished(q)'
    <2>1. EndSeen(q)' => EndSeen(q)
      <3>1. stage'[s] # "ok"
        BY DEF Ended
      <3> QED
        BY <1>0, <3>1 DEF EndSeen
    <2> QED
      BY <1>3, <2>1 DEF Finished
  <1> QED
    BY <1>7, <1>11, <1>12, <1>13, Pair

\* A side ends: with success after the end of the peer's stream, or with a
\* failure of the transport, or over a file that changed as it was sent.
LEMMA Leave ==
    ASSUME TypeInv, \A p \in Sides : Ordering(p) /\ Finished(p), NEW s \in Sides, Alive(s),
           LET q == Peer(s)
           IN  /\ stage'[q] = stage[q] /\ got'[q] = got[q] /\ error'[q] = error[q]
               /\ Sent(q)' = Sent(q),
           \A u \in Sent(s)' : u \in Sent(s),
           \/ stage'[s] = "ok" /\ stage[s] = "Fin" /\ got[s].done
           \/ stage'[s] = "failed" /\ error'[s] = "Transport"
           \/ stage'[s] = "failed" /\ stage[s] = "Receive"
    PROVE  \A p \in Sides : Ordering(p)' /\ Finished(p)'
  <1> DEFINE q == Peer(s)
  <1>0. q \in Sides /\ q # s /\ Peer(q) = s
    BY Pair
  <1>1. ~Alive(s)' /\ (Alive(q)' <=> Alive(q)) /\ stage'[s] \notin Early
    BY DEF Alive, Ended, Early
  <1>2. Ordering(s) /\ Ordering(q) /\ Finished(s) /\ Finished(q)
    BY <1>0
  <1>3. Ordering(s)'
    BY <1>1, <1>2 DEF Ordering
  <1>4. Ordering(q)'
    BY <1>0, <1>1, <1>2 DEF Ordering
  <1>5. Finished(s)'
    <2>1. EndSeen(s)' => EndSeen(s)
      BY DEF EndSeen
    <2>2. EndSeen(s) => stage[s] = "Fin"
      BY <1>2 DEF Finished, Alive, Ended
    <2> QED
      BY <2>1, <2>2 DEF Finished
  <1>6. Finished(q)'
    <2>1. EndSeen(q)' => EndSeen(q)
      BY <1>0 DEF EndSeen
    <2> QED
      BY <1>2, <2>1 DEF Finished
  <1> QED
    BY <1>3, <1>4, <1>5, <1>6, Pair

\* The parts of the invariant that are proved step by step.
Talk(p) == Ordering(p) /\ Quiet(p) /\ Chain(p) /\ Finished(p)

\* What a side asks for and serves, when only the other one moves.
LEMMA QuietKeep ==
    ASSUME NEW p \in Sides, Quiet(p), stage'[p] = stage[p], want'[p] = want[p], serve'[p] = serve[p],
           out'[p] = out[p]
    PROVE  Quiet(p)'
  BY DEF Quiet

\* One unit is written or read.
LEMMA UnitTalk ==
    ASSUME TalkInv, NEW s \in Sides, WriteUnit(s) \/ ReadUnit(s)
    PROVE  (\A p \in Sides : Talk(p)') /\ error' = error
  <1> DEFINE q == Peer(s)
  <1>0. q \in Sides /\ q # s /\ Peer(q) = s
    BY Pair
  <1>1. TypeInv /\ \A p \in Sides : Ordering(p) /\ Quiet(p) /\ Chain(p) /\ Finished(p)
    BY DEF TalkInv
  <1>2. stage[s] \in Stages
    BY <1>1 DEF TypeInv, StageOK
  <1>3. \A x : Rank(x) \in 1..7
    BY DEF Rank
  <1>4. CASE WriteUnit(s)
    <2>1. Alive(s) /\ UNCHANGED <<stage, got, error, want, serve>>
      BY <1>4 DEF WriteUnit, Alive, fileVars
    <2>2. wire'[q] = wire[q] /\ out'[q] = out[q]
      <3>1. out' = [out EXCEPT ![s] = Tail(@)]
        BY <1>4 DEF WriteUnit
      <3>2. \E w : wire' = [wire EXCEPT ![s] = w]
        BY <1>1, <1>4, Written
      <3> QED
        BY <1>0, <1>1, <3>1, <3>2 DEF TypeInv, StreamOK
    <2>3. Sent(q)' = Sent(q)
      BY <2>2 DEF Sent, Unread
    <2>4. \A u \in Sent(s)' : \E v \in Sent(s) : u.tag = v.tag
      BY <1>1, <1>4, UnreadWrite
    <2>5. stage'[s] \in Stages \ Ended /\ Rank(stage'[s]) >= Rank(stage[s])
      BY <1>2, <1>3, <2>1 DEF Alive
    <2>6. \A p \in Sides : Ordering(p)' /\ Finished(p)'
      BY <1>1, <2>1, <2>3, <2>4, <2>5, Advance
    <2>7. Quiet(q)'
      BY <1>0, <1>1, <2>1, <2>2, QuietKeep
    <2>8. Quiet(s)'
      <3>1. stage[s] # "Receive"
        BY <1>1, <1>4 DEF WriteUnit, Quiet
      <3> QED
        BY <1>1, <2>1, <3>1 DEF Quiet
    <2>9. Chain(s)' /\ Chain(q)'
      BY <1>0, <1>1, <1>4, WriteChain
    <2> QED
      BY <2>1, <2>6, <2>7, <2>8, <2>9, Pair DEF Talk
  <1>5. CASE ReadUnit(s)
    <2> DEFINE u == Head(wire[q])
    <2>1. stage[s] \in Exchanged /\ ~got[s].done /\ wire[q] # <<>> /\ Alive(s)
      BY <1>5 DEF ReadUnit, Alive, Exchanged, Ended
    <2>2. u.tag = stage[s] /\ Counts(s, IF stage[s] = "Fin" THEN 0 ELSE 1)
      BY <1>0, <1>1, <2>1, ReadExpected
    <2>3. /\ wire' = [wire EXCEPT ![q] = Tail(wire[q])]
          /\ got' = [got EXCEPT ![s] = [done |-> u.more = 0, val |-> u.val]]
          /\ UNCHANGED <<stage, out, want, serve, error>>
      BY <1>5, <2>2 DEF ReadUnit, fileVars
    <2>4. wire'[q] = Tail(wire[q]) /\ wire'[s] = wire[s] /\ got'[q] = got[q]
      BY <1>0, <1>1, <2>3 DEF TypeInv, StreamOK, GotOK
    <2>5. Sent(s)' = Sent(s)
      BY <2>3, <2>4 DEF Sent, Unread
    <2>6. u \in Sent(q) /\ Sent(q)' \subseteq Sent(q)
      BY <1>0, <1>1, <2>1, <2>3, <2>4, UnreadTail
    <2>7. /\ stage'[s] = stage[s] /\ stage'[s] \in Stages \ Ended /\ Rank(stage'[s]) >= Rank(stage[s])
      BY <1>2, <1>3, <2>1, <2>3 DEF Alive
    <2>8. /\ stage'[s] = "Requests" => \E v \in Sent(q) : v.tag = "Requests"
          /\ stage'[s] = "Fin" => \E v \in Sent(q) : v.tag = "Fin"
      BY <2>2, <2>6, <2>7
    <2> HIDE DEF u
    <2>9. \A p \in Sides : Ordering(p)' /\ Finished(p)'
      BY <1>1, <2>1, <2>3, <2>4, <2>5, <2>6, <2>7, <2>8, Advance
    <2>10. \A p \in Sides : Quiet(p)'
      BY <1>1, <2>3, QuietKeep
    <2>11. Chain(s)' /\ Chain(q)'
      BY <1>0, <1>1, <1>5, ReadChain
    <2> QED
      BY <2>3, <2>9, <2>10, <2>11, Pair DEF Talk
  <1> QED
    BY <1>4, <1>5

\* A side enters a later stage with the units of a frame of that stage.
LEMMA EnterOrder ==
    ASSUME TypeInv, \A p \in Sides : Ordering(p) /\ Finished(p), NEW s \in Sides, Alive(s),
           out[s] = <<>>, NEW st \in Stages \ Ended, Rank(st) >= Rank(stage[s]),
           NEW units \in Seq(Unit(clock)), \A k \in 1..Len(units) : units[k].tag = st,
           st \notin Early => units = <<>> \/ Rank(stage[s]) >= 5,
           Rank(st) >= 5 => Rank(stage[s]) >= 5 \/ (stage[s] = "Requests" /\ got[s].done),
           Enter(s, st, units), UNCHANGED <<wire, error>>
    PROVE  /\ \A p \in Sides : Ordering(p)' /\ Finished(p)'
           /\ stage'[s] = st /\ out'[s] = units
           /\ stage'[Peer(s)] = stage[Peer(s)] /\ out'[Peer(s)] = out[Peer(s)]
  <1> DEFINE q == Peer(s)
  <1>0. q \in Sides /\ q # s
    BY Pair
  <1>1. /\ stage'[s] = st /\ ~got'[s].done /\ out'[s] = units /\ wire'[s] = wire[s]
        /\ stage'[q] = stage[q] /\ out'[q] = out[q] /\ got'[q] = got[q]
    BY <1>0 DEF Enter, TypeInv, StageOK, StreamOK, GotOK, NoFrame
  <1>2. Sent(q)' = Sent(q)
    BY <1>1 DEF Sent, Unread
  <1>3. \A x : Rank(x) \in 1..7
    BY DEF Rank
  <1>4. ASSUME NEW u \in Sent(s)'
        PROVE  \/ \E v \in Sent(s) : u.tag = v.tag
               \/ /\ Rank(u.tag) <= Rank(stage'[s])
                  /\ u.tag = "Fin" => stage'[s] = "Fin"
                  /\ u.tag \notin Early => Rank(stage[s]) >= 5
    <2>1. u \in Sent(s) \/ \E k \in 1..Len(units) : u = units[k]
      BY <1>1, UnreadJoin
    <2>2. (\E k \in 1..Len(units) : u = units[k]) => u.tag = st /\ units # <<>>
      OBVIOUS
    <2>3. Rank(st) <= Rank(st)
      BY <1>3
    <2> QED
      BY <1>1, <2>1, <2>2, <2>3
  <1>5. \A p \in Sides : Ordering(p)' /\ Finished(p)'
    BY <1>1, <1>2, <1>4, Advance
  <1> QED
    BY <1>1, <1>5

\* An exchange, or a half of the file phase, is over.
LEMMA StageTalk ==
    ASSUME TalkInv, NEW s \in Sides,
           \/ HelloDone(s) \/ RosterDone(s) \/ ManifestsDone(s) \/ RequestsDone(s)
           \/ FilesDone(s) \/ DoneDone(s)
    PROVE  (\A p \in Sides : Talk(p)') /\ error' = error
  <1> DEFINE q == Peer(s)
  <1>0. q \in Sides /\ q # s /\ Peer(q) = s /\ clock \in Nat
    BY Pair, UnreadType DEF TalkInv
  <1>1. TypeInv /\ \A p \in Sides : Ordering(p) /\ Quiet(p) /\ Chain(p) /\ Finished(p)
    BY DEF TalkInv
  <1>2. SUFFICES ASSUME NEW st \in Stages \ Ended, NEW units \in Seq(Unit(clock)),
                        Enter(s, st, units), out[s] = <<>>, Alive(s),
                        \A k \in 1..Len(units) : units[k].tag = st,
                        Rank(st) >= Rank(stage[s]),
                        st \notin Early => units = <<>> \/ Rank(stage[s]) >= 5,
                        Rank(st) >= 5 => Rank(stage[s]) >= 5 \/ (stage[s] = "Requests" /\ got[s].done),
                        UNCHANGED <<wire, error>>, want'[q] = want[q], serve'[q] = serve[q],
                        st \notin {"Requests", "Send", "Receive"} => want'[s] = <<>>,
                        st \notin {"Send", "Receive"} => serve'[s] = <<>>,
                        st = Order(s)[2] => IF s = "Dialer" THEN serve'[s] = <<>> ELSE want'[s] = <<>>,
                        st = "Receive" => units = <<>>,
                        Chain(s)', Chain(q)'
                 PROVE  (\A p \in Sides : Talk(p)') /\ error' = error
    <2>1. CASE HelloDone(s)
      <3>1. /\ stage[s] = "Hello" /\ out[s] = <<>> /\ Enter(s, "Roster", Frame("Roster", <<>>))
            /\ UNCHANGED <<wire, error, want, serve>>
        BY <2>1 DEF HelloDone, ExchangeDone, RosterBundle, fileVars
      <3>2. Chain(s)' /\ Chain(q)'
        BY <1>0, <1>1, <2>1, ExchangeChain
      <3>3. PICK units : units = Frame("Roster", <<>>) /\ units \in Seq(Unit(clock))
                         /\ \A k \in 1..Len(units) : units[k].tag = "Roster"
        BY <1>0, FrameType, FrameTag
      <3>4. /\ "Roster" \in Stages \ Ended /\ Rank("Roster") = 2 /\ Rank(stage[s]) = 1
            /\ "Roster" \in Early /\ Alive(s) /\ Order(s)[2] \in {"Send", "Receive"}
        BY <3>1 DEF Stages, Exchanged, Ended, Rank, Early, Alive, Order
      <3>5. want[s] = <<>> /\ serve[s] = <<>>
        BY <1>1, <3>1 DEF Quiet
      <3> QED
        BY <1>2, <3>1, <3>2, <3>3, <3>4, <3>5
    <2>2. CASE RosterDone(s)
      <3>1. /\ stage[s] = "Roster" /\ out[s] = <<>> /\ Enter(s, "Manifests", Frame("Manifests", win[s]))
            /\ UNCHANGED <<wire, error, want, serve>>
        BY <2>2 DEF RosterDone, ExchangeDone, ManifestBundle, fileVars
      <3>2. Chain(s)' /\ Chain(q)'
        BY <1>0, <1>1, <2>2, ExchangeChain
      <3>3. PICK units : units = Frame("Manifests", win[s]) /\ units \in Seq(Unit(clock))
                         /\ \A k \in 1..Len(units) : units[k].tag = "Manifests"
        BY <1>0, <1>1, FrameType, FrameTag DEF TypeInv, LocalOK
      <3>4. /\ "Manifests" \in Stages \ Ended /\ Rank("Manifests") = 3 /\ Rank(stage[s]) = 2
            /\ "Manifests" \in Early /\ Alive(s) /\ Order(s)[2] \in {"Send", "Receive"}
        BY <3>1 DEF Stages, Exchanged, Ended, Rank, Early, Alive, Order
      <3>5. want[s] = <<>> /\ serve[s] = <<>>
        BY <1>1, <3>1 DEF Quiet
      <3> QED
        BY <1>2, <3>1, <3>2, <3>3, <3>4, <3>5
    <2>3. CASE ManifestsDone(s)
      <3>1. PICK sel : /\ stage[s] = "Manifests" /\ out[s] = <<>>
                       /\ want' = [want EXCEPT ![s] = sel] /\ Enter(s, "Requests", Frame("Requests", sel))
                       /\ UNCHANGED <<wire, error, serve, clock>>
        BY <2>3 DEF ManifestsDone, ExchangeDone
      <3>2. Chain(s)' /\ Chain(q)'
        BY <1>0, <1>1, <2>3, ManifestsChain
      <3>3. sel \in Lists(clock) /\ want'[q] = want[q]
        <4>1. TypeInv'
          BY <1>1, <2>3, StageStepType
        <4> QED
          BY <1>0, <1>1, <3>1, <4>1 DEF TypeInv, ListsOK
      <3>4. PICK units : units = Frame("Requests", sel) /\ units \in Seq(Unit(clock))
                         /\ \A k \in 1..Len(units) : units[k].tag = "Requests"
        BY <1>0, <3>3, FrameType, FrameTag
      <3>5. /\ "Requests" \in Stages \ Ended /\ Rank("Requests") = 4 /\ Rank(stage[s]) = 3
            /\ "Requests" \in Early /\ Alive(s) /\ Order(s)[2] \in {"Send", "Receive"}
        BY <3>1 DEF Stages, Exchanged, Ended, Rank, Early, Alive, Order
      <3>6. serve[s] = <<>>
        BY <1>1, <3>1 DEF Quiet
      <3> QED
        BY <1>2, <3>1, <3>2, <3>3, <3>4, <3>5, <3>6
    <2>4. CASE RequestsDone(s)
      <3>1. /\ stage[s] = "Requests" /\ got[s].done /\ out[s] = <<>> /\ UNCHANGED wire
        BY <2>4 DEF RequestsDone, ExchangeDone
      <3>2. /\ Chain(s)' /\ Chain(q)' /\ serve' = [serve EXCEPT ![s] = got[s].val]
            /\ Enter(s, Order(s)[1], <<>>) /\ UNCHANGED <<want, error>>
        BY <1>0, <1>1, <2>4, RequestsChain
      <3>3. serve'[q] = serve[q]
        BY <1>0, <1>1, <3>2 DEF TypeInv, ListsOK
      <3>4. PICK st : st = Order(s)[1] /\ st \in {"Send", "Receive"} /\ st # Order(s)[2]
        BY DEF Order
      <3>5. st \in Stages \ Ended /\ Rank(st) = 5 /\ Rank(stage[s]) = 4 /\ Alive(s)
        BY <3>1, <3>4 DEF Stages, Exchanged, Ended, Rank, Alive
      <3>6. PICK units : units = <<>>
        OBVIOUS
      <3>7. /\ units \in Seq(Unit(clock)) /\ \A k \in 1..Len(units) : units[k].tag = st
            /\ Enter(s, st, units) /\ Rank(st) >= Rank(stage[s])
        BY <3>2, <3>4, <3>5, <3>6
      <3> QED
        BY <1>2, <3>1, <3>2, <3>3, <3>4, <3>5, <3>6, <3>7
    <2>5. CASE FilesDone(s)
      <3>1. /\ stage[s] \in {"Send", "Receive"} /\ out[s] = <<>>
            /\ stage[s] = "Send" => serve[s] = <<>>
            /\ stage[s] = "Receive" => want[s] = <<>>
            /\ UNCHANGED <<wire, error, want, serve>>
        BY <1>1, <2>5 DEF FilesDone, Quiet, fileVars
      <3>2. Chain(s)' /\ Chain(q)'
        BY <1>0, <1>1, <2>5, FilesChain
      <3>3. Rank(stage[s]) = 5 /\ Alive(s)
        BY <3>1 DEF Rank, Alive, Ended
      <3>4. CASE stage[s] = Order(s)[1]
        <4>1. PICK st : st = Order(s)[2] /\ st \in {"Send", "Receive"} /\ Enter(s, st, <<>>)
          BY <2>5, <3>4 DEF FilesDone, Order
        <4>2. IF s = "Dialer" THEN serve[s] = <<>> ELSE want[s] = <<>>
          BY <3>1, <3>4 DEF Order
        <4>3. st \in Stages \ Ended /\ Rank(st) = 5
          BY <4>1 DEF Stages, Ended, Rank
        <4>4. PICK units : units = <<>>
          OBVIOUS
        <4>5. /\ units \in Seq(Unit(clock)) /\ \A k \in 1..Len(units) : units[k].tag = st
              /\ Enter(s, st, units) /\ Rank(st) >= Rank(stage[s]) /\ Rank(stage[s]) >= 5
          BY <3>3, <4>1, <4>3, <4>4
        <4> QED
          BY <1>2, <3>1, <3>2, <3>3, <4>1, <4>2, <4>3, <4>4, <4>5
      <3>5. CASE stage[s] # Order(s)[1]
        <4>1. PICK units : /\ units = Frame("Done", <<>>) /\ units \in Seq(Unit(clock))
                           /\ \A k \in 1..Len(units) : units[k].tag = "Done"
          BY <1>0, FrameType, FrameTag
        <4>2. Enter(s, "Done", units)
          BY <2>5, <3>5, <4>1 DEF FilesDone
        <4>3. serve[s] = <<>> /\ want[s] = <<>>
          BY <1>1, <3>1, <3>5 DEF Quiet, Order
        <4>4. "Done" \in Stages \ Ended /\ Rank("Done") = 6 /\ Order(s)[2] \in {"Send", "Receive"}
          BY DEF Stages, Exchanged, Ended, Rank, Order
        <4> QED
          BY <1>2, <3>1, <3>2, <3>3, <4>1, <4>2, <4>3, <4>4
      <3> QED
        BY <3>4, <3>5
    <2>6. CASE DoneDone(s)
      <3>1. /\ stage[s] = "Done" /\ out[s] = <<>> /\ Enter(s, "Fin", Frame("Fin", <<>>))
            /\ UNCHANGED <<wire, error, want, serve>>
        BY <2>6 DEF DoneDone, ExchangeDone, fileVars
      <3>2. Chain(s)' /\ Chain(q)'
        BY <1>0, <1>1, <2>6, DoneChain
      <3>3. PICK units : units = Frame("Fin", <<>>) /\ units \in Seq(Unit(clock))
                         /\ \A k \in 1..Len(units) : units[k].tag = "Fin"
        BY <1>0, FrameType, FrameTag
      <3>4. /\ "Fin" \in Stages \ Ended /\ Rank("Fin") = 7 /\ Rank(stage[s]) = 6
            /\ Alive(s) /\ Order(s)[2] \in {"Send", "Receive"}
        BY <3>1 DEF Stages, Exchanged, Ended, Rank, Alive, Order
      <3>5. want[s] = <<>> /\ serve[s] = <<>>
        BY <1>1, <3>1 DEF Quiet
      <3> QED
        BY <1>2, <3>1, <3>2, <3>3, <3>4, <3>5
    <2> QED
      BY <2>1, <2>2, <2>3, <2>4, <2>5, <2>6
  <1>3. /\ \A p \in Sides : Ordering(p)' /\ Finished(p)'
        /\ stage'[s] = st /\ out'[s] = units /\ stage'[q] = stage[q] /\ out'[q] = out[q]
    BY <1>1, <1>2, EnterOrder
  <1>4. Quiet(s)'
    BY <1>2, <1>3 DEF Quiet
  <1>5. Quiet(q)'
    BY <1>0, <1>1, <1>2, <1>3, QuietKeep
  <1> QED
    BY <1>2, <1>3, <1>4, <1>5, Pair DEF Talk

\* One request is answered, or one answer is read and applied.
LEMMA FileTalk ==
    ASSUME TalkInv, NEW s \in Sides,
           \/ SendFile(s) \/ ReceiveHeader(s) \/ ReceiveBody(s) \/ (ApplyFile(s) /\ body[s].good)
           \/ InstallFile(s) \/ MarkFile(s) \/ ApplyFails(s)
    PROVE  (\A p \in Sides : Talk(p)') /\ error' = error
  <1> DEFINE q == Peer(s)
  <1>0. q \in Sides /\ q # s /\ Peer(q) = s
    BY Pair
  <1>1. TypeInv /\ \A p \in Sides : Ordering(p) /\ Quiet(p) /\ Chain(p) /\ Finished(p)
    BY DEF TalkInv
  <1>2. \A x : Rank(x) \in 1..7
    BY DEF Rank
  <1>3. SUFFICES ASSUME stage[s] \in {"Send", "Receive"}, UNCHANGED <<stage, got, error>>,
                        stage[s] = "Receive" => serve' = serve /\ out' = out,
                        stage[s] = "Send" => want' = want,
                        want'[q] = want[q], serve'[q] = serve[q], out'[q] = out[q],
                        \A u \in Sent(q)' : u \in Sent(q),
                        \A u \in Sent(s)' : u \in Sent(s) \/ u.tag \in {"File", "Body", "FileUnavailable"},
                        Chain(s)', Chain(q)'
                 PROVE  (\A p \in Sides : Talk(p)') /\ error' = error
    <2>1. CASE SendFile(s)
      <3>1. stage[s] = "Send" /\ UNCHANGED <<stage, got, error, want, wire>>
            /\ serve' = [serve EXCEPT ![s] = Tail(@)]
        BY <2>1 DEF SendFile
      <3>2. /\ Chain(s)' /\ Chain(q)'
            /\ \A u \in Sent(s)' : u \in Sent(s) \/ u.tag \in {"File", "Body", "FileUnavailable"}
        BY <1>0, <1>1, <2>1, SendChain
      <3>3. serve'[q] = serve[q] /\ out'[q] = out[q]
        <4>1. \E w : out' = [out EXCEPT ![s] = w]
          BY <2>1 DEF SendFile
        <4> QED
          BY <1>0, <1>1, <3>1, <4>1 DEF TypeInv, ListsOK, StreamOK
      <3>4. Sent(q)' = Sent(q)
        BY <3>1, <3>3 DEF Sent, Unread
      <3> QED
        BY <1>3, <3>1, <3>2, <3>3, <3>4
    <2>2. CASE ReceiveHeader(s)
      <3>1. stage[s] = "Receive" /\ want[s] # <<>> /\ ~body[s].on /\ wire[q] # <<>>
        BY <2>2 DEF ReceiveHeader
      <3>2. /\ wire' = [wire EXCEPT ![q] = Tail(wire[q])] /\ UNCHANGED <<stage, out, got, serve, error>>
            /\ want' = want \/ want' = [want EXCEPT ![s] = Tail(@)]
        <4>1. LET u == Head(wire[q])
                  r == Head(want[s])
              IN  /\ Answers(r, u) \/ u.tag = "FileUnavailable"
                  /\ Counts(s, IF u.tag = "File" THEN 1 + Size[r.path] ELSE 1)
          BY <1>0, <1>1, <3>1, AnswerExpected
        <4> QED
          BY <2>2, <4>1 DEF ReceiveHeader
      <3>3. Chain(s)' /\ Chain(q)'
        BY <1>0, <1>1, <2>2, HeaderChain
      <3>4. want'[q] = want[q] /\ wire'[q] = Tail(wire[q]) /\ wire'[s] = wire[s]
        BY <1>0, <1>1, <3>2 DEF TypeInv, ListsOK, StreamOK
      <3>5. Sent(q)' \subseteq Sent(q) /\ Sent(s)' = Sent(s)
        <4>1. Sent(q)' \subseteq Sent(q)
          BY <1>0, <1>1, <3>1, <3>2, <3>4, UnreadTail
        <4> QED
          BY <3>2, <3>4, <4>1 DEF Sent, Unread
      <3> QED
        BY <1>3, <3>1, <3>2, <3>3, <3>4, <3>5
    <2>3. CASE ReceiveBody(s)
      <3>1. /\ stage[s] = "Receive" /\ wire[q] # <<>> /\ wire' = [wire EXCEPT ![q] = Tail(wire[q])]
            /\ UNCHANGED <<stage, out, got, want, serve, error>>
        BY <1>1, <2>3 DEF ReceiveBody, TypeInv, BodyOK
      <3>2. Chain(s)' /\ Chain(q)'
        BY <1>0, <1>1, <2>3, BodyChain
      <3>3. wire'[q] = Tail(wire[q]) /\ wire'[s] = wire[s]
        BY <1>0, <1>1, <3>1 DEF TypeInv, StreamOK
      <3>4. Sent(q)' \subseteq Sent(q) /\ Sent(s)' = Sent(s)
        <4>1. Sent(q)' \subseteq Sent(q)
          BY <1>0, <1>1, <3>1, <3>3, UnreadTail
        <4> QED
          BY <3>1, <3>3, <4>1 DEF Sent, Unread
      <3> QED
        BY <1>3, <3>1, <3>2, <3>3, <3>4
    <2>4. body[s].step # "bytes" => body[s].on /\ body[s].left = 0
      BY <1>1 DEF TypeInv, BodyOK, NoBody
    <2>5. ASSUME body[s].on, body[s].left = 0,
                 \/ /\ body' = [body EXCEPT ![s] = NoBody]
                    /\ want' = [want EXCEPT ![s] = Tail(want[s])]
                 \/ /\ \E st : body' = [body EXCEPT ![s] = [body[s] EXCEPT !.step = st]]
                    /\ UNCHANGED want,
                 UNCHANGED <<stage, out, got, wire, received, serve, served, clock, error>>
          PROVE  (\A p \in Sides : Talk(p)') /\ error' = error
      <3>1. Chain(s)' /\ Chain(q)'
        BY <1>0, <1>1, <2>5, ApplyChain, InstallChain
      <3>2. stage[s] = "Receive" /\ want'[q] = want[q]
        BY <1>0, <1>1, <2>5 DEF TypeInv, BodyOK, ListsOK
      <3>3. Sent(q)' = Sent(q) /\ Sent(s)' = Sent(s)
        BY <2>5 DEF Sent, Unread
      <3> QED
        BY <1>3, <2>5, <3>1, <3>2, <3>3
    <2>6. CASE ApplyFile(s) /\ body[s].good
      <3>1. CASE StillWins(s, Head(want[s]))
        BY <2>5, <2>6, <3>1 DEF ApplyFile
      <3>2. CASE ~StillWins(s, Head(want[s]))
        BY <2>5, <2>6, <3>2 DEF ApplyFile
      <3> QED
        BY <3>1, <3>2
    <2>7. CASE InstallFile(s)
      BY <2>4, <2>5, <2>7 DEF InstallFile, streamVars
    <2>8. CASE MarkFile(s)
      BY <2>4, <2>5, <2>8 DEF MarkFile, streamVars
    <2>9. CASE ApplyFails(s)
      BY <2>4, <2>5, <2>9 DEF ApplyFails, streamVars
    <2> QED
      BY <2>1, <2>2, <2>3, <2>6, <2>7, <2>8, <2>9
  <1>4. Alive(s) /\ stage'[s] \in Stages \ Ended /\ Rank(stage[s]) = 5 /\ Rank(stage'[s]) = 5
    BY <1>3 DEF Alive, Ended, Stages, Rank
  <1>5. Rank("File") = 5 /\ Rank("Body") = 5 /\ Rank("FileUnavailable") = 5
    BY DEF Rank
  <1>6. \A p \in Sides : Ordering(p)' /\ Finished(p)'
    <2>1. stage'[q] = stage[q] /\ got'[q] = got[q] /\ stage'[s] # "Fin"
      BY <1>3
    <2>2. \A u \in Sent(s)' :
               \/ \E v \in Sent(s) : u.tag = v.tag
               \/ /\ Rank(u.tag) <= Rank(stage'[s])
                  /\ u.tag = "Fin" => stage'[s] = "Fin"
                  /\ u.tag \notin Early => Rank(stage[s]) >= 5
      BY <1>3, <1>4, <1>5
    <2> QED
      BY <1>1, <1>3, <1>4, <2>1, <2>2, Advance
  <1>7. Quiet(s)'
    BY <1>1, <1>3 DEF Quiet, Order
  <1>8. Quiet(q)'
    BY <1>0, <1>1, <1>3, QuietKeep
  <1> QED
    BY <1>3, <1>6, <1>7, <1>8, Pair DEF Talk

\* A side leaves the session.
LEMMA LeaveTalk ==
    ASSUME TalkInv, NEW s \in Sides,
           \/ SessionOk(s) \/ PeerGone(s) \/ Breaks(s) \/ (ApplyFile(s) /\ ~body[s].good)
    PROVE  (\A p \in Sides : Talk(p)') /\ HonestNeverRejected'
  <1> DEFINE q == Peer(s)
  <1>0. q \in Sides /\ q # s /\ Peer(q) = s
    BY Pair
  <1>1. /\ TypeInv /\ HonestNeverRejected
        /\ \A p \in Sides : Ordering(p) /\ Quiet(p) /\ Chain(p) /\ Finished(p)
    BY DEF TalkInv
  <1>2. CASE SessionOk(s)
    <2>1. /\ stage[s] = "Fin" /\ out[s] = <<>> /\ got[s].done
          /\ stage' = [stage EXCEPT ![s] = "ok"] /\ got' = [got EXCEPT ![s] = NoFrame]
          /\ UNCHANGED <<out, wire, received, want, serve, body, error, clock>>
      BY <1>2 DEF SessionOk, PeerFinished, ExchangeDone, fileVars
    <2>2. /\ stage'[s] = "ok" /\ stage'[q] = stage[q] /\ got'[q] = got[q] /\ Alive(s)
          /\ stage'[s] \in Ended /\ out' = [out EXCEPT ![s] = <<>>]
      BY <1>0, <1>1, <2>1 DEF TypeInv, StageOK, GotOK, StreamOK, Alive, Ended
    <2>3. Sent(s)' = Sent(s) /\ Sent(q)' = Sent(q)
      BY <2>1 DEF Sent, Unread
    <2>4. \A p \in Sides : Ordering(p)' /\ Finished(p)'
      BY <1>1, <2>1, <2>2, <2>3, Leave
    <2>5. Chain(s)' /\ Chain(q)'
      <3>1. stage' = [stage EXCEPT ![s] = stage'[s]]
        BY <2>1, <2>2
      <3> QED
        BY <1>1, <2>1, <2>2, <3>1, EndChain
    <2>6. Quiet(q)'
      BY <1>0, <1>1, <2>1, <2>2, QuietKeep
    <2>7. Quiet(s)'
      BY <1>1, <2>1, <2>2 DEF Quiet, Order
    <2> QED
      BY <1>1, <2>1, <2>4, <2>5, <2>6, <2>7, Pair DEF Talk, HonestNeverRejected
  <1>3. CASE PeerGone(s) \/ Breaks(s) \/ (ApplyFile(s) /\ ~body[s].good)
    <2>1. PICK why \in {"Transport", "CorruptFile"} :
              /\ Fail(s, why) /\ Alive(s) /\ UNCHANGED <<wire, received, clock>>
              /\ why = "Transport" \/ stage[s] = "Receive"
      <3>1. CASE PeerGone(s) \/ Breaks(s)
        BY <3>1 DEF PeerGone, Breaks, Alive
      <3>2. CASE ApplyFile(s) /\ ~body[s].good
        <4>1. stage[s] = "Receive"
          BY <1>1, <3>2 DEF ApplyFile, TypeInv, BodyOK
        <4> QED
          BY <3>2, <4>1 DEF ApplyFile, Alive, Ended
      <3> QED
        BY <1>3, <3>1, <3>2
    <2>2. /\ stage' = [stage EXCEPT ![s] = "failed"] /\ error' = [error EXCEPT ![s] = why]
          /\ out' = [out EXCEPT ![s] = <<>>] /\ got' = [got EXCEPT ![s] = NoFrame]
          /\ want' = [want EXCEPT ![s] = <<>>] /\ serve' = [serve EXCEPT ![s] = <<>>]
          /\ body' = [body EXCEPT ![s] = NoBody]
      BY <2>1 DEF Fail
    <2>3. /\ stage'[s] = "failed" /\ stage'[q] = stage[q] /\ got'[q] = got[q] /\ stage'[s] \in Ended
          /\ error'[s] = why /\ error'[q] = error[q] /\ out'[s] = <<>> /\ out'[q] = out[q]
          /\ want'[s] = <<>> /\ want'[q] = want[q] /\ serve'[s] = <<>> /\ serve'[q] = serve[q]
          /\ body'[q] = body[q]
      BY <1>0, <1>1, <2>2 DEF TypeInv, StageOK, GotOK, StreamOK, ListsOK, BodyOK, Ended
    <2>4. Sent(q)' = Sent(q)
      BY <2>1, <2>3 DEF Sent, Unread
    <2>5. Sent(s)' \subseteq Sent(s)
      <3>1. wire'[s] = wire[s]
        BY <2>1
      <3> QED
        BY <1>1, <2>3, <3>1, UnreadStart
    <2>6. \A p \in Sides : Ordering(p)' /\ Finished(p)'
      BY <1>1, <2>1, <2>3, <2>4, <2>5, Leave
    <2>7. Chain(s)' /\ Chain(q)'
      <3>1. stage' = [stage EXCEPT ![s] = stage'[s]]
        BY <2>2, <2>3
      <3> QED
        BY <1>1, <2>1, <2>2, <2>3, <3>1, EndChain
    <2>8. Quiet(q)'
      BY <1>0, <1>1, <2>3, QuietKeep
    <2>9. Quiet(s)'
      BY <2>3 DEF Quiet
    <2>10. HonestNeverRejected'
      BY <1>0, <1>1, <2>3, Pair DEF HonestNeverRejected
    <2> QED
      BY <2>6, <2>7, <2>8, <2>9, <2>10, Pair DEF Talk
  <1> QED
    BY <1>2, <1>3

\* What a local program and the scanner do is not part of the conversation.
LEMMA LocalTalk ==
    ASSUME TalkInv, TypeInv', UNCHANGED <<stage, streamVars, fileVars, error>>,
           clock' = clock \/ clock' = clock + 1
    PROVE  (\A p \in Sides : Talk(p)') /\ error' = error
  <1>1. TypeInv /\ \A p \in Sides : Ordering(p) /\ Quiet(p) /\ Chain(p) /\ Finished(p)
    BY DEF TalkInv
  <1>2. UNCHANGED <<stage, out, got, wire, received, want, serve, served, body, error>>
    BY DEF streamVars, fileVars
  <1>3. \A p \in Sides : Unread(p)' = Unread(p) /\ Sent(p)' = Sent(p)
    BY <1>2 DEF Unread, Sent
  <1>4. Lists(clock) \subseteq Lists(clock')
    <2>1. clock \in Nat
      BY <1>1, SessionAssumption DEF TypeInv, LocalOK
    <2> QED
      BY <2>1, Grows
  <1>5. ASSUME NEW p \in Sides PROVE Talk(p)'
    <2>1. Peer(p) \in Sides
      BY Pair
    <2>2. Chain(p)'
      BY <1>1, <1>2, <1>3, <1>4, <2>1, ChainKeep
    <2>3. Ordering(p)' /\ Quiet(p)' /\ Finished(p)'
      BY <1>1, <1>2, <1>3, <2>1 DEF Ordering, Alive, Quiet, Finished, EndSeen
    <2> QED
      BY <2>2, <2>3 DEF Talk
  <1> QED
    BY <1>2, <1>5

\* Before the first session both sides are ended and silent.
LEMMA InitTalk == Init => TalkInv
  <1> SUFFICES ASSUME Init PROVE TalkInv
    OBVIOUS
  <1>1. TypeInv
    BY InitType
  <1>2. ASSUME NEW p \in Sides
        PROVE  Ordering(p) /\ Quiet(p) /\ Chain(p) /\ Finished(p) /\ error[p] = "none"
    <2>1. Peer(p) \in Sides
      BY Pair
    <2>2. /\ \A t \in Sides : /\ stage[t] = "ok" /\ out[t] = <<>> /\ wire[t] = <<>>
                              /\ want[t] = <<>> /\ serve[t] = <<>> /\ error[t] = "none"
      BY DEF Init
    <2>3. Sent(p) = {}
      <3>1. Unread(p) = <<>>
        BY <2>2 DEF Unread
      <3> QED
        BY <3>1 DEF Sent
    <2> QED
      BY <2>1, <2>2, <2>3 DEF Ordering, Quiet, Chain, Finished, Alive, Ended, Early, Order
  <1> QED
    BY <1>1, <1>2 DEF TalkInv, HonestNeverRejected

\* Every step keeps the conversation.
LEMMA NextTalk == TalkInv /\ [Next]_vars => TalkInv'
  <1> SUFFICES ASSUME TalkInv, [Next]_vars PROVE TalkInv'
    OBVIOUS
  <1>1. TypeInv /\ HonestNeverRejected /\ \A p \in Sides : Quiet(p)
    BY DEF TalkInv
  <1>2. TypeInv'
    BY <1>1, NextType
  <1>3. SUFFICES (\A p \in Sides : Talk(p)') /\ HonestNeverRejected'
    BY <1>2 DEF TalkInv, Talk
  <1>4. SUFFICES ASSUME ~((\A p \in Sides : Talk(p)') /\ error' = error)
                 PROVE  (\A p \in Sides : Talk(p)') /\ HonestNeverRejected'
    BY <1>1 DEF HonestNeverRejected
  <1>5. CASE StartSession
    <2>1. \A p \in Sides : Chain(p)' /\ Ordering(p)' /\ Quiet(p)' /\ Finished(p)' /\ error'[p] = "none"
      BY <1>1, <1>5, StartChain
    <2> QED
      BY <2>1 DEF Talk, HonestNeverRejected
  <1>6. ASSUME NEW s \in Sides, SideStep(s)
        PROVE  (\A p \in Sides : Talk(p)') /\ HonestNeverRejected'
    BY <1>4, <1>6, UnitTalk, StageTalk, FileTalk, LeaveTalk DEF SideStep
  <1>7. ASSUME NEW s \in Sides, ApplyFails(s) \/ Breaks(s)
        PROVE  (\A p \in Sides : Talk(p)') /\ HonestNeverRejected'
    BY <1>4, <1>7, FileTalk, LeaveTalk
  <1>8. ASSUME NEW s \in Sides, Scan(s) \/ \E f \in Files : UserEdits(s, f)
        PROVE  (\A p \in Sides : Talk(p)') /\ HonestNeverRejected'
    <2>1. UNCHANGED <<stage, streamVars, fileVars, error>> /\ (clock' = clock \/ clock' = clock + 1)
      BY <1>8 DEF Scan, UserEdits
    <2> QED
      BY <1>2, <1>4, <2>1, LocalTalk
  <1>9. CASE UNCHANGED vars
    <2>1. UNCHANGED <<stage, streamVars, fileVars, error>> /\ clock' = clock
      BY <1>9 DEF vars
    <2> QED
      BY <1>2, <1>4, <2>1, LocalTalk
  <1> QED
    BY <1>5, <1>6, <1>7, <1>8, <1>9 DEF Next

\* Two devices that run this code never reject each other: for any sizes,
\* window and limits, and whatever is edited, scanned, applied or broken in
\* between, read_expected meets the frame it waits for, receive_files an answer
\* to its next request, RequestBundle::decode an ordered list within
\* MAX_TRANSFERS, and add_received stays within MAX_CONNECTION_BYTES.
THEOREM NeverRejected == Spec => []HonestNeverRejected
  <1>1. TalkInv => HonestNeverRejected
    BY DEF TalkInv
  <1> QED
    BY <1>1, InitTalk, NextTalk, PTL DEF Spec

\* A side that reports success knows that the peer has nothing left to ask or
\* to serve and has sent the end of its stream: the peer is at the end, or
\* fails for the loss of the connection alone (the Done exchange, send.finish
\* and the trailing read of run_session_with_outcome).
THEOREM MutualSuccess == Spec => []SuccessIsMutual
  <1>1. TalkInv => SuccessIsMutual
    <2> SUFFICES ASSUME TalkInv, NEW s \in Sides, stage[s] = "ok"
                 PROVE  /\ want[Peer(s)] = <<>> /\ serve[Peer(s)] = <<>>
                        /\ stage[Peer(s)] \in {"Fin", "ok"} \/ error[Peer(s)] = "Transport"
      BY DEF SuccessIsMutual
    <2>1. Peer(s) \in Sides /\ Peer(Peer(s)) = s
      BY Pair
    <2>2. Finished(Peer(s)) /\ Quiet(Peer(s))
      BY <2>1 DEF TalkInv
    <2>3. \/ stage[Peer(s)] \in {"Fin", "ok"}
          \/ stage[Peer(s)] = "failed" /\ error[Peer(s)] = "Transport"
      BY <2>1, <2>2 DEF Finished, EndSeen
    <2> QED
      BY <2>2, <2>3 DEF Quiet
  <1> QED
    BY <1>1, InitTalk, NextTalk, PTL DEF Spec
=============================================================================
