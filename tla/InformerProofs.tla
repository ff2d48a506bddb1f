--------------------------- MODULE InformerProofs ----------------------------
(***************************************************************************)
(* What writes, watches and restarts do to a view (module Informer), for   *)
(* views of every length and objects of every kind: the facts that the     *)
(* proofs about the RemoteSync and AppPipeline controllers rest on.        *)
(***************************************************************************)
EXTENDS Informer, SequenceTheorems, TLAPS

\* What the view new of an object is to the view old when something may have
\* been written.
Grows(old, new) ==
  /\ Cached(new) = Cached(old)
  /\ UpToDate(new) => new = old

\* The ends of a view.
LEMMA Ends ==
  ASSUME NEW S, NEW view, Versions(view, S)
  PROVE  /\ Cached(view) \in S /\ Live(view) \in S
         /\ UpToDate(view) => Cached(view) = Live(view)
         /\ Len(view) \in Nat /\ Len(view) >= 1
<1>1. view \in Seq(S) /\ Len(view) >= 1 /\ Len(view) \in Nat
  BY LenProperties DEF Versions
<1>2. 1 \in 1..Len(view) /\ Len(view) \in 1..Len(view)
  BY <1>1
<1>3. view[1] \in S /\ view[Len(view)] \in S
  BY <1>1, <1>2, ElementOfSeq
<1> QED
  BY <1>1, <1>3 DEF Cached, Live, UpToDate

\* A new version.
LEMMA Appended ==
  ASSUME NEW S, NEW view, Versions(view, S), NEW object \in S
  PROVE  LET longer == Append(view, object) IN
         /\ Versions(longer, S)
         /\ Live(longer) = object
         /\ Grows(view, longer)
         /\ ~UpToDate(longer)
<1> DEFINE longer == Append(view, object)
<1>1. view \in Seq(S) /\ Len(view) \in Nat /\ Len(view) >= 1
  BY LenProperties DEF Versions
<1>2. /\ longer \in Seq(S) /\ Len(longer) = Len(view) + 1
      /\ \A i \in 1..Len(view) : longer[i] = view[i]
      /\ longer[Len(view) + 1] = object
  BY <1>1, AppendProperties
<1>3. longer[1] = view[1]
  BY <1>1, <1>2
<1> HIDE DEF longer
<1>4. Versions(longer, S) /\ Live(longer) = object /\ ~UpToDate(longer)
  BY <1>1, <1>2 DEF Versions, Live, UpToDate
<1>5. Grows(view, longer)
  BY <1>3, <1>4 DEF Grows, Cached
<1> QED
  BY <1>4, <1>5 DEF longer

\* A write that may change nothing.
LEMMA Written ==
  ASSUME NEW S, NEW view, Versions(view, S), NEW object \in S
  PROVE  LET next == Write(view, object) IN
         /\ Versions(next, S)
         /\ Live(next) = object
         /\ Grows(view, next)
         /\ UpToDate(next) => next = view /\ Live(view) = object
<1>1. CASE object = Live(view)
  <2>1. Write(view, object) = view
    BY <1>1 DEF Write
  <2> QED
    BY <1>1, <2>1 DEF Grows
<1>2. CASE object # Live(view)
  <2>1. Write(view, object) = Append(view, object)
    BY <1>2 DEF Write
  <2> QED
    BY <2>1, Appended
<1> QED
  BY <1>1, <1>2

\* The watch takes the oldest version away.
LEMMA Delivered ==
  ASSUME NEW S, NEW view, Versions(view, S), ~UpToDate(view)
  PROVE  Versions(Tail(view), S) /\ Live(Tail(view)) = Live(view)
<1>1. view \in Seq(S) /\ Len(view) \in Nat /\ Len(view) > 1 /\ view # << >>
  <2>1. view \in Seq(S) /\ Len(view) >= 1 /\ Len(view) # 1
    BY DEF Versions, UpToDate
  <2>2. Len(view) \in Nat
    BY <2>1, LenProperties
  <2>3. view # << >>
    BY <2>1, EmptySeq
  <2>4. \A n \in Nat : n >= 1 /\ n # 1 => n > 1
    OBVIOUS
  <2> QED
    BY <2>1, <2>2, <2>3, <2>4, Zenon
<1>2. /\ Tail(view) \in Seq(S) /\ Len(Tail(view)) = Len(view) - 1
      /\ \A i \in 1..Len(Tail(view)) : Tail(view)[i] = view[i + 1]
  BY <1>1, HeadTailProperties
<1>3. Tail(view)[Len(view) - 1] = view[Len(view)]
  BY <1>1, <1>2
<1> QED
  BY <1>1, <1>2, <1>3 DEF Versions, Live

\* A fresh cache.
LEMMA Refilled ==
  ASSUME NEW S, NEW object \in S
  PROVE  Versions(<<object>>, S) /\ Live(<<object>>) = object
<1>1. <<object>> \in Seq(S) /\ Len(<<object>>) = 1 /\ <<object>>[1] = object
  OBVIOUS
<1> QED
  BY <1>1 DEF Versions, Live

\* A view that is left alone.
LEMMA Stays ==
  ASSUME NEW view
  PROVE  Grows(view, view)
  BY DEF Grows
\* Writes, whatever is written.
LEMMA WriteGrows ==
  ASSUME NEW S, NEW view, Versions(view, S), NEW object
  PROVE  /\ Grows(view, Write(view, object))
         /\ Live(Write(view, object)) = object
         /\ UpToDate(Write(view, object)) => Live(view) = object
<1> DEFINE T == S \union {object}
<1>1. Versions(view, T)
  <2>1. view \in Seq(S) /\ Len(view) >= 1
    BY DEF Versions
  <2>2. view \in Seq(T)
    <3>1. /\ view \in [1..Len(view) -> S] /\ Len(view) \in Nat
      BY <2>1, LenProperties
    <3>2. view \in [1..Len(view) -> T]
      BY <3>1
    <3> QED
      BY <3>1, <3>2, SeqDef
  <2> QED
    BY <2>1, <2>2 DEF Versions
<1>2. object \in T
  OBVIOUS
<1> HIDE DEF T
<1> QED
  BY <1>1, <1>2, Written

-----------------------------------------------------------------------------
(* All versions of a view                                                  *)

\* The ends are among them.
LEMMA HeldEnds ==
  ASSUME NEW S, NEW view, Versions(view, S)
  PROVE  Cached(view) \in Held(view) /\ Live(view) \in Held(view) /\ Held(view) \subseteq S
<1>1. view \in Seq(S) /\ Len(view) \in Nat /\ Len(view) >= 1
  BY LenProperties DEF Versions
<1>2. 1 \in 1..Len(view) /\ Len(view) \in 1..Len(view)
  BY <1>1
<1>3. \A i \in 1..Len(view) : view[i] \in S
  BY <1>1, ElementOfSeq
<1> QED
  BY <1>2, <1>3 DEF Cached, Live, Held

\* A new version joins those that are there.
LEMMA HeldAppended ==
  ASSUME NEW S, NEW view, Versions(view, S), NEW object
  PROVE  Held(Append(view, object)) = Held(view) \union {object}
<1> DEFINE longer == Append(view, object)
<1>1. Len(view) \in Nat /\ view \in Seq(S \union {object})
  <2>1. view \in [1..Len(view) -> S] /\ Len(view) \in Nat
    BY LenProperties DEF Versions
  <2>2. view \in [1..Len(view) -> S \union {object}]
    BY <2>1
  <2> QED
    BY <2>1, <2>2, SeqDef
<1>2. /\ Len(longer) = Len(view) + 1
      /\ \A i \in 1..Len(view) : longer[i] = view[i]
      /\ longer[Len(view) + 1] = object
  BY <1>1, AppendProperties
<1> HIDE DEF longer
<1>3. 1..Len(longer) = (1..Len(view)) \union {Len(view) + 1}
  BY <1>1, <1>2
<1>4. Held(longer) = Held(view) \union {object}
  BY <1>2, <1>3 DEF Held
<1> QED
  BY <1>4 DEF longer

\* So does a write.
LEMMA HeldWritten ==
  ASSUME NEW S, NEW view, Versions(view, S), NEW object
  PROVE  Held(Write(view, object)) = Held(view) \union {object}
<1>1. CASE object = Live(view)
  BY <1>1, HeldEnds DEF Write
<1>2. CASE object # Live(view)
  BY <1>2, HeldAppended DEF Write
<1> QED
  BY <1>1, <1>2

\* A delivery only takes versions away.
LEMMA HeldDelivered ==
  ASSUME NEW S, NEW view, Versions(view, S), ~UpToDate(view)
  PROVE  Held(Tail(view)) \subseteq Held(view)
<1>1. view \in Seq(S) /\ Len(view) \in Nat /\ Len(view) # 1 /\ Len(view) >= 1
  BY LenProperties DEF Versions, UpToDate
<1>2. view # << >>
  BY <1>1, EmptySeq
<1>3. /\ Len(Tail(view)) = Len(view) - 1
      /\ \A i \in 1..Len(Tail(view)) : Tail(view)[i] = view[i + 1]
  BY <1>1, <1>2, HeadTailProperties
<1>4. \A i \in 1..Len(Tail(view)) : i + 1 \in 1..Len(view)
  BY <1>1, <1>3
<1> QED
  BY <1>3, <1>4 DEF Held

\* A fresh cache has the live version only.
LEMMA HeldRefilled == ASSUME NEW object PROVE Held(<<object>>) = {object}
<1>1. Len(<<object>>) = 1 /\ <<object>>[1] = object
  OBVIOUS
<1>2. 1..1 = {1}
  OBVIOUS
<1> QED
  BY <1>1, <1>2 DEF Held
=============================================================================
