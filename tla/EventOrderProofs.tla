--------------------------- MODULE EventOrderProofs ---------------------------
(***************************************************************************)
(* What appending to and taking from a queue does to the events in it and  *)
(* to their order, for any queue of any length.                            *)
(***************************************************************************)
EXTENDS EventOrder, SequenceTheorems, TLAPS

\* An empty queue holds nothing, and one that is not has a head.
LEMMA EmptyQueue ==
    /\ ToSet(<<>>) = {}
    /\ Ascending(<<>>)
    /\ \A S : \A s \in Seq(S) : s # <<>> <=> ToSet(s) # {}
BY DEF ToSet, Ascending

\* Sending adds one event at the end.
LEMMA AppendedQueue ==
    ASSUME NEW S, NEW s \in Seq(S), NEW x \in S
    PROVE  /\ Append(s, x) \in Seq(S)
           /\ Len(Append(s, x)) = Len(s) + 1
           /\ Append(s, x) # <<>>
           /\ ToSet(Append(s, x)) = ToSet(s) \cup {x}
           /\ \A i \in DOMAIN s : Append(s, x)[i] = s[i]
           /\ Append(s, x)[Len(s) + 1] = x
           /\ DOMAIN Append(s, x) = 1..(Len(s) + 1)
           /\ DOMAIN s = 1..Len(s)
<1> DEFINE t == Append(s, x)
<1>1. /\ t \in Seq(S) /\ Len(t) = Len(s) + 1 /\ t # <<>>
      /\ \A i \in 1..Len(s) : t[i] = s[i]
      /\ t[Len(s) + 1] = x
    BY AppendProperties
<1>2. DOMAIN t = 1..(Len(s) + 1) /\ DOMAIN s = 1..Len(s) /\ Len(s) \in Nat
    BY <1>1, LenProperties
<1>3. ToSet(t) = ToSet(s) \cup {x}
    <2> HIDE DEF t
    <2> QED
        BY <1>1, <1>2 DEF ToSet
<1> QED
    BY <1>1, <1>2, <1>3

\* Receiving takes the first event; the others move up.
LEMMA TakenQueue ==
    ASSUME NEW S, NEW s \in Seq(S), s # <<>>
    PROVE  /\ Head(s) \in S
           /\ Head(s) = s[1]
           /\ Tail(s) \in Seq(S)
           /\ Len(Tail(s)) = Len(s) - 1
           /\ ToSet(s) = {Head(s)} \cup ToSet(Tail(s))
           /\ Len(s) \in Nat \ {0}
           /\ DOMAIN Tail(s) = 1..(Len(s) - 1)
           /\ DOMAIN s = 1..Len(s)
           /\ \A i \in DOMAIN Tail(s) : i + 1 \in DOMAIN s /\ Tail(s)[i] = s[i + 1]
<1> DEFINE t == Tail(s)
<1>1. /\ Head(s) \in S /\ t \in Seq(S) /\ Len(t) = Len(s) - 1
      /\ \A i \in 1..Len(t) : t[i] = s[i + 1]
      /\ Head(s) = s[1]
    BY HeadTailProperties
<1>2. DOMAIN t = 1..Len(t) /\ DOMAIN s = 1..Len(s) /\ Len(s) \in Nat \ {0}
    BY <1>1, LenProperties, EmptySeq
<1>3. ToSet(s) = {Head(s)} \cup ToSet(t)
    <2> HIDE DEF t
    <2>1. ASSUME NEW i \in DOMAIN s, i # 1
          PROVE  s[i] \in ToSet(t)
        <3>1. i - 1 \in DOMAIN t /\ t[i - 1] = s[i]
            BY <1>1, <1>2, <2>1
        <3> QED
            BY <3>1 DEF ToSet
    <2>2. ASSUME NEW i \in DOMAIN t
          PROVE  t[i] \in ToSet(s)
        <3>1. i + 1 \in DOMAIN s /\ t[i] = s[i + 1]
            BY <1>1, <1>2
        <3> QED
            BY <3>1 DEF ToSet
    <2>3. 1 \in DOMAIN s
        BY <1>2
    <2> QED
        BY <1>1, <2>1, <2>2, <2>3 DEF ToSet
<1> QED
    BY <1>1, <1>2, <1>3

\* What is in a queue of elements of S is in S.
LEMMA QueueElements ==
    ASSUME NEW S, NEW s \in Seq(S)
    PROVE  /\ ToSet(s) \subseteq S
           /\ \A i \in DOMAIN s : s[i] \in ToSet(s)
           /\ \A x \in ToSet(s) : \E i \in DOMAIN s : s[i] = x
<1>1. \A i \in DOMAIN s : s[i] \in S
    BY LenProperties
<1> QED
    BY <1>1 DEF ToSet

\* A queue stays in order when a later event is sent.
LEMMA AppendKeepsOrder ==
    ASSUME NEW s \in Seq(Int), NEW x \in Int,
           Ascending(s), \A y \in ToSet(s) : y < x
    PROVE  Ascending(Append(s, x))
<1> DEFINE t == Append(s, x)
<1>1. /\ DOMAIN t = 1..(Len(s) + 1) /\ DOMAIN s = 1..Len(s)
      /\ \A i \in DOMAIN s : t[i] = s[i]
      /\ t[Len(s) + 1] = x
    BY AppendedQueue
<1>2. Len(s) \in Nat
    OBVIOUS
<1>3. SUFFICES ASSUME NEW i \in DOMAIN t, NEW j \in DOMAIN t, i < j
               PROVE  t[i] < t[j]
    BY DEF Ascending
<1> HIDE DEF t
<1>4. i \in DOMAIN s
    BY <1>1, <1>2, <1>3
<1>5. CASE j \in DOMAIN s
    BY <1>1, <1>3, <1>4, <1>5 DEF Ascending
<1>6. CASE j = Len(s) + 1
    BY <1>1, <1>4, <1>6 DEF ToSet
<1> QED
    BY <1>1, <1>2, <1>5, <1>6

\* A queue stays in order when its head is received, which precedes the rest.
LEMMA TakeKeepsOrder ==
    ASSUME NEW s \in Seq(Int), s # <<>>, Ascending(s)
    PROVE  /\ Ascending(Tail(s))
           /\ \A y \in ToSet(Tail(s)) : Head(s) < y
           /\ Head(s) \notin ToSet(Tail(s))
<1> DEFINE t == Tail(s)
<1>1. /\ DOMAIN t = 1..(Len(s) - 1) /\ DOMAIN s = 1..Len(s)
      /\ Len(s) \in Nat \ {0} /\ Head(s) = s[1] /\ Head(s) \in Int
      /\ \A i \in DOMAIN t : i + 1 \in DOMAIN s /\ t[i] = s[i + 1]
    BY TakenQueue
<1> HIDE DEF t
<1>2. Ascending(t)
    BY <1>1 DEF Ascending
<1>3. ASSUME NEW i \in DOMAIN t
      PROVE  Head(s) < t[i]
    <2>1. 1 \in DOMAIN s /\ i + 1 \in DOMAIN s /\ 1 < i + 1
        BY <1>1
    <2> QED
        BY <1>1, <2>1 DEF Ascending
<1>4. \A y \in ToSet(t) : Head(s) < y
    BY <1>3 DEF ToSet
<1> QED
    BY <1>1, <1>2, <1>4 DEF t
=============================================================================
