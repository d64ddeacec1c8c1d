---------------------------- MODULE Tools_proofs ----------------------------
(***************************************************************************)
(* Proofs about the tools: ToolCalls' wrapper round every tool, whose      *)
(* layers gate its operation in order and whose keepalive task never       *)
(* outlives the wait for approval; and OrderTools, whose previews are      *)
(* vetted and drop nothing, whose composite orders exit once, and whose    *)
(* listing is sound.  Each module has its own specification.               *)
(***************************************************************************)
EXTENDS ToolCalls, OrderTools, Sums, SequenceTheorems, TLAPS

-----------------------------------------------------------------------------
(* ToolCalls: the inductive invariant *)

\* The layers a call of each kind may still have before it.
Rest(t) ==
  CASE t = "reads" -> {<<"paths">>, <<>>}
    [] t = "writes" -> {<<"paths", "approval">>, <<"approval">>, <<>>}
    [] t = "asks" -> {<<"paths", "identifiers", "approval">>, <<"identifiers", "approval">>,
                      <<"approval">>, <<>>}

WrapperTypeOK ==
  /\ tool \in {"reads", "writes", "asks"}
  /\ ids \in {"safe", "unsafe", "absent"}
  /\ progress \in BOOLEAN
  /\ cancelled \in BOOLEAN
  /\ pc \in {"layers", "requiring", "reaping", "reporting", "ended"}
  /\ layers \in Rest(tool)
  /\ decision \in {"none", "raised"} \cup Decisions
  /\ keepalive \in {"none", "asleep", "sending", "over"}
  /\ asked \in BOOLEAN
  /\ ran \in BOOLEAN

\* Whoever is past the outermost layer has no unsafe identifier.
Checked == layers = Layers(tool) \/ ids # "unsafe"

\* The approval is the innermost layer: while it is asked for, and after, none
\* is left, and a call that writes passes it only approved.
Innermost ==
  /\ pc \in {"requiring", "reaping", "reporting"} => layers = <<>>
  /\ asked => layers = <<>>
  /\ pc = "layers" /\ layers = <<>> /\ tool # "reads" => decision = "approved"
  /\ ran => pc = "ended" /\ layers = <<>> /\ (tool # "reads" => decision = "approved")

LayersInv == WrapperTypeOK /\ Checked /\ Innermost

-----------------------------------------------------------------------------
(* Layers *)

LEMMA LayersOf ==
  /\ Layers("reads") = <<"paths">>
  /\ Layers("writes") = <<"paths", "approval">>
  /\ Layers("asks") = <<"paths", "identifiers", "approval">>
BY DEF Layers

LEMMA RestOf ==
  /\ Rest("reads") = {<<"paths">>, <<>>}
  /\ Rest("writes") = {<<"paths", "approval">>, <<"approval">>, <<>>}
  /\ Rest("asks") = {<<"paths", "identifiers", "approval">>, <<"identifiers", "approval">>,
                     <<"approval">>, <<>>}
BY DEF Rest

LEMMA Whole ==
  ASSUME NEW t \in {"reads", "writes", "asks"}
  PROVE  Layers(t) \in Rest(t) /\ Layers(t) # <<>> /\ <<>> \in Rest(t)
<1>1. CASE t = "reads"
  BY <1>1, LayersOf, RestOf
<1>2. CASE t = "writes"
  BY <1>2, LayersOf, RestOf
<1>3. CASE t = "asks"
  BY <1>3, LayersOf, RestOf
<1> QED
  BY <1>1, <1>2, <1>3

\* A layer that is passed leaves fewer, the approval leaves none, and the layers
\* before it do not.
LEMMA Passing ==
  ASSUME NEW t \in {"reads", "writes", "asks"}, NEW l \in Rest(t), l # <<>>
  PROVE  /\ Tail(l) \in Rest(t)
         /\ Tail(l) # Layers(t)
         /\ Head(l) = "approval" => Tail(l) = <<>>
         /\ Head(l) # "approval" /\ t # "reads" => Tail(l) # <<>>
<1>1. CASE l = <<"paths">>
  <2>1. Tail(l) = <<>> /\ Head(l) = "paths"
    BY <1>1
  <2>2. t = "reads"
    BY <1>1, RestOf
  <2> QED
    BY <2>1, <2>2, LayersOf, RestOf
<1>2. CASE l = <<"approval">>
  <2>1. Tail(l) = <<>> /\ Head(l) = "approval"
    BY <1>2
  <2> QED
    BY <1>2, <2>1, Whole
<1>3. CASE l = <<"paths", "approval">>
  <2>1. Tail(l) = <<"approval">> /\ Head(l) = "paths"
    BY <1>3
  <2>2. t = "writes"
    BY <1>3, RestOf
  <2>3. <<"approval">> \in Rest(t)
    BY <2>2, RestOf
  <2>4. <<"approval">> # <<"paths", "approval">> /\ <<"approval">> # <<>>
    OBVIOUS
  <2>5. Layers(t) = <<"paths", "approval">>
    BY <2>2, LayersOf
  <2> QED
    BY <2>1, <2>3, <2>4, <2>5
<1>4. CASE l = <<"identifiers", "approval">>
  <2>1. Tail(l) = <<"approval">> /\ Head(l) = "identifiers"
    BY <1>4
  <2>2. t = "asks"
    BY <1>4, RestOf
  <2>3. <<"approval">> \in Rest(t)
    BY <2>2, RestOf
  <2>4. <<"approval">> # <<"paths", "identifiers", "approval">> /\ <<"approval">> # <<>>
    OBVIOUS
  <2>5. Layers(t) = <<"paths", "identifiers", "approval">>
    BY <2>2, LayersOf
  <2> QED
    BY <2>1, <2>3, <2>4, <2>5
<1>5. CASE l = <<"paths", "identifiers", "approval">>
  <2>1. Tail(l) = <<"identifiers", "approval">> /\ Head(l) = "paths"
    BY <1>5
  <2>2. t = "asks"
    BY <1>5, RestOf
  <2>3. <<"identifiers", "approval">> \in Rest(t)
    BY <2>2, RestOf
  <2>4. /\ <<"identifiers", "approval">> # <<"paths", "identifiers", "approval">>
        /\ <<"identifiers", "approval">> # <<>>
    OBVIOUS
  <2>5. Layers(t) = <<"paths", "identifiers", "approval">>
    BY <2>2, LayersOf
  <2> QED
    BY <2>1, <2>3, <2>4, <2>5
<1> QED
  BY <1>1, <1>2, <1>3, <1>4, <1>5, RestOf

-----------------------------------------------------------------------------
(* The gate *)

LEMMA LayersStep == LayersInv /\ [WrapperNext]_wrapperVars => LayersInv'
<1> SUFFICES ASSUME LayersInv, [WrapperNext]_wrapperVars PROVE LayersInv'
  OBVIOUS
<1> USE DEF LayersInv, WrapperTypeOK, Checked, Innermost, request, Decisions
<1>1. CASE CheckIds
  <2>1. CASE pc' = "ended" /\ UNCHANGED layers
    BY <1>1, <2>1 DEF CheckIds
  <2>2. CASE layers' = Tail(layers) /\ UNCHANGED pc /\ ids # "unsafe"
    <3>1. Tail(layers) \in Rest(tool) /\ Head(layers) # "approval"
          /\ (tool # "reads" => Tail(layers) # <<>>)
      BY <1>1, Passing DEF CheckIds
    <3> QED
      BY <1>1, <2>2, <3>1 DEF CheckIds
  <2> QED
    BY <1>1, <2>1, <2>2 DEF CheckIds
<1>2. CASE Ask
  <2>1. /\ Tail(layers) \in Rest(tool) /\ Tail(layers) # Layers(tool) /\ Tail(layers) = <<>>
        /\ layers' = Tail(layers)
    BY <1>2, Passing DEF Ask
  <2>2. pc' \in {"requiring", "ended"} /\ keepalive' \in {"none", "asleep", keepalive}
        /\ asked' \in BOOLEAN
    BY <1>2 DEF Ask
  <2>3. ids # "unsafe"
    <3>1. Head(Layers(tool)) = "paths"
      BY LayersOf
    <3>2. Head(layers) = "approval"
      BY <1>2 DEF Ask
    <3> QED
      BY <3>1, <3>2
  <2> QED
    BY <1>2, <2>1, <2>2, <2>3 DEF Ask
<1>3. CASE Cancel
  BY <1>3 DEF Cancel
<1>4. CASE KeepaliveWakes \/ KeepaliveSends \/ KeepaliveStops
  BY <1>4 DEF KeepaliveWakes, KeepaliveSends, KeepaliveStops
<1>5. CASE Require
  BY <1>5 DEF Require
<1>6. CASE Reap
  BY <1>6 DEF Reap
<1>7. CASE Report
  BY <1>7 DEF Report
<1>8. CASE Run
  BY <1>8 DEF Run
<1>9. CASE UNCHANGED wrapperVars
  BY <1>9 DEF wrapperVars
<1> QED
  BY <1>1, <1>2, <1>3, <1>4, <1>5, <1>6, <1>7, <1>8, <1>9 DEF WrapperNext

LEMMA LayersInit == WrapperInit => LayersInv
BY Whole DEF WrapperInit, LayersInv, WrapperTypeOK, Checked, Innermost, Decisions

\* Nobody is asked about identifiers that cannot be sent, and no write is
\* carried out that was not approved, whatever layer asks and whenever the
\* request is cancelled.
THEOREM GatesInOrder == WrapperSpec => []GateInOrder
<1>1. LayersInv => GateInOrder
  BY Whole DEF LayersInv, WrapperTypeOK, Checked, Innermost, GateInOrder
<1> QED
  BY <1>1, LayersInit, LayersStep, PTL DEF WrapperSpec

-----------------------------------------------------------------------------
(* The keepalive task *)

\* The wait ends only when the task has ended.
LEMMA KeepaliveStep ==
  KeepaliveWithinWait /\ [WrapperNext]_wrapperVars => KeepaliveWithinWait'
BY DEF KeepaliveWithinWait, WrapperNext, wrapperVars, Cancel, CheckIds,
       Ask, KeepaliveWakes, KeepaliveSends, Require,
       KeepaliveStops, Reap, Report, Run

\* No "still waiting" reaches the client after the wait, however it ends.
THEOREM KeepaliveEndsWithWait == WrapperSpec => []KeepaliveWithinWait
<1>1. WrapperInit => KeepaliveWithinWait
  BY DEF WrapperInit, KeepaliveWithinWait
<1> QED
  BY <1>1, KeepaliveStep, PTL DEF WrapperSpec

-----------------------------------------------------------------------------
(* Sequences *)

\* Whatever is in a sequence is its head or in its tail.
LEMMA HeadOrTail ==
  ASSUME NEW T, NEW s \in Seq(T), s # <<>>
  PROVE  /\ Tail(s) \in Seq(T)
         /\ Head(s) \in T
         /\ \A x \in ToSet(s) : x = Head(s) \/ x \in ToSet(Tail(s))
<1>1. ASSUME NEW i \in DOMAIN s, i # 1 PROVE i - 1 \in DOMAIN Tail(s) /\ Tail(s)[i - 1] = s[i]
  <2>1. /\ i \in 1..Len(s) /\ Len(s) \in Nat /\ i - 1 \in 1..Len(s) - 1 /\ i - 1 + 1 = i
    BY <1>1
  <2>2. DOMAIN Tail(s) = 1..Len(s) - 1 /\ \A k \in 1..Len(s) - 1 : Tail(s)[k] = s[k + 1]
    BY <2>1, HeadTailProperties
  <2> QED
    BY <2>1, <2>2
<1>2. Head(s) = s[1]
  OBVIOUS
<1> QED
  BY <1>1, <1>2, HeadTailProperties DEF ToSet


\* A permutation of a finite set has each member once.
LEMMA SeqsOfSet ==
  ASSUME NEW S, IsFiniteSet(S), NEW s \in SetToSeqs(S)
  PROVE  /\ s \in Seq(S)
         /\ \A j, k \in DOMAIN s : s[j] = s[k] => j = k
         /\ \A x \in S : \E k \in DOMAIN s : s[k] = x
<1> DEFINE D == 1..Cardinality(S)
<1>1. s \in [D -> S] /\ \A j, k \in D : j # k => s[j] # s[k]
  BY DEF SetToSeqs
<1>2. Cardinality(S) \in Nat
  BY FS_CardinalityType
<1>3. s \in Injection(D, S)
  BY <1>1 DEF Injection, IsInjective
<1>4. IsFiniteSet(D) /\ Cardinality(D) = Cardinality(S)
  BY <1>2, FS_Interval
<1>5. s \in Surjection(D, S)
  BY <1>3, <1>4, FS_Injection
<1>6. s \in Seq(S)
  BY <1>1, <1>2
<1>7. \A x \in S : \E k \in D : s[k] = x
  BY <1>5 DEF Surjection
<1> QED
  BY <1>1, <1>6, <1>7

\* What two joined sequences hold.
LEMMA JoinedHolds ==
  ASSUME NEW T, NEW s \in Seq(T), NEW t \in Seq(T)
  PROVE  /\ s \o t \in Seq(T)
         /\ ToSet(s) \subseteq ToSet(s \o t)
         /\ ToSet(t) \subseteq ToSet(s \o t)
<1> DEFINE m == s \o t
<1>1. m \in Seq(T) /\ Len(m) = Len(s) + Len(t) /\ Len(s) \in Nat /\ Len(t) \in Nat
      /\ \A i \in 1..Len(s) + Len(t) : m[i] = IF i <= Len(s) THEN s[i] ELSE t[i - Len(s)]
  BY ConcatProperties
<1> HIDE DEF m
<1>2. \A i \in DOMAIN s : i \in DOMAIN m /\ m[i] = s[i]
  BY <1>1
<1>3. ASSUME NEW i \in DOMAIN t PROVE i + Len(s) \in DOMAIN m /\ m[i + Len(s)] = t[i]
  <2>1. i + Len(s) \in 1..Len(s) + Len(t) /\ ~(i + Len(s) <= Len(s)) /\ i + Len(s) - Len(s) = i
    BY <1>1
  <2> QED
    BY <1>1, <2>1
<1> QED
  BY <1>1, <1>2, <1>3 DEF ToSet, m

\* A sequence of one, of three.
LEMMA AsTuples ==
  ASSUME NEW T, NEW m \in Seq(T)
  PROVE  /\ Len(m) = 1 => m = <<m[1]>>
         /\ Len(m) = 3 => m = <<m[1], m[2], m[3]>>
OBVIOUS

\* Sequences written out.
LEMMA TwoJoined == ASSUME NEW a, NEW b PROVE <<a>> \o <<b>> = <<a, b>>
<1> DEFINE m == <<a>> \o <<b>>
           T == {a, b}
<1>1. <<a>> \in Seq(T) /\ <<b>> \in Seq(T) /\ Len(<<a>>) = 1 /\ Len(<<b>>) = 1
  OBVIOUS
<1>2. m \in Seq(T) /\ Len(m) = 2 /\ m[1] = a /\ m[2] = b
  BY <1>1, ConcatProperties
<1> HIDE DEF m, T
<1>3. m = <<m[1], m[2]>>
  BY <1>2
<1> QED
  BY <1>2, <1>3 DEF m

LEMMA ThreeJoined == ASSUME NEW a, NEW b, NEW c PROVE <<a>> \o <<b>> \o <<c>> = <<a, b, c>>
<1> DEFINE m == <<a, b>> \o <<c>>
           T == {a, b, c}
<1>1. <<a, b>> \in Seq(T) /\ <<c>> \in Seq(T) /\ Len(<<a, b>>) = 2 /\ Len(<<c>>) = 1
  OBVIOUS
<1>2. m \in Seq(T) /\ Len(m) = 3 /\ m[1] = a /\ m[2] = b /\ m[3] = c
  BY <1>1, ConcatProperties
<1> HIDE DEF m, T
<1>3. m = <<m[1], m[2], m[3]>>
  BY <1>2
<1> QED
  BY <1>2, <1>3, TwoJoined DEF m

LEMMA FourJoined == ASSUME NEW a, NEW b, NEW c, NEW d PROVE <<a>> \o <<b, c, d>> = <<a, b, c, d>>
<1> DEFINE m == <<a>> \o <<b, c, d>>
           T == {a, b, c, d}
<1>1. <<a>> \in Seq(T) /\ <<b, c, d>> \in Seq(T) /\ Len(<<a>>) = 1 /\ Len(<<b, c, d>>) = 3
  OBVIOUS
<1>2. m \in Seq(T) /\ Len(m) = 4 /\ m[1] = a /\ m[2] = b /\ m[3] = c /\ m[4] = d
  BY <1>1, ConcatProperties
<1> HIDE DEF m, T
<1>3. m = <<m[1], m[2], m[3], m[4]>>
  BY <1>2
<1> QED
  BY <1>2, <1>3 DEF m

-----------------------------------------------------------------------------
(* get_orders: listings *)

\* Pairs of an order and a status.
Entries == (DOMAIN status) \X Statuses

\* No order is listed twice.
Distinct(l) == \A j, k \in DOMAIN l : l[j][1] = l[k][1] => j = k

Holds(l, n) == \E k \in DOMAIN l : l[k][1] = n

Current(l) == \A k \in DOMAIN l : l[k][1] \notin moved => l[k][2] = status[l[k][1]]

\* One query's answer has each matching order once, with its status.
LEMMA AnswerIsCurrent ==
  ASSUME NEW S \in SUBSET DOMAIN status, IsFiniteSet(S), NEW a \in Answers(S),
         status \in [DOMAIN status -> Statuses]
  PROVE  /\ a \in Seq(Entries)
         /\ Distinct(a)
         /\ \A k \in DOMAIN a : a[k][1] \in S /\ a[k][2] = status[a[k][1]]
         /\ \A n \in S : Holds(a, n)
<1>1. PICK s \in SetToSeqs(S) : a = [k \in DOMAIN s |-> <<s[k], status[s[k]]>>]
  BY DEF Answers
<1>2. /\ s \in Seq(S)
      /\ \A j, k \in DOMAIN s : s[j] = s[k] => j = k
      /\ \A x \in S : \E k \in DOMAIN s : s[k] = x
  BY SeqsOfSet
<1>3. DOMAIN a = DOMAIN s /\ \A k \in DOMAIN s : a[k] = <<s[k], status[s[k]]>> /\ s[k] \in S
  BY <1>1, <1>2
<1>4. a \in Seq(Entries)
  <2>1. DOMAIN s = 1..Len(s) /\ Len(s) \in Nat
    BY <1>2
  <2>2. ASSUME NEW k \in 1..Len(s) PROVE a[k] \in Entries
    <3>1. s[k] \in DOMAIN status
      BY <1>3, <2>1
    <3>2. status[s[k]] \in Statuses
      BY <3>1
    <3>3. a[k] = <<s[k], status[s[k]]>>
      BY <1>3, <2>1
    <3> QED
      BY <3>1, <3>2, <3>3 DEF Entries
  <2>3. a = [k \in 1..Len(s) |-> a[k]]
    BY <1>1, <2>1
  <2> QED
    BY <2>1, <2>2, <2>3
<1> QED
  BY <1>2, <1>3, <1>4 DEF Distinct, Holds

\* An answer that repeats nothing listed keeps a listing without duplicates.
LEMMA Extended ==
  ASSUME NEW l \in Seq(Entries), NEW a \in Seq(Entries), Distinct(l), Distinct(a),
         \A k \in DOMAIN a : ~Holds(l, a[k][1])
  PROVE  /\ l \o a \in Seq(Entries)
         /\ Distinct(l \o a)
         /\ Current(l) /\ Current(a) => Current(l \o a)
         /\ \A n : Holds(l \o a, n) <=> Holds(l, n) \/ Holds(a, n)
<1> DEFINE m == l \o a
<1>1. /\ m \in Seq(Entries)
      /\ Len(m) = Len(l) + Len(a)
      /\ \A k \in 1..Len(l) + Len(a) : m[k] = IF k <= Len(l) THEN l[k] ELSE a[k - Len(l)]
  BY ConcatProperties
<1>2. DOMAIN l = 1..Len(l) /\ DOMAIN a = 1..Len(a) /\ DOMAIN m = 1..Len(m)
      /\ Len(l) \in Nat /\ Len(a) \in Nat
  BY <1>1
<1> HIDE DEF m
<1>3. ASSUME NEW k \in DOMAIN m
      PROVE  \/ k \in DOMAIN l /\ m[k] = l[k]
             \/ k - Len(l) \in DOMAIN a /\ m[k] = a[k - Len(l)] /\ k \notin DOMAIN l
  BY <1>1, <1>2
<1>4. \A k \in DOMAIN l : k \in DOMAIN m /\ m[k] = l[k]
  BY <1>1, <1>2
<1>5. ASSUME NEW k \in DOMAIN a PROVE k + Len(l) \in DOMAIN m /\ m[k + Len(l)] = a[k]
  <2>1. k \in 1..Len(a) /\ k + Len(l) \in 1..Len(l) + Len(a) /\ ~(k + Len(l) <= Len(l))
        /\ k + Len(l) - Len(l) = k
    BY <1>2
  <2> QED
    BY <1>1, <1>2, <2>1
<1>6. Distinct(m)
  <2> SUFFICES ASSUME NEW j \in DOMAIN m, NEW k \in DOMAIN m, m[j][1] = m[k][1] PROVE j = k
    BY DEF Distinct
  <2>1. CASE j \in DOMAIN l /\ k \in DOMAIN l
    BY <1>4, <2>1 DEF Distinct
  <2>2. CASE j \notin DOMAIN l /\ k \notin DOMAIN l
    <3>1. j - Len(l) = k - Len(l)
      BY <1>3, <2>2 DEF Distinct
    <3> QED
      BY <1>2, <3>1
  <2>3. CASE j \in DOMAIN l <=> k \notin DOMAIN l
    BY <1>3, <2>3 DEF Holds
  <2> QED
    BY <2>1, <2>2, <2>3
<1>7. Current(l) /\ Current(a) => Current(m)
  BY <1>3 DEF Current
<1>8. ASSUME NEW n PROVE Holds(m, n) <=> Holds(l, n) \/ Holds(a, n)
  BY <1>3, <1>4, <1>5 DEF Holds
<1> QED
  BY <1>1, <1>6, <1>7, <1>8 DEF m

-----------------------------------------------------------------------------
(* get_orders: the inductive invariant *)

\* The orders that kept their status and are asked for have been listed, or
\* their status is still to be queried.
Covered ==
  \A n \in DOMAIN status \ moved :
    status[n] \in ToSet(call.statuses) => Holds(listed, n) \/ status[n] \in ToSet(todo)

ListingInv ==
  /\ call \in Calls
  /\ phase \in {"listing", "listed"} => Lists(call)
  /\ Lists(call) =>
       /\ phase \in {"called", "raised", "listing", "listed"}
       /\ IsFiniteSet(DOMAIN status)
       /\ status \in [DOMAIN status -> Statuses]
       /\ todo \in Seq(STRING)
       /\ listed \in Seq(Entries)
       /\ Distinct(listed)
       /\ Current(listed)
       /\ phase \in {"called", "listing"} /\ call.statuses = <<>> => listed = <<>>
       /\ phase = "called" => listed = <<>>
       /\ phase \in {"listing", "listed"} /\ call.statuses # <<>> => Covered
       /\ phase = "listed" /\ call.statuses # <<>> => todo = <<>>
       /\ phase = "listed" /\ call.statuses = <<>> => \A n \in DOMAIN status : Holds(listed, n)
       /\ phase = "listing" /\ call.statuses = <<>> => todo = <<>>

LEMMA ListingInit == Init => ListingInv
<1> SUFFICES ASSUME Init PROVE ListingInv
  OBVIOUS
<1>1. CASE Lists(call)
  <2>1. status \in Books
    BY <1>1 DEF Init
  <2>2. IsFiniteSet(DOMAIN status) /\ status \in [DOMAIN status -> Statuses]
    BY <2>1, OrderToolsAssumption
  <2> QED
    BY <1>1, <2>2 DEF Init, ListingInv, Distinct, Current
<1>2. CASE ~Lists(call)
  BY <1>2 DEF Init, ListingInv
<1> QED
  BY <1>1, <1>2

LEMMA ListingImplies == ListingInv => ListingSound
<1> SUFFICES ASSUME ListingInv, phase = "listed" PROVE ListingSound
  BY DEF ListingSound
<1>1. /\ Lists(call) /\ listed \in Seq(Entries) /\ Distinct(listed) /\ Current(listed)
      /\ call.statuses # <<>> => Covered /\ todo = <<>>
      /\ call.statuses = <<>> => \A n \in DOMAIN status : Holds(listed, n)
  BY DEF ListingInv
<1>2. ASSUME NEW n \in DOMAIN status \ moved,
             call.statuses = <<>> \/ status[n] \in ToSet(call.statuses)
      PROVE  \E k \in DOMAIN listed : listed[k] = <<n, status[n]>>
  <2>1. Holds(listed, n)
    BY <1>1, <1>2 DEF Covered, ToSet
  <2>2. PICK k \in DOMAIN listed : listed[k][1] = n
    BY <2>1 DEF Holds
  <2>3. listed[k] \in Entries
    BY <1>1
  <2>4. listed[k][2] = status[n]
    BY <1>1, <2>2 DEF Current
  <2> QED
    BY <2>2, <2>3, <2>4 DEF Entries
<1> QED
  BY <1>1, <1>2 DEF ListingSound, Distinct

\* A call that previews lists nothing.
LEMMA ListingPreviews ==
  ASSUME ListingInv, UNCHANGED call, phase' \notin {"listing", "listed"},
         ~Lists(call) \/ phase \notin {"called", "listing", "listed", "raised"}
  PROVE  ListingInv'
BY DEF ListingInv, Lists

LEMMA ListingMove ==
  ASSUME ListingInv, NEW n \in DOMAIN status, Move(n)
  PROVE  ListingInv'
<1>1. phase = "listing" /\ UNCHANGED <<call, phase, todo, listed>> /\ moved' = moved \cup {n}
  BY DEF Move
<1>2. PICK s \in Statuses : status' = [status EXCEPT ![n] = s]
  BY DEF Move
<1>3. Lists(call) /\ Lists(call)'
  BY <1>1 DEF ListingInv, Lists
<1>4. /\ DOMAIN status' = DOMAIN status
      /\ \A k \in DOMAIN status \ moved' : status'[k] = status[k] /\ k \notin moved
      /\ status' \in [DOMAIN status -> Statuses]
  BY <1>1, <1>2, <1>3 DEF ListingInv
<1>5. Entries' = Entries
  BY <1>4 DEF Entries
<1>6. Current(listed)'
  <2>1. ASSUME NEW k \in DOMAIN listed, listed[k][1] \notin moved'
        PROVE  listed[k][2] = status'[listed[k][1]]
    <3>1. listed[k][1] \in DOMAIN status
      BY <1>3, <2>1 DEF ListingInv, Entries
    <3> QED
      BY <1>1, <1>3, <1>4, <2>1, <3>1 DEF ListingInv, Current
  <2> QED
    BY <1>1, <2>1 DEF Current
<1>7. call.statuses # <<>> => Covered'
  BY <1>1, <1>3, <1>4 DEF ListingInv, Covered, Holds, ToSet
<1>8. Distinct(listed)'
  BY <1>1, <1>3 DEF ListingInv, Distinct
<1> QED
  BY <1>1, <1>3, <1>4, <1>5, <1>6, <1>7, <1>8 DEF ListingInv

LEMMA ListingGetOrders == ListingInv /\ GetOrders => ListingInv'
<1> SUFFICES ASSUME ListingInv, GetOrders PROVE ListingInv'
  OBVIOUS
<1>1. /\ phase = "called" /\ Lists(call) /\ UNCHANGED <<call, status, moved, listed>>
      /\ \/ phase' = "listing" /\ todo' = call.statuses
         \/ phase' = "raised" /\ UNCHANGED todo
  BY DEF GetOrders
<1>2. call.statuses \in Seq(STRING) /\ Lists(call)' /\ Entries' = Entries
  BY <1>1, OrderToolsAssumption DEF ListingInv, CallArguments, Lists, Entries
<1>3. Distinct(listed)' /\ Current(listed)'
  BY <1>1 DEF ListingInv, Distinct, Current
<1>4. phase' = "listing" => Covered'
  BY <1>1 DEF Covered, ToSet
<1> QED
  BY <1>1, <1>2, <1>3, <1>4 DEF ListingInv

\* What a query adds to a listing.
LEMMA Adds ==
  ASSUME Lists(call), ListingInv, NEW S \in SUBSET DOMAIN status, NEW a \in Answers(S),
         \A n \in S : ~Holds(listed, n)
  PROVE  /\ listed \o a \in Seq(Entries)
         /\ Distinct(listed \o a)
         /\ Current(listed \o a)
         /\ \A n : Holds(listed, n) \/ n \in S => Holds(listed \o a, n)
<1>1. IsFiniteSet(S) /\ status \in [DOMAIN status -> Statuses]
  BY FS_Subset DEF ListingInv
<1>2. /\ a \in Seq(Entries)
      /\ Distinct(a)
      /\ \A k \in DOMAIN a : a[k][1] \in S /\ a[k][2] = status[a[k][1]]
      /\ \A n \in S : Holds(a, n)
  BY <1>1, AnswerIsCurrent
<1>3. listed \in Seq(Entries) /\ Distinct(listed) /\ Current(listed) /\ Current(a)
  BY <1>2 DEF ListingInv, Current
<1>4. \A k \in DOMAIN a : ~Holds(listed, a[k][1])
  BY <1>2
<1> QED
  BY <1>2, <1>3, <1>4, Extended

LEMMA ListingQueryStatus == ListingInv /\ QueryStatus => ListingInv'
<1> SUFFICES ASSUME ListingInv, QueryStatus PROVE ListingInv'
  OBVIOUS
<1>1. /\ phase = "listing" /\ todo # <<>> /\ Lists(call) /\ UNCHANGED <<call, status, moved>>
      /\ Lists(call)' /\ Entries' = Entries
  BY DEF QueryStatus, ListingInv, Lists, Entries
<1>2. call.statuses # <<>>
  BY <1>1 DEF ListingInv
<1>3. CASE phase' = "raised" /\ UNCHANGED <<todo, listed>>
  <2>1. Distinct(listed)' /\ Current(listed)'
    BY <1>1, <1>3 DEF ListingInv, Distinct, Current
  <2> QED
    BY <1>1, <1>3, <2>1 DEF ListingInv
<1>4. CASE /\ listed' \in Merged({n \in DOMAIN status : status[n] = Head(todo)})
           /\ todo' = Tail(todo)
           /\ phase' = IF todo' = <<>> THEN "listed" ELSE "listing"
  <2> DEFINE S == {n \in DOMAIN status : status[n] = Head(todo)}
                  \ {listed[k][1] : k \in DOMAIN listed}
  <2>1. PICK a \in Answers(S) : listed' = listed \o a
    BY <1>4 DEF Merged
  <2>2. S \in SUBSET DOMAIN status /\ \A n \in S : ~Holds(listed, n)
    BY DEF Holds
  <2>3. \A n \in DOMAIN status : status[n] = Head(todo) => Holds(listed, n) \/ n \in S
    BY DEF Holds
  <2> HIDE DEF S
  <2>4. /\ listed' \in Seq(Entries)
        /\ Distinct(listed')
        /\ Current(listed')
        /\ \A n : Holds(listed, n) \/ n \in S => Holds(listed', n)
    BY <1>1, <2>1, <2>2, Adds
  <2>5. /\ todo' \in Seq(STRING)
        /\ \A x \in ToSet(todo) : x = Head(todo) \/ x \in ToSet(todo')
    BY <1>1, <1>4, HeadOrTail DEF ListingInv
  <2>6. Covered'
    <3> SUFFICES ASSUME NEW n \in DOMAIN status \ moved, status[n] \in ToSet(call.statuses),
                        status[n] \notin ToSet(todo')
                 PROVE  Holds(listed', n)
      BY <1>1 DEF Covered
    <3>1. Holds(listed, n) \/ status[n] \in ToSet(todo)
      BY <1>1, <1>2 DEF ListingInv, Covered
    <3> QED
      BY <2>3, <2>4, <2>5, <3>1
  <2>7. Current(listed)' /\ Distinct(listed)'
    BY <1>1, <2>4 DEF Current, Distinct
  <2> QED
    BY <1>1, <1>2, <1>4, <2>4, <2>5, <2>6, <2>7 DEF ListingInv
<1> QED
  BY <1>3, <1>4 DEF QueryStatus

LEMMA ListingQueryAll == ListingInv /\ QueryAll => ListingInv'
<1> SUFFICES ASSUME ListingInv, QueryAll PROVE ListingInv'
  OBVIOUS
<1>1. /\ phase = "listing" /\ call.statuses = <<>> /\ Lists(call)
      /\ UNCHANGED <<call, status, moved, todo>> /\ Lists(call)' /\ Entries' = Entries
  BY DEF QueryAll, ListingInv, Lists, Entries
<1>2. CASE phase' = "raised" /\ UNCHANGED listed
  <2>1. Distinct(listed)' /\ Current(listed)'
    BY <1>1, <1>2 DEF ListingInv, Distinct, Current
  <2> QED
    BY <1>1, <1>2, <2>1 DEF ListingInv
<1>3. CASE listed' \in Answers(DOMAIN status) /\ phase' = "listed"
  <2>1. IsFiniteSet(DOMAIN status) /\ status \in [DOMAIN status -> Statuses]
    BY <1>1 DEF ListingInv
  <2>2. /\ listed' \in Seq(Entries)
        /\ Distinct(listed')
        /\ \A k \in DOMAIN listed' : listed'[k][2] = status[listed'[k][1]]
        /\ \A n \in DOMAIN status : Holds(listed', n)
    BY <1>3, <2>1, AnswerIsCurrent
  <2>3. Current(listed)' /\ Distinct(listed)' /\ \A n \in DOMAIN status : Holds(listed', n)
    BY <1>1, <2>2 DEF Current, Distinct
  <2> QED
    BY <1>1, <1>3, <2>1, <2>2, <2>3 DEF ListingInv, Holds
<1> QED
  BY <1>2, <1>3 DEF QueryAll

LEMMA ListingStep == ListingInv /\ [Next]_vars => ListingInv'
<1> SUFFICES ASSUME ListingInv, [Next]_vars PROVE ListingInv'
  OBVIOUS
<1>1. ASSUME NEW t, NEW built, t # "get_orders", Prepares(t, built) PROVE ListingInv'
  <2>1. UNCHANGED call /\ ~Lists(call) /\ phase' \notin {"listing", "listed"}
    BY <1>1 DEF Prepares, Lists
  <2> QED
    BY <2>1, ListingPreviews
<1>2. CASE PreviewEquity \/ PreviewOption \/ PreviewTrailing \/ PreviewOco \/ PreviewTrigger
           \/ PreviewBracket \/ PreviewCombo \/ PreviewReplacement
  BY <1>1, <1>2 DEF PreviewEquity, PreviewOption, PreviewTrailing, PreviewOco, PreviewTrigger,
                    PreviewBracket, PreviewCombo, PreviewReplacement
<1>3. CASE CheckAsset \/ Preview \/ Place \/ \E n \in DOMAIN status : Fill(n)
  <2>1. UNCHANGED call /\ phase \notin {"called", "listing", "listed", "raised"}
        /\ phase' \notin {"listing", "listed"}
    BY <1>3 DEF CheckAsset, Preview, Place, Fill
  <2> QED
    BY <2>1, ListingPreviews
<1>4. CASE \E n \in DOMAIN status : Move(n)
  BY <1>4, ListingMove
<1>5. CASE UNCHANGED vars
  BY <1>5 DEF vars, ListingInv, Lists, Entries, Distinct, Current, Covered, Holds, ToSet
<1> QED
  BY <1>2, <1>3, <1>4, <1>5, ListingGetOrders, ListingQueryStatus, ListingQueryAll DEF Next

\* get_orders returns no order twice and none that kept a requested status is
\* missing, however the orders move between its queries.
THEOREM ListingIsSound == Spec => []ListingSound
BY ListingInit, ListingStep, ListingImplies, PTL DEF Spec

-----------------------------------------------------------------------------
(* Specifications *)

\* Names, and those that the tools write themselves (that a literal is a string
\* is not known to the provers).
Words == STRING \cup {Unnamed, "BUY", "SELL", "LIMIT", "TRAILING_STOP", "VALUE", "NORMAL", "DAY",
                      "GOOD_TILL_CANCEL", "IMMEDIATE_OR_CANCEL", "FILL_OR_KILL"}

Legs == [asset : {"EQUITY", "OPTION"}, symbol : DOMAIN AssetType, instruction : Words,
         quantity : Int]

Nodes == [parent : Nat, strategy : {"SINGLE", "TRIGGER", "OCO"}, type : Words, legs : Seq(Legs),
          price : Int, stop : Int, offset : Int, link : Words, session : Words, duration : Words]

\* The orders described to a builder.
Descs == [symbol : DOMAIN AssetType, quantity : Int, instruction : Words, type : Words,
          price : Int, stop : Int, offset : Int, trail : Words, asset : Words,
          session : Words, duration : Words, malformed : BOOLEAN]

LEMMA OrderDescsAreDescs == OrderDescs \subseteq Descs
BY DEF OrderDescs, Descs, Words

IsNode(n, parent, strategy) == n \in Nodes /\ n.parent = parent /\ n.strategy = strategy

\* A specification of one order.
One(s) == s = <<s[1]>> /\ IsNode(s[1], 0, "SINGLE")

\* An entry and its exit.
Pair(s) ==
  s = <<s[1], s[2]>> /\ IsNode(s[1], 0, "TRIGGER") /\ IsNode(s[2], 1, "SINGLE")

\* Two orders of which one cancels the other.
Either(s) ==
  /\ s = <<s[1], s[2], s[3]>>
  /\ IsNode(s[1], 0, "OCO") /\ IsNode(s[2], 1, "SINGLE") /\ IsNode(s[3], 1, "SINGLE")

\* An entry and two such exits.
Bracket(s) ==
  /\ s = <<s[1], s[2], s[3], s[4]>>
  /\ IsNode(s[1], 0, "TRIGGER") /\ IsNode(s[2], 1, "OCO")
  /\ IsNode(s[3], 2, "SINGLE") /\ IsNode(s[4], 2, "SINGLE")

Shaped(s) == One(s) \/ Pair(s) \/ Either(s) \/ Bracket(s)

LEMMA SentInt ==
  ASSUME NEW x \in Int
  PROVE  Sent(x) \in Int /\ (x # 0 => Sent(x) # 0)
<1> DEFINE size == IF x < 0 THEN -x ELSE x
           place == IF size < Dollar THEN 1 ELSE Cent
           sent == (size \div place) * place - (IF size \in ShortDoubles THEN place ELSE 0)
<1>1. size \in Nat /\ Cent = 100 /\ Dollar = 10000 /\ (x # 0 => size > 0)
  BY DEF Cent, Dollar
<1>2. CASE size < Dollar
  <2>1. place = 1 /\ size \div place = size
    BY <1>1, <1>2
  <2>2. size \in ShortDoubles => size \notin {0, 1}
    BY PricesAssumption
  <2>3. sent = size - (IF size \in ShortDoubles THEN 1 ELSE 0)
    BY <1>1, <2>1
  <2> HIDE DEF sent
  <2>4. sent \in Int /\ (x # 0 => sent # 0)
    BY <1>1, <2>2, <2>3
  <2> QED
    BY <1>1, <2>4 DEF Sent, sent
<1>3. CASE ~(size < Dollar)
  <2>1. place = 100 /\ size \div 100 \in Int /\ (size \div 100) * 100 > size - 100
    BY <1>1, <1>3
  <2>2. sent \in Int /\ sent > 0
    BY <1>1, <1>3, <2>1
  <2> QED
    BY <1>1, <2>2 DEF Sent
<1> QED
  BY <1>2, <1>3

LEMMA SingleNode ==
  ASSUME NEW d \in Descs, NEW asset \in {"EQUITY", "OPTION"}
  PROVE  /\ IsNode(Single(asset, d), 0, "SINGLE")
         /\ Single(asset, d).price = None /\ Single(asset, d).stop = None
         /\ Single(asset, d).offset = None /\ Single(asset, d).link = Unnamed
         /\ Single(asset, d).type = d.type
<1> DEFINE leg == [asset |-> asset, symbol |-> d.symbol, instruction |-> d.instruction,
                   quantity |-> d.quantity]
<1>1. leg \in Legs
  BY DEF Descs, Legs
<1> HIDE DEF leg
<1> DEFINE legs == <<leg>>
<1>2. legs \in Seq(Legs)
  BY <1>1
<1>3. Single(asset, d) = [parent |-> 0, strategy |-> "SINGLE", type |-> d.type, legs |-> legs,
        price |-> 0, stop |-> 0, offset |-> 0, link |-> "none", session |-> "NORMAL",
        duration |-> "DAY"]
  BY DEF Single, None, Unnamed, leg
<1> HIDE DEF legs
<1>4. d.type \in Words /\ "none" \in Words /\ "NORMAL" \in Words /\ "DAY" \in Words
  BY DEF Descs, Words, Unnamed
<1>5. Single(asset, d) \in Nodes
  BY <1>2, <1>3, <1>4 DEF Nodes
<1> QED
  BY <1>3, <1>5 DEF IsNode, None, Unnamed

\* the amounts of a node
Amounts(n, price, stop, offset, link) ==
  n.price = price /\ n.stop = stop /\ n.offset = offset /\ n.link = link

Given(x) == IF x = None THEN None ELSE Sent(x)

LEMMA EquityOrderIs ==
  ASSUME NEW d \in Descs, EquityOrder(d) # Failed
  PROVE  /\ One(EquityOrder(d))
         /\ EquityOrder(d)[1].type = d.type
         /\ d.stop # None <=> NeedsStop(d.type)
         /\ d.price # None <=> NeedsPrice(d.type)
         /\ Amounts(EquityOrder(d)[1], Given(d.price), Given(d.stop), None, Unnamed)
<1>1. /\ d.type \in EquityTypes
      /\ (d.price # None) = NeedsPrice(d.type)
      /\ (d.stop # None) = NeedsStop(d.type)
      /\ EquityOrder(d) = <<EquityBuilder(d, PriceArgs(d))>>
  BY DEF EquityOrder
<1> DEFINE s == Single("EQUITY", d)
<1>2. /\ IsNode(s, 0, "SINGLE") /\ Amounts(s, None, None, None, Unnamed) /\ s.type = d.type
  BY SingleNode DEF Amounts
<1> HIDE DEF s
<1>3. Sent(d.price) \in Int /\ Sent(d.stop) \in Int
  BY SentInt DEF Descs
<1>4. CASE d.type = "MARKET"
  BY <1>1, <1>2, <1>4 DEF EquityBuilder, NeedsPrice, NeedsStop, One, Given, s, Failed
<1>5. CASE d.type = "LIMIT"
  <2>1. PriceArgs(d) = <<>> \o <<Sent(d.price)>>
    BY <1>5 DEF PriceArgs, NeedsPrice, NeedsStop
  <2>. PriceArgs(d) = <<Sent(d.price)>>
    BY <1>3, <2>1
  <2>2. EquityBuilder(d, PriceArgs(d)) = [s EXCEPT !.price = Sent(d.price)]
    BY <1>5, <2>1 DEF EquityBuilder, s
  <2> QED
    BY <1>1, <1>2, <1>3, <1>5, <2>2
     DEF NeedsPrice, NeedsStop, One, Given, Failed, Amounts, Nodes, IsNode
<1>6. CASE d.type = "STOP"
  <2>1. PriceArgs(d) = <<Sent(d.stop)>>
    BY <1>3, <1>6 DEF PriceArgs, NeedsPrice, NeedsStop
  <2>2. EquityBuilder(d, PriceArgs(d)) = [s EXCEPT !.stop = Sent(d.stop)]
    BY <1>6, <2>1 DEF EquityBuilder, s
  <2> QED
    BY <1>1, <1>2, <1>3, <1>6, <2>2
     DEF NeedsPrice, NeedsStop, One, Given, Failed, Amounts, Nodes, IsNode
<1>7. CASE d.type = "STOP_LIMIT"
  <2>1. PriceArgs(d) = <<Sent(d.stop), Sent(d.price)>>
    BY <1>7, TwoJoined DEF PriceArgs, NeedsPrice, NeedsStop
  <2>2. EquityBuilder(d, PriceArgs(d)) = [s EXCEPT !.stop = Sent(d.stop), !.price = Sent(d.price)]
    BY <1>7, <2>1 DEF EquityBuilder, s
  <2>3. EquityBuilder(d, PriceArgs(d)) \in Nodes
    BY <1>2, <1>3, <2>2 DEF IsNode, Nodes
  <2>4. d.price # None /\ d.stop # None /\ NeedsPrice(d.type) /\ NeedsStop(d.type)
    BY <1>1, <1>7 DEF NeedsPrice, NeedsStop
  <2> DEFINE n == EquityBuilder(d, PriceArgs(d))
  <2>5. /\ n.price = Sent(d.price) /\ n.stop = Sent(d.stop) /\ n.offset = None
        /\ n.link = Unnamed /\ n.type = d.type /\ IsNode(n, 0, "SINGLE")
    BY <1>2, <1>3, <2>2, <2>3 DEF Nodes, IsNode, Amounts
  <2> HIDE DEF n
  <2> QED
    BY <1>1, <2>4, <2>5 DEF One, Given, Failed, Amounts, n
<1> QED
  BY <1>1, <1>4, <1>5, <1>6, <1>7 DEF EquityTypes

LEMMA OptionOrderIs ==
  ASSUME NEW d \in Descs, OptionOrder(d) # Failed
  PROVE  /\ One(OptionOrder(d))
         /\ Amounts(OptionOrder(d)[1], Given(d.price), None, None, Unnamed)
<1> DEFINE s == Single("OPTION", d)
<1>1. /\ d.type \in {"MARKET", "LIMIT"} /\ (d.price # None <=> d.type = "LIMIT")
      /\ OptionOrder(d) = <<OptionBuilder(d, <<Sent(d.price)>>)>>
  BY DEF OptionOrder
<1>2. /\ IsNode(s, 0, "SINGLE") /\ Amounts(s, None, None, None, Unnamed)
  BY SingleNode DEF Amounts
<1>3. OptionBuilder(d, <<Sent(d.price)>>) =
        IF d.type = "MARKET" THEN s ELSE [s EXCEPT !.price = Sent(d.price)]
  BY DEF OptionBuilder
<1>4. Sent(d.price) \in Int
  BY SentInt DEF Descs
<1> HIDE DEF s
<1> DEFINE n == OptionBuilder(d, <<Sent(d.price)>>)
<1>5. IsNode(n, 0, "SINGLE") /\ Amounts(n, Given(d.price), None, None, Unnamed)
  BY <1>1, <1>2, <1>3, <1>4 DEF Nodes, IsNode, Amounts, Given
<1> HIDE DEF n
<1> QED
  BY <1>1, <1>5 DEF One, n

LEMMA TrailingOrderIs ==
  ASSUME NEW d \in Descs, TrailingOrder(d) # Failed
  PROVE  /\ One(TrailingOrder(d))
         /\ Amounts(TrailingOrder(d)[1], None, None, d.offset,
                    IF d.trail = Unnamed THEN "VALUE" ELSE d.trail)
<1> DEFINE s == Single("EQUITY", d)
           link == IF d.trail = Unnamed THEN "VALUE" ELSE d.trail
<1>1. TrailingOrder(d) = <<TrailingBuilder(d, link)>>
  BY DEF TrailingOrder
<1>2. /\ IsNode(s, 0, "SINGLE") /\ Amounts(s, None, None, None, Unnamed)
  BY SingleNode DEF Amounts
<1>3. TrailingBuilder(d, link) =
        [s EXCEPT !.type = "TRAILING_STOP", !.offset = d.offset, !.link = link]
  BY DEF TrailingBuilder
<1>4. d.offset \in Int /\ link \in Words /\ "TRAILING_STOP" \in Words
  BY DEF Descs, Words
<1> HIDE DEF s, link
<1> DEFINE n == TrailingBuilder(d, link)
<1>5. n \in Nodes
  BY <1>2, <1>3, <1>4 DEF Nodes, IsNode
<1>6. IsNode(n, 0, "SINGLE") /\ Amounts(n, None, None, d.offset, link)
  BY <1>2, <1>3, <1>4, <1>5 DEF Nodes, IsNode, Amounts
<1> HIDE DEF n
<1> QED
  BY <1>1, <1>6 DEF One, n, link

\* Two nodes of one price, of one kind.
Alike(n, m) ==
  /\ n.type = m.type /\ n.price = m.price /\ n.stop = m.stop
  /\ n.offset = m.offset /\ n.link = m.link

OneOrFailed(s) == s = Failed \/ One(s)

LEMMA SettledIs ==
  ASSUME NEW order, OneOrFailed(order), NEW session \in Words, NEW duration \in Words,
         Settled(order, session, duration) # Failed
  PROVE  /\ One(order)
         /\ One(Settled(order, session, duration))
         /\ Alike(Settled(order, session, duration)[1], order[1])
<1> DEFINE s == IF session = Unnamed THEN order[1].session ELSE session
           d == IF duration = Unnamed THEN order[1].duration ELSE Canonical(duration)
           n == [order[1] EXCEPT !.session = s, !.duration = d]
<1>1. One(order) /\ Settled(order, session, duration) = <<n>>
  BY DEF Settled, OneOrFailed
<1>2. Canonical(duration) \in Words
  BY DEF Canonical, Words
<1>3. order[1] \in Nodes /\ s \in Words /\ d \in Words
  BY <1>1, <1>2 DEF One, IsNode, Nodes
<1> HIDE DEF s, d
<1>4. IsNode(n, 0, "SINGLE") /\ Alike(n, order[1])
  BY <1>1, <1>3 DEF One, IsNode, Nodes, Alike
<1> HIDE DEF n
<1> QED
  BY <1>1, <1>4 DEF One

\* The order of a dictionary carries what an order of its type may have.
LEMMA OrderFromDescIs ==
  ASSUME NEW d \in Descs, NEW session \in Words, NEW duration \in Words,
         OrderFromDesc(d, session, duration) # Failed
  PROVE  /\ One(OrderFromDesc(d, session, duration))
         /\ d.asset \in {"EQUITY", "OPTION"}
         /\ LET n == OrderFromDesc(d, session, duration)[1]
            IN CASE d.asset = "OPTION" -> d.type \in {"MARKET", "LIMIT"}
                                            /\ Amounts(n, Given(d.price), None, None, Unnamed)
                 [] d.asset = "EQUITY" /\ d.type = "TRAILING_STOP" ->
                      Amounts(n, None, None, d.offset, IF d.trail = Unnamed THEN "VALUE" ELSE d.trail)
                 [] OTHER -> Amounts(n, Given(d.price), Given(d.stop), None, Unnamed)
<1> DEFINE trails == d.type = "TRAILING_STOP"
           order == IF d.asset = "OPTION" THEN IF trails THEN Failed ELSE OptionOrder(d)
                    ELSE IF trails THEN TrailingOrder(d) ELSE EquityOrder(d)
           s == IF d.session = Unnamed THEN session ELSE d.session
           t == IF d.duration = Unnamed THEN duration ELSE d.duration
<1>1. WellFormed(d) /\ OrderFromDesc(d, session, duration) = Settled(order, s, t)
  BY DEF OrderFromDesc
<1>2. s \in Words /\ t \in Words
  BY DEF Descs
<1>3. OneOrFailed(order)
  BY OptionOrderIs, TrailingOrderIs, EquityOrderIs DEF OneOrFailed
<1> HIDE DEF s, t
<1>4. One(order) /\ order # Failed
  <2> HIDE DEF order
  <2>1. One(order)
    BY <1>1, <1>2, <1>3, SettledIs
  <2>2. Settled(Failed, s, t) = Failed
    BY DEF Settled
  <2> QED
    BY <1>1, <2>1, <2>2
<1>5. One(Settled(order, s, t)) /\ Alike(Settled(order, s, t)[1], order[1])
  <2> HIDE DEF order
  <2> QED
    BY <1>1, <1>2, <1>3, SettledIs
<1>6. CASE d.asset = "OPTION"
  <2>1. order = OptionOrder(d) /\ d.type \in {"MARKET", "LIMIT"}
    BY <1>4, <1>6 DEF OptionOrder
  <2>2. Amounts(order[1], Given(d.price), None, None, Unnamed)
    BY <1>4, <2>1, OptionOrderIs
  <2> HIDE DEF order
  <2> QED
    BY <1>1, <1>5, <1>6, <2>1, <2>2 DEF Alike, Amounts
<1>7. CASE d.asset = "EQUITY" /\ trails
  <2>1. order = TrailingOrder(d)
    BY <1>7
  <2>2. Amounts(order[1], None, None, d.offset, IF d.trail = Unnamed THEN "VALUE" ELSE d.trail)
    BY <1>4, <2>1, TrailingOrderIs
  <2> HIDE DEF order
  <2> QED
    BY <1>1, <1>5, <1>7, <2>1, <2>2 DEF Alike, Amounts
<1>8. CASE d.asset = "EQUITY" /\ ~trails
  <2>1. order = EquityOrder(d)
    BY <1>8
  <2>2. Amounts(order[1], Given(d.price), Given(d.stop), None, Unnamed)
    BY <1>4, <2>1, EquityOrderIs
  <2> HIDE DEF order
  <2> QED
    BY <1>1, <1>5, <1>8, <2>1, <2>2 DEF Alike, Amounts
<1> QED
  BY <1>1, <1>6, <1>7, <1>8 DEF WellFormed

-----------------------------------------------------------------------------
(* Composite specifications *)

LEMMA BelowOne ==
  ASSUME NEW s, One(s), NEW by \in Nat
  PROVE  LET n == [s[1] EXCEPT !.parent = 1]
         IN Below(s, by) = <<n>> /\ IsNode(n, 1, "SINGLE") /\ Alike(n, s[1])
<1> DEFINE n == [s[1] EXCEPT !.parent = 1]
           m == Below(s, by)
<1>1. DOMAIN s = 1..1 /\ s[1] \in Nodes /\ s[1].parent = 0 /\ s[1].strategy = "SINGLE"
  BY DEF One, IsNode
<1>2. IsNode(n, 1, "SINGLE") /\ Alike(n, s[1])
  BY <1>1 DEF IsNode, Nodes, Alike
<1>3. m = [k \in 1..1 |-> [s[k] EXCEPT !.parent = IF @ = 0 THEN 1 ELSE @ + by - 1]]
  BY <1>1, Zenon DEF Below
<1>4. m[1] = n
  BY <1>1, <1>3 DEF Nodes
<1>5. m = [k \in 1..1 |-> n]
  BY <1>3, <1>4
<1> HIDE DEF n, m
<1>6. m \in Seq(Nodes) /\ Len(m) = 1
  BY <1>2, <1>5 DEF IsNode
<1>7. m = <<m[1]>>
  BY <1>6, AsTuples
<1> QED
  BY <1>2, <1>4, <1>7 DEF n, m

LEMMA BelowEither ==
  ASSUME NEW s, Either(s)
  PROVE  \E a, b, c : /\ Below(s, 2) = <<a, b, c>>
                      /\ IsNode(a, 1, "OCO") /\ IsNode(b, 2, "SINGLE") /\ IsNode(c, 2, "SINGLE")
                      /\ Alike(b, s[2]) /\ Alike(c, s[3])
<1> DEFINE m == Below(s, 2)
           a == [s[1] EXCEPT !.parent = 1]
           b == [s[2] EXCEPT !.parent = 2]
           c == [s[3] EXCEPT !.parent = 2]
<1>1. /\ DOMAIN s = 1..3
      /\ IsNode(s[1], 0, "OCO") /\ IsNode(s[2], 1, "SINGLE") /\ IsNode(s[3], 1, "SINGLE")
  BY DEF Either
<1>2. /\ IsNode(a, 1, "OCO") /\ IsNode(b, 2, "SINGLE") /\ IsNode(c, 2, "SINGLE")
      /\ Alike(b, s[2]) /\ Alike(c, s[3])
  BY <1>1 DEF IsNode, Nodes, Alike
<1>3. m = [k \in 1..3 |-> [s[k] EXCEPT !.parent = IF @ = 0 THEN 1 ELSE @ + 2 - 1]]
  BY <1>1, Zenon DEF Below
<1>4. m[1] = a /\ m[2] = b /\ m[3] = c
  <2>1. s[1].parent = 0 /\ s[2].parent = 1 /\ s[3].parent = 1
    BY <1>1 DEF IsNode
  <2>2. /\ m[1] = [s[1] EXCEPT !.parent = IF @ = 0 THEN 1 ELSE @ + 2 - 1]
        /\ m[2] = [s[2] EXCEPT !.parent = IF @ = 0 THEN 1 ELSE @ + 2 - 1]
        /\ m[3] = [s[3] EXCEPT !.parent = IF @ = 0 THEN 1 ELSE @ + 2 - 1]
    BY <1>3
  <2> HIDE DEF m
  <2> QED
    BY <2>1, <2>2
<1>5. m = [k \in 1..3 |-> m[k]]
  BY <1>3
<1> HIDE DEF a, b, c, m
<1>6. \A k \in 1..3 : m[k] \in Nodes
  BY <1>2, <1>4 DEF IsNode
<1>7. m \in Seq(Nodes) /\ Len(m) = 3
  BY <1>5, <1>6
<1>8. m = <<a, b, c>>
  BY <1>4, <1>7, AsTuples
<1> QED
  BY <1>2, <1>8 DEF m

LEMMA OcoIs ==
  ASSUME NEW first, NEW second, OneOrFailed(first), OneOrFailed(second), Oco(first, second) # Failed
  PROVE  /\ One(first) /\ One(second)
         /\ Either(Oco(first, second))
         /\ Alike(Oco(first, second)[2], first[1])
         /\ Alike(Oco(first, second)[3], second[1])
<1>1. One(first) /\ One(second)
  BY DEF Oco, OneOrFailed
<1> DEFINE legs == <<>>
           top == [parent |-> 0, strategy |-> "OCO", type |-> Unnamed, legs |-> legs, price |-> None,
                   stop |-> None, offset |-> None, link |-> Unnamed, session |-> Unnamed,
                   duration |-> Unnamed]
           b == [first[1] EXCEPT !.parent = 1]
           c == [second[1] EXCEPT !.parent = 1]
<1>2. Len(first) = 1
  BY <1>1 DEF One
<1>3. Oco(first, second) = <<top>> \o Below(first, 2) \o Below(second, 3)
  BY <1>1, <1>2 DEF Oco, OneOrFailed
<1>4. /\ Below(first, 2) = <<b>> /\ IsNode(b, 1, "SINGLE") /\ Alike(b, first[1])
      /\ Below(second, 3) = <<c>> /\ IsNode(c, 1, "SINGLE") /\ Alike(c, second[1])
  BY <1>1, BelowOne
<1>5. legs \in Seq(Legs)
  OBVIOUS
<1> HIDE DEF legs
<1>6. Unnamed \in Words /\ None \in Int
  BY DEF Words, None
<1>7. IsNode(top, 0, "OCO")
  BY <1>5, <1>6 DEF IsNode, Nodes
<1> HIDE DEF top, b, c
<1>8. Oco(first, second) = <<top, b, c>>
  BY <1>3, <1>4, ThreeJoined
<1> QED
  BY <1>1, <1>4, <1>7, <1>8 DEF Either

LEMMA TriggerIs ==
  ASSUME NEW entry, NEW exits, OneOrFailed(entry), Trigger(entry, exits) # Failed,
         exits = Failed \/ One(exits) \/ Either(exits)
  PROVE  LET s == Trigger(entry, exits)
         IN /\ One(entry)
            /\ Alike(s[1], entry[1])
            /\ One(exits) => Pair(s) /\ Alike(s[2], exits[1])
            /\ Either(exits) => Bracket(s) /\ Alike(s[3], exits[2]) /\ Alike(s[4], exits[3])
            /\ One(exits) \/ Either(exits)
<1> DEFINE top == [entry[1] EXCEPT !.strategy = "TRIGGER"]
<1>1. /\ One(entry) /\ (One(exits) \/ Either(exits))
      /\ Trigger(entry, exits) = <<top>> \o Below(exits, 2)
  BY DEF Trigger, OneOrFailed
<1>2. IsNode(top, 0, "TRIGGER") /\ Alike(top, entry[1])
  BY <1>1 DEF One, IsNode, Nodes, Alike
<1> HIDE DEF top
<1>3. CASE One(exits)
  <2> DEFINE b == [exits[1] EXCEPT !.parent = 1]
  <2>1. Below(exits, 2) = <<b>> /\ IsNode(b, 1, "SINGLE") /\ Alike(b, exits[1])
    BY <1>3, BelowOne
  <2> HIDE DEF b
  <2>2. Trigger(entry, exits) = <<top, b>>
    BY <1>1, <2>1, TwoJoined
  <2>3. ~Either(exits)
    BY <1>3 DEF One, Either, IsNode
  <2> DEFINE s == Trigger(entry, exits)
  <2>4. s = <<s[1], s[2]>> /\ s[1] = top /\ s[2] = b
    BY <2>2
  <2> HIDE DEF s
  <2> QED
    BY <1>1, <1>2, <1>3, <2>1, <2>3, <2>4 DEF Pair, s
<1>4. CASE Either(exits)
  <2>1. PICK a, b, c : /\ Below(exits, 2) = <<a, b, c>>
                       /\ IsNode(a, 1, "OCO") /\ IsNode(b, 2, "SINGLE") /\ IsNode(c, 2, "SINGLE")
                       /\ Alike(b, exits[2]) /\ Alike(c, exits[3])
    BY <1>4, BelowEither
  <2>2. Trigger(entry, exits) = <<top, a, b, c>>
    BY <1>1, <2>1, FourJoined
  <2>3. ~One(exits)
    BY <1>4 DEF One, Either, IsNode
  <2> DEFINE s == Trigger(entry, exits)
  <2>4. s = <<s[1], s[2], s[3], s[4]>> /\ s[1] = top /\ s[2] = a /\ s[3] = b /\ s[4] = c
    BY <2>2
  <2> HIDE DEF s
  <2> QED
    BY <1>1, <1>2, <1>4, <2>1, <2>3, <2>4 DEF Bracket, s
<1> QED
  BY <1>1, <1>3, <1>4

-----------------------------------------------------------------------------
(* What the tools prepare *)

ExitsOf(s) == {n \in DOMAIN s : s[n].parent # 0 /\ s[n].strategy # "OCO"}

\* NothingDropped, of a specification s that was built for a call c.
Kept(s, c) ==
  /\ c.tool \in {"preview_equity_order", "preview_option_order",
                 "preview_equity_trailing_stop_order", "preview_replacement_order",
                 "preview_bracket_order"} => Carries(s[1], c.orders[1])
  /\ c.tool = "preview_bracket_order" =>
       /\ c.profit # None => \E n \in ExitsOf(s) : s[n].price = Sent(c.profit)
       /\ c.loss # None => \E n \in ExitsOf(s) : Sent(c.loss) \in {s[n].stop, s[n].price}
       /\ c.lossLimit # None =>
            \E n \in ExitsOf(s) : s[n].stop # None /\ s[n].price = Sent(c.lossLimit)

LEMMA CallIs ==
  ASSUME NEW c \in Calls
  PROVE  /\ c.session \in Words /\ c.duration \in Words
         /\ c.exitSession \in Words /\ c.exitDuration \in Words
         /\ c.type \in Words /\ c.lossType \in Words
         /\ c.price \in Int /\ c.profit \in Int /\ c.loss \in Int /\ c.lossLimit \in Int
         /\ c.orders \in Seq(Descs)
         /\ c.statuses \in Seq(STRING)
<1>1. c \in CallArguments
  BY OrderToolsAssumption
<1>2. c.orders \in Seq(OrderDescs)
  BY <1>1 DEF CallArguments
<1>3. c.orders \in Seq(Descs)
  BY <1>2, OrderDescsAreDescs
<1> QED
  BY <1>1, <1>3 DEF CallArguments, Words

\* The call of a tool that previews one order describes one.
LEMMA DescIs ==
  ASSUME NEW c \in Calls,
         c.tool \in {"preview_equity_order", "preview_option_order",
                     "preview_equity_trailing_stop_order", "preview_replacement_order",
                     "preview_bracket_order"}
  PROVE  LET d == c.orders[1]
         IN /\ d \in Descs
            /\ c.tool \in {"preview_equity_order", "preview_option_order", "preview_bracket_order"}
                 => d.offset = None /\ d.trail = Unnamed
            /\ c.tool = "preview_option_order" => d.stop = None
            /\ c.tool = "preview_equity_trailing_stop_order" => d.price = None /\ d.stop = None
<1>1. c.orders \in Seq(Descs)
  BY CallIs
<1>2. Len(c.orders) = 1
  BY OrderToolsAssumption DEF Signature
<1>3. c.orders[1] \in Descs
  BY <1>1, <1>2
<1> QED
  BY <1>3, OrderToolsAssumption DEF Signature

LEMMA EquityPrepared ==
  ASSUME NEW c \in Calls, c.tool = "preview_equity_order", PrepareEquity(c) # Failed
  PROVE  Shaped(PrepareEquity(c)) /\ Kept(PrepareEquity(c), c)
<1> DEFINE d == c.orders[1]
           order == EquityOrder(d)
           s == PrepareEquity(c)
<1>1. d \in Descs /\ d.offset = None /\ d.trail = Unnamed
  BY DescIs
<1>2. OneOrFailed(order)
  BY <1>1, EquityOrderIs DEF OneOrFailed
<1>3. One(order) /\ One(s) /\ Alike(s[1], order[1])
  BY <1>2, CallIs, SettledIs DEF PrepareEquity
<1>4. order # Failed
  BY <1>3 DEF One, Failed
<1>5. Amounts(order[1], Given(d.price), Given(d.stop), None, Unnamed)
  BY <1>1, <1>4, EquityOrderIs
<1> HIDE DEF order, s, d
<1>6. Carries(s[1], d)
  BY <1>1, <1>3, <1>5 DEF Carries, Alike, Amounts, Given
<1> QED
  BY <1>3, <1>6 DEF Shaped, Kept, s, d

LEMMA OptionPrepared ==
  ASSUME NEW c \in Calls, c.tool = "preview_option_order", PrepareOption(c) # Failed
  PROVE  Shaped(PrepareOption(c)) /\ Kept(PrepareOption(c), c)
<1> DEFINE d == c.orders[1]
           order == OptionOrder(d)
           s == PrepareOption(c)
<1>1. d \in Descs /\ d.offset = None /\ d.trail = Unnamed /\ d.stop = None
  BY DescIs
<1>2. OneOrFailed(order)
  BY <1>1, OptionOrderIs DEF OneOrFailed
<1>3. One(order) /\ One(s) /\ Alike(s[1], order[1])
  BY <1>2, CallIs, SettledIs DEF PrepareOption
<1>4. order # Failed
  BY <1>3 DEF One, Failed
<1>5. Amounts(order[1], Given(d.price), None, None, Unnamed)
  BY <1>1, <1>4, OptionOrderIs
<1> HIDE DEF order, s, d
<1>6. Carries(s[1], d)
  BY <1>1, <1>3, <1>5 DEF Carries, Alike, Amounts, Given
<1> QED
  BY <1>3, <1>6 DEF Shaped, Kept, s, d

LEMMA TrailingPrepared ==
  ASSUME NEW c \in Calls, c.tool = "preview_equity_trailing_stop_order",
         PrepareTrailing(c) # Failed
  PROVE  Shaped(PrepareTrailing(c)) /\ Kept(PrepareTrailing(c), c)
<1> DEFINE d == c.orders[1]
           order == TrailingOrder(d)
           s == PrepareTrailing(c)
<1>1. d \in Descs /\ d.price = None /\ d.stop = None
  BY DescIs
<1>2. OneOrFailed(order)
  BY <1>1, TrailingOrderIs DEF OneOrFailed
<1>3. One(order) /\ One(s) /\ Alike(s[1], order[1])
  BY <1>2, CallIs, SettledIs DEF PrepareTrailing
<1>4. order # Failed
  BY <1>3 DEF One, Failed
<1>5. Amounts(order[1], None, None, d.offset, IF d.trail = Unnamed THEN "VALUE" ELSE d.trail)
  BY <1>1, <1>4, TrailingOrderIs
<1> HIDE DEF order, s, d
<1>6. Carries(s[1], d)
  BY <1>1, <1>3, <1>5 DEF Carries, Alike, Amounts
<1> QED
  BY <1>3, <1>6 DEF Shaped, Kept, s, d

\* A replacement that supplies a field its order would ignore is refused.
LEMMA ReplacementPrepared ==
  ASSUME NEW c \in Calls, c.tool = "preview_replacement_order", PrepareReplacement(c) # Failed
  PROVE  Shaped(PrepareReplacement(c)) /\ Kept(PrepareReplacement(c), c)
<1> DEFINE d == c.orders[1]
           s == PrepareReplacement(c)
<1>1. d \in Descs /\ "NORMAL" \in Words /\ "DAY" \in Words
  BY DescIs DEF Words
<1>2. SuppliedFields(d) \subseteq AllowedFields(d.asset, d.type)
      /\ s = OrderFromDesc(d, "NORMAL", "DAY")
  BY DEF PrepareReplacement
<1>3. /\ One(s)
      /\ \/ /\ d.asset = "OPTION" /\ d.type \in {"MARKET", "LIMIT"}
            /\ Amounts(s[1], Given(d.price), None, None, Unnamed)
         \/ /\ d.asset = "EQUITY" /\ d.type = "TRAILING_STOP"
            /\ Amounts(s[1], None, None, d.offset, IF d.trail = Unnamed THEN "VALUE" ELSE d.trail)
         \/ /\ d.asset = "EQUITY" /\ d.type # "TRAILING_STOP"
            /\ Amounts(s[1], Given(d.price), Given(d.stop), None, Unnamed)
  BY <1>1, <1>2, OrderFromDescIs
<1>4. /\ d.price # None => "price" \in AllowedFields(d.asset, d.type)
      /\ d.stop # None => "stop_price" \in AllowedFields(d.asset, d.type)
      /\ d.offset # None => "trail_offset" \in AllowedFields(d.asset, d.type)
      /\ d.trail # Unnamed => "trail_type" \in AllowedFields(d.asset, d.type)
  BY <1>2 DEF SuppliedFields
<1> HIDE DEF s, d
<1>5. Carries(s[1], d)
  BY <1>3, <1>4 DEF Carries, AllowedFields, NeedsPrice, NeedsStop, Amounts, Given
<1> QED
  BY <1>3, <1>5 DEF Shaped, Kept, s, d

\* A dictionary's order, or ValueError.
LEMMA DescOneOrFailed ==
  ASSUME NEW c \in Calls, NEW k \in DOMAIN c.orders
  PROVE  OneOrFailed(OrderFromDesc(c.orders[k], c.session, c.duration))
<1>1. c.orders[k] \in Descs /\ c.session \in Words /\ c.duration \in Words
  BY CallIs
<1> QED
  BY <1>1, OrderFromDescIs DEF OneOrFailed

LEMMA OcoPrepared ==
  ASSUME NEW c \in Calls, c.tool = "preview_oco_order", PrepareOco(c) # Failed
  PROVE  Shaped(PrepareOco(c)) /\ Kept(PrepareOco(c), c)
<1>1. c.orders \in Seq(Descs) /\ Len(c.orders) = 2
  BY CallIs, OrderToolsAssumption DEF Signature
<1>2. 1 \in DOMAIN c.orders /\ 2 \in DOMAIN c.orders
  BY <1>1
<1>3. Either(PrepareOco(c))
  BY <1>2, DescOneOrFailed, OcoIs DEF PrepareOco
<1> QED
  BY <1>3 DEF Shaped, Kept

LEMMA TriggerPrepared ==
  ASSUME NEW c \in Calls, c.tool = "preview_trigger_order", PrepareTrigger(c) # Failed
  PROVE  Shaped(PrepareTrigger(c)) /\ Kept(PrepareTrigger(c), c)
<1> DEFINE o == [k \in DOMAIN c.orders |-> OrderFromDesc(c.orders[k], c.session, c.duration)]
           s == PrepareTrigger(c)
<1>1. c.orders \in Seq(Descs)
  BY CallIs
<1>2. \A k \in DOMAIN o : OneOrFailed(o[k])
  BY DescOneOrFailed
<1>3. DOMAIN o = 1..Len(o)
  <2> DEFINE T == {o[k] : k \in DOMAIN o}
  <2>1. o = [k \in 1..Len(c.orders) |-> o[k]] /\ Len(c.orders) \in Nat
    BY <1>1
  <2> HIDE DEF o
  <2>2. o \in Seq(T)
    BY <2>1
  <2> QED
    BY <2>2
<1>4. s = CASE Len(o) = 2 -> Trigger(o[1], o[2])
            [] Len(o) = 3 -> Trigger(o[1], Oco(o[2], o[3]))
            [] OTHER -> Failed
  BY DEF PrepareTrigger
<1> HIDE DEF o, s
<1>5. CASE Len(o) = 2
  <2>1. s = Trigger(o[1], o[2])
    BY <1>4, <1>5
  <2>2. OneOrFailed(o[1]) /\ OneOrFailed(o[2])
    BY <1>2, <1>3, <1>5
  <2>3. Pair(s) \/ Bracket(s)
    BY <2>1, <2>2, TriggerIs DEF OneOrFailed, s
  <2> QED
    BY <2>3 DEF Shaped, Kept, s
<1>6. CASE Len(o) = 3
  <2>1. s = Trigger(o[1], Oco(o[2], o[3]))
    BY <1>4, <1>6
  <2>2. OneOrFailed(o[1]) /\ OneOrFailed(o[2]) /\ OneOrFailed(o[3])
    BY <1>2, <1>3, <1>6
  <2>3. Oco(o[2], o[3]) = Failed \/ Either(Oco(o[2], o[3]))
    BY <2>2, OcoIs
  <2>4. Pair(s) \/ Bracket(s)
    BY <2>1, <2>2, <2>3, TriggerIs DEF s
  <2> QED
    BY <2>4 DEF Shaped, Kept, s
<1> QED
  BY <1>4, <1>5, <1>6 DEF s

LEMMA ComboPrepared ==
  ASSUME NEW c \in Calls, c.tool = "preview_option_combo_order", PrepareCombo(c) # Failed
  PROVE  Shaped(PrepareCombo(c)) /\ Kept(PrepareCombo(c), c)
<1> DEFINE legs == [k \in DOMAIN c.orders |-> Single("OPTION", c.orders[k]).legs[1]]
           first == [c.orders[1] EXCEPT !.type = c.type]
           price == IF c.price = None THEN None ELSE Sent(c.price)
           order == <<[Single("OPTION", first) EXCEPT !.legs = legs, !.price = price,
                          !.session = Unnamed, !.duration = Unnamed]>>
           s == PrepareCombo(c)
<1>1. /\ c.orders \in Seq(Descs) /\ c.type \in Words /\ c.price \in Int
      /\ c.session \in Words /\ c.duration \in Words
  BY CallIs
<1>2. Len(c.orders) >= 2 /\ s = Settled(order, c.session, c.duration)
  BY <1>1 DEF PrepareCombo
<1>3. first \in Descs
  <2>1. c.orders[1] \in Descs
    BY <1>1, <1>2
  <2> QED
    BY <1>1, <2>1 DEF Descs
<1>4. legs \in Seq(Legs)
  <2>1. ASSUME NEW k \in DOMAIN c.orders PROVE Single("OPTION", c.orders[k]).legs[1] \in Legs
    <3>1. c.orders[k] \in Descs
      BY <1>1
    <3> QED
      BY <3>1 DEF Single, Legs, Descs
  <2>2. DOMAIN c.orders = 1..Len(c.orders) /\ Len(c.orders) \in Nat
    BY <1>1
  <2> QED
    BY <2>1, <2>2
<1>5. price \in Int /\ Unnamed \in Words
  BY <1>1, SentInt DEF Words, None
<1>6. IsNode(Single("OPTION", first), 0, "SINGLE")
  BY <1>3, SingleNode
<1> HIDE DEF legs, first, price
<1>7. One(order)
  BY <1>4, <1>5, <1>6 DEF One, IsNode, Nodes
<1> HIDE DEF order, s
<1>8. One(s)
  BY <1>1, <1>2, <1>7, SettledIs DEF OneOrFailed, s
<1> QED
  BY <1>8 DEF Shaped, Kept, s

-----------------------------------------------------------------------------
(* Brackets *)

\* The profit and the loss order of a bracket.
Profit(c, d, session, duration) ==
  Settled(EquityOrder([d EXCEPT !.type = "LIMIT", !.price = c.profit, !.stop = None]),
          session, duration)

Loss(c, d, session, duration) ==
  Settled(EquityOrder([d EXCEPT !.type = c.lossType,
                                !.price = IF c.lossType = "LIMIT" THEN c.loss ELSE c.lossLimit,
                                !.stop = IF c.lossType = "LIMIT" THEN None ELSE c.loss]),
          session, duration)

\* A settled equity order is the order's, if any.
LEMMA SettledEquity ==
  ASSUME NEW d \in Descs, NEW session \in Words, NEW duration \in Words
  PROVE  LET s == Settled(EquityOrder(d), session, duration)
         IN /\ OneOrFailed(s)
            /\ s # Failed =>
                 /\ d.stop # None <=> NeedsStop(d.type)
                 /\ d.price # None <=> NeedsPrice(d.type)
                 /\ Amounts(s[1], Given(d.price), Given(d.stop), None, Unnamed)
<1> DEFINE order == EquityOrder(d)
           s == Settled(order, session, duration)
<1>1. OneOrFailed(order)
  BY EquityOrderIs DEF OneOrFailed
<1>2. CASE s = Failed
  BY <1>2 DEF OneOrFailed
<1>3. CASE s # Failed
  <2>1. One(order) /\ One(s) /\ Alike(s[1], order[1])
    <3> HIDE DEF order
    <3> QED
      BY <1>1, <1>3, SettledIs
  <2>2. order # Failed
    BY <2>1 DEF One, Failed
  <2>3. /\ d.stop # None <=> NeedsStop(d.type)
        /\ d.price # None <=> NeedsPrice(d.type)
        /\ Amounts(order[1], Given(d.price), Given(d.stop), None, Unnamed)
    BY <2>2, EquityOrderIs
  <2> HIDE DEF order, s
  <2> QED
    BY <2>1, <2>3 DEF OneOrFailed, Alike, Amounts, order, s
<1> QED
  BY <1>2, <1>3

\* The exits of a bracket carry its profit and its loss.
LEMMA BracketExitsAre ==
  ASSUME NEW c \in Calls, NEW d \in Descs, NEW session \in Words, NEW duration \in Words,
         BracketExits(c, d, session, duration) # Failed,
         c.profit # None \/ c.loss # None
  PROVE  LET s == BracketExits(c, d, session, duration)
         IN \/ /\ One(s) /\ c.loss = None /\ c.lossLimit = None
               /\ s[1].price = Sent(c.profit)
            \/ /\ One(s) /\ c.profit = None
               /\ Sent(c.loss) \in {s[1].stop, s[1].price}
               /\ c.lossLimit # None => s[1].stop # None /\ s[1].price = Sent(c.lossLimit)
            \/ /\ Either(s)
               /\ s[2].price = Sent(c.profit)
               /\ Sent(c.loss) \in {s[3].stop, s[3].price}
               /\ c.lossLimit # None => s[3].stop # None /\ s[3].price = Sent(c.lossLimit)
<1> DEFINE p == [d EXCEPT !.type = "LIMIT", !.price = c.profit, !.stop = None]
           l == [d EXCEPT !.type = c.lossType,
                          !.price = IF c.lossType = "LIMIT" THEN c.loss ELSE c.lossLimit,
                          !.stop = IF c.lossType = "LIMIT" THEN None ELSE c.loss]
           profit == Settled(EquityOrder(p), session, duration)
           loss == Settled(EquityOrder(l), session, duration)
           s == BracketExits(c, d, session, duration)
<1>1. /\ c.profit \in Int /\ c.loss \in Int /\ c.lossLimit \in Int /\ c.lossType \in Words
      /\ "LIMIT" \in Words /\ None \in Int
  BY CallIs DEF Words, None
<1>2. /\ p \in Descs /\ p.type = "LIMIT" /\ p.price = c.profit
      /\ l \in Descs /\ l.type = c.lossType
      /\ l.price = IF c.lossType = "LIMIT" THEN c.loss ELSE c.lossLimit
      /\ l.stop = IF c.lossType = "LIMIT" THEN None ELSE c.loss
  BY <1>1 DEF Descs
<1>3. /\ LossWellFormed(c)
      /\ s = IF c.loss = None THEN profit
             ELSE IF c.profit = None THEN loss
             ELSE Oco(profit, loss)
  BY DEF BracketExits
<1> HIDE DEF p, l
<1>4. /\ OneOrFailed(profit)
      /\ profit # Failed => p.price # None /\ profit[1].price = Given(p.price)
  BY <1>2, SettledEquity DEF NeedsPrice, Amounts
<1>5. /\ OneOrFailed(loss)
      /\ loss # Failed => loss[1].price = Given(l.price) /\ loss[1].stop = Given(l.stop)
  BY <1>2, SettledEquity DEF Amounts
<1> HIDE DEF profit, loss, s
<1>6. profit # Failed => One(profit) /\ profit[1].price = Sent(c.profit)
  BY <1>2, <1>4 DEF Given, OneOrFailed
<1>7. loss # Failed /\ c.loss # None =>
        /\ One(loss) /\ Sent(c.loss) \in {loss[1].stop, loss[1].price}
        /\ c.lossLimit # None => loss[1].stop # None /\ loss[1].price = Sent(c.lossLimit)
  <2>1. c.loss # 0 => Sent(c.loss) # 0
    BY <1>1, SentInt
  <2> QED
    BY <1>2, <1>3, <1>5, <2>1 DEF Given, OneOrFailed, LossWellFormed, None
<1>8. CASE c.loss = None
  BY <1>3, <1>6, <1>8 DEF LossWellFormed, s
<1>9. CASE c.loss # None /\ c.profit = None
  BY <1>3, <1>7, <1>9 DEF s
<1>10. CASE c.loss # None /\ c.profit # None
  <2>1. Oco(profit, loss) # Failed /\ s = Oco(profit, loss)
    BY <1>3, <1>10 DEF s
  <2>2. /\ One(profit) /\ One(loss) /\ Either(s)
        /\ Alike(s[2], profit[1]) /\ Alike(s[3], loss[1])
    BY <1>4, <1>5, <2>1, OcoIs
  <2>3. profit # Failed /\ loss # Failed
    BY <2>2 DEF One, Failed
  <2> QED
    BY <1>6, <1>7, <1>10, <2>2, <2>3 DEF Alike, s
<1> QED
  BY <1>8, <1>9, <1>10

LEMMA BracketPrepared ==
  ASSUME NEW c \in Calls, c.tool = "preview_bracket_order", PrepareBracket(c) # Failed
  PROVE  Shaped(PrepareBracket(c)) /\ Kept(PrepareBracket(c), c)
<1> DEFINE d == c.orders[1]
           turned == [d EXCEPT !.instruction = IF d.instruction = "BUY" THEN "SELL" ELSE "BUY"]
           session == IF c.exitSession = Unnamed THEN c.session ELSE c.exitSession
           duration == IF c.exitDuration = Unnamed THEN c.duration ELSE c.exitDuration
           entry == Settled(EquityOrder(d), c.session, c.duration)
           exits == BracketExits(c, turned, session, duration)
           s == PrepareBracket(c)
<1>1. /\ d \in Descs /\ d.offset = None /\ d.trail = Unnamed
      /\ c.session \in Words /\ c.duration \in Words
      /\ session \in Words /\ duration \in Words
  BY DescIs, CallIs
<1>2. turned \in Descs
  <2>1. "BUY" \in Words /\ "SELL" \in Words
    BY DEF Words
  <2> QED
    BY <1>1, <2>1 DEF Descs
<1>3. (c.profit # None \/ c.loss # None) /\ s = Trigger(entry, exits)
  BY DEF PrepareBracket
<1>4. OneOrFailed(entry)
      /\ (entry # Failed => Amounts(entry[1], Given(d.price), Given(d.stop), None, Unnamed))
  BY <1>1, SettledEquity
<1> HIDE DEF turned, session, duration, entry, d
<1>5. exits # Failed
  BY <1>3 DEF Trigger
<1> DEFINE Sound(n, m) ==
             /\ c.profit # None => s[n].price = Sent(c.profit)
             /\ c.loss # None => Sent(c.loss) \in {s[m].stop, s[m].price}
             /\ c.lossLimit # None => s[m].stop # None /\ s[m].price = Sent(c.lossLimit)
<1>6. \/ One(exits) /\ c.loss = None /\ c.lossLimit = None /\ exits[1].price = Sent(c.profit)
      \/ /\ One(exits) /\ c.profit = None /\ Sent(c.loss) \in {exits[1].stop, exits[1].price}
         /\ c.lossLimit # None => exits[1].stop # None /\ exits[1].price = Sent(c.lossLimit)
      \/ /\ Either(exits) /\ exits[2].price = Sent(c.profit)
         /\ Sent(c.loss) \in {exits[3].stop, exits[3].price}
         /\ c.lossLimit # None => exits[3].stop # None /\ exits[3].price = Sent(c.lossLimit)
  BY <1>1, <1>2, <1>3, <1>5, BracketExitsAre
<1> HIDE DEF exits, s
<1>7. /\ One(entry) /\ Alike(s[1], entry[1])
      /\ One(exits) => Pair(s) /\ Alike(s[2], exits[1])
      /\ Either(exits) => Bracket(s) /\ Alike(s[3], exits[2]) /\ Alike(s[4], exits[3])
  BY <1>3, <1>4, <1>6, TriggerIs DEF s
<1>8. Carries(s[1], d)
  <2>1. entry # Failed
    BY <1>7 DEF One, Failed
  <2> QED
    BY <1>1, <1>4, <1>7, <2>1 DEF Carries, Alike, Amounts, Given
<1>9. CASE One(exits)
  <2>1. Pair(s) /\ Sound(2, 2)
    BY <1>6, <1>7, <1>9 DEF Alike, One, Either, IsNode
  <2>2. 2 \in ExitsOf(s)
    BY <2>1 DEF Pair, IsNode, ExitsOf
  <2> QED
    BY <1>8, <2>1, <2>2 DEF Shaped, Kept, s, d
<1>10. CASE Either(exits)
  <2>1. Bracket(s) /\ Sound(3, 4)
    BY <1>6, <1>7, <1>10 DEF Alike, One, Either, IsNode
  <2>2. 3 \in ExitsOf(s) /\ 4 \in ExitsOf(s)
    BY <2>1 DEF Bracket, IsNode, ExitsOf
  <2> QED
    BY <1>8, <2>1, <2>2 DEF Shaped, Kept, s, d
<1> QED
  BY <1>6, <1>9, <1>10

-----------------------------------------------------------------------------
(* The symbols that are looked up *)

\* The function inside FlattenSeq, on the first n of its sequences.
Flattens(f, seqs, n) ==
  f = [i \in 1..n |-> IF i = 1 THEN seqs[i] ELSE f[i - 1] \o seqs[i]]

LEMMA FlattenUnfolds ==
  ASSUME NEW seqs, Len(seqs) # 0
  PROVE  FlattenSeq(seqs) = (CHOOSE f : Flattens(f, seqs, Len(seqs)))[Len(seqs)]
BY Zenon DEF FlattenSeq, Flattens

LEMMA FlattensExists ==
  ASSUME NEW seqs
  PROVE  \A n \in Nat : \E f : Flattens(f, seqs, n)
<1> DEFINE S == {n \in Nat : \E f : Flattens(f, seqs, n)}
<1>1. 0 \in S
  <2>1. Flattens(<<>>, seqs, 0)
    BY DEF Flattens
  <2> QED
    BY <2>1
<1>2. ASSUME NEW n \in Nat, n \in S PROVE n + 1 \in S
  <2>1. PICK f : Flattens(f, seqs, n)
    BY <1>2
  <2> DEFINE g == [i \in 1..n + 1 |-> IF i <= n THEN f[i]
                                      ELSE IF i = 1 THEN seqs[i] ELSE f[n] \o seqs[i]]
  <2>2. ASSUME NEW i \in 1..n + 1
        PROVE  g[i] = IF i = 1 THEN seqs[i] ELSE g[i - 1] \o seqs[i]
    <3>1. CASE i <= n
      <4>1. i \in 1..n /\ (i # 1 => i - 1 \in 1..n /\ g[i - 1] = f[i - 1])
        BY <3>1
      <4>2. f[i] = IF i = 1 THEN seqs[i] ELSE f[i - 1] \o seqs[i]
        BY <2>1, <4>1 DEF Flattens
      <4> QED
        BY <3>1, <4>1, <4>2
    <3>2. CASE i = n + 1
      <4>1. i # 1 => n \in 1..n + 1 /\ g[n] = f[n] /\ i - 1 = n
        BY <3>2
      <4>2. ~(i <= n)
        BY <3>2
      <4> QED
        BY <4>1, <4>2
    <3> QED
      BY <3>1, <3>2
  <2> DEFINE h == [i \in 1..n + 1 |-> IF i = 1 THEN seqs[i] ELSE g[i - 1] \o seqs[i]]
  <2>3. g = h
    <3>1. DOMAIN g = 1..n + 1 /\ DOMAIN h = 1..n + 1
      OBVIOUS
    <3>2. \A i \in 1..n + 1 : g[i] = h[i]
      BY <2>2
    <3>3. g = [i \in 1..n + 1 |-> g[i]] /\ h = [i \in 1..n + 1 |-> h[i]]
      OBVIOUS
    <3> HIDE DEF g, h
    <3> QED
      BY <3>2, <3>3
  <2>4. Flattens(g, seqs, n + 1)
    <3> HIDE DEF g
    <3> QED
      BY <2>3 DEF Flattens
  <2> QED
    BY <2>4
<1> HIDE DEF S
<1>3. \A n \in Nat : n \in S
  BY <1>1, <1>2, SetInduction
<1> QED
  BY <1>3 DEF S

\* What is in one of the sequences is in the flattened one.
LEMMA FlattenHolds ==
  ASSUME NEW T, NEW seqs \in Seq(Seq(T))
  PROVE  /\ FlattenSeq(seqs) \in Seq(T)
         /\ \A k \in DOMAIN seqs : ToSet(seqs[k]) \subseteq ToSet(FlattenSeq(seqs))
<1>1. CASE Len(seqs) = 0
  BY <1>1 DEF FlattenSeq
<1>2. CASE Len(seqs) # 0
  <2> DEFINE N == Len(seqs)
             f == CHOOSE g : Flattens(g, seqs, N)
             Joins(n) == /\ f[n] \in Seq(T)
                         /\ \A k \in 1..n : ToSet(seqs[k]) \subseteq ToSet(f[n])
             S == {n \in Nat : n \in 1..N => Joins(n)}
  <2>1. N \in Nat /\ N # 0 /\ DOMAIN seqs = 1..N
    BY <1>2
  <2>2. Flattens(f, seqs, N)
    BY <2>1, FlattensExists
  <2>3. FlattenSeq(seqs) = f[N]
    BY <1>2, FlattenUnfolds
  <2> HIDE DEF f, N
  <2>4. \A i \in 1..N : f[i] = IF i = 1 THEN seqs[i] ELSE f[i - 1] \o seqs[i]
    BY <2>2 DEF Flattens
  <2>5. 0 \in S
    BY <2>1
  <2>6. ASSUME NEW n \in Nat, n \in S PROVE n + 1 \in S
    <3> SUFFICES ASSUME n + 1 \in 1..N
                 PROVE  /\ f[n + 1] \in Seq(T)
                        /\ \A k \in 1..n + 1 : ToSet(seqs[k]) \subseteq ToSet(f[n + 1])
      OBVIOUS
    <3>1. seqs[n + 1] \in Seq(T)
      BY <2>1
    <3>2. CASE n = 0
      <4>1. f[n + 1] = seqs[n + 1]
        BY <2>4, <3>2
      <4>2. \A k \in 1..n + 1 : k = n + 1
        BY <3>2
      <4>3. f[n + 1] \in Seq(T)
        BY <3>1, <4>1
      <4>4. ASSUME NEW k \in 1..n + 1 PROVE ToSet(seqs[k]) \subseteq ToSet(f[n + 1])
        <5>1. seqs[k] = f[n + 1]
          BY <4>1, <4>2
        <5> QED
          BY <5>1
      <4> QED
        BY <4>3, <4>4
    <3>3. CASE n # 0
      <4>1. n \in 1..N /\ n + 1 # 1 /\ n + 1 - 1 = n
        BY <2>1, <3>3
      <4>2. f[n + 1] = f[n] \o seqs[n + 1]
        <5> DEFINE i == n + 1
        <5>1. i \in 1..N /\ i # 1 /\ i - 1 = n
          BY <4>1
        <5> HIDE DEF i
        <5>2. f[i] = f[n] \o seqs[i]
          BY <2>4, <5>1
        <5> QED
          BY <5>2 DEF i
      <4>3. f[n] \in Seq(T) /\ \A k \in 1..n : ToSet(seqs[k]) \subseteq ToSet(f[n])
        BY <2>6, <4>1
      <4>4. f[n + 1] \in Seq(T) /\ ToSet(f[n]) \subseteq ToSet(f[n + 1])
            /\ ToSet(seqs[n + 1]) \subseteq ToSet(f[n + 1])
        BY <3>1, <4>2, <4>3, JoinedHolds
      <4>5. \A k \in 1..n + 1 : k \in 1..n \/ k = n + 1
        OBVIOUS
      <4> QED
        BY <4>3, <4>4, <4>5
    <3> QED
      BY <3>2, <3>3
  <2> HIDE DEF S
  <2>7. \A n \in Nat : n \in S
    BY <2>5, <2>6, SetInduction
  <2>8. N \in S /\ N \in 1..N
    BY <2>1, <2>7
  <2> QED
    BY <2>1, <2>3, <2>8 DEF S
<1> QED
  BY <1>1, <1>2

\* How the fold of SymbolsOf goes on, and the function inside it, on the first n
\* legs.
Noted(found, leg) ==
  IF leg.asset # "EQUITY" \/ Contains(found, leg.symbol) THEN found ELSE Append(found, leg.symbol)

Folds(g, legs, D) ==
  g = [s \in SUBSET D |-> IF s = {} THEN <<>> ELSE Noted(g[s \ {Max(s)}], legs[Max(s)])]

LEMMA SymbolsUnfold ==
  ASSUME NEW legs
  PROVE  SymbolsOf(legs) = (CHOOSE g : Folds(g, legs, DOMAIN legs))[DOMAIN legs]
BY Zenon DEF SymbolsOf, FoldLeft, MapThenFoldSet, Folds, Noted

LEMMA MaxOfFirst ==
  ASSUME NEW n \in Nat, NEW s \in SUBSET (1..n + 1), n + 1 \in s
  PROVE  Max(s) = n + 1
<1>1. \A y \in s : n + 1 >= y
  OBVIOUS
<1>2. \A x \in s : (\A y \in s : x >= y) => x = n + 1
  OBVIOUS
<1> QED
  BY <1>1, <1>2 DEF Max

LEMMA FoldsExists ==
  ASSUME NEW legs
  PROVE  \A n \in Nat : \E g : Folds(g, legs, 1..n)
<1> DEFINE S == {n \in Nat : \E g : Folds(g, legs, 1..n)}
<1>1. 0 \in S
  <2> DEFINE g == [s \in SUBSET (1..0) |-> <<>>]
  <2>1. \A s \in SUBSET (1..0) : s = {}
    OBVIOUS
  <2>2. Folds(g, legs, 1..0)
    BY <2>1 DEF Folds
  <2> QED
    BY <2>2
<1>2. ASSUME NEW n \in Nat, n \in S PROVE n + 1 \in S
  <2>1. PICK g : Folds(g, legs, 1..n)
    BY <1>2
  <2> DEFINE h == [s \in SUBSET (1..n + 1) |->
                     IF n + 1 \in s THEN Noted(g[s \ {n + 1}], legs[n + 1]) ELSE g[s]]
             k == [s \in SUBSET (1..n + 1) |->
                     IF s = {} THEN <<>> ELSE Noted(h[s \ {Max(s)}], legs[Max(s)])]
  <2>2. ASSUME NEW s \in SUBSET (1..n + 1) PROVE h[s] = k[s]
    <3>1. CASE n + 1 \in s
      <4>1. Max(s) = n + 1
        BY <3>1, MaxOfFirst
      <4>2. s \ {n + 1} \in SUBSET (1..n) /\ s \ {n + 1} \in SUBSET (1..n + 1)
            /\ n + 1 \notin s \ {n + 1}
        OBVIOUS
      <4>3. h[s \ {n + 1}] = g[s \ {n + 1}]
        <5> DEFINE r == s \ {n + 1}
        <5> HIDE DEF r
        <5>1. h[r] = g[r]
          BY <4>2 DEF r
        <5> QED
          BY <5>1 DEF r
      <4>4. h[s] = Noted(g[s \ {n + 1}], legs[n + 1])
        BY <3>1
      <4>5. k[s] = Noted(h[s \ {Max(s)}], legs[Max(s)])
        BY <3>1
      <4> QED
        BY <4>1, <4>3, <4>4, <4>5
    <3>2. CASE n + 1 \notin s
      <4> DEFINE r == s \ {Max(s)}
      <4> HIDE DEF r
      <4>1. r \subseteq s
        BY DEF r
      <4>2. s \in SUBSET (1..n)
        BY <3>2
      <4>3. r \in SUBSET (1..n + 1) /\ n + 1 \notin r
        BY <3>2, <4>1, <4>2
      <4>4. h[s] = g[s] /\ h[r] = g[r]
        BY <3>2, <4>3
      <4>5. g[s] = IF s = {} THEN <<>> ELSE Noted(g[r], legs[Max(s)])
        BY <2>1, <4>2 DEF Folds, r
      <4>6. k[s] = IF s = {} THEN <<>> ELSE Noted(h[r], legs[Max(s)])
        BY DEF r
      <4> QED
        BY <4>4, <4>5, <4>6
    <3> QED
      BY <3>1, <3>2
  <2>3. h = [s \in SUBSET (1..n + 1) |-> h[s]] /\ k = [s \in SUBSET (1..n + 1) |-> k[s]]
    OBVIOUS
  <2>4. Folds(h, legs, 1..n + 1)
    <3>1. h = k
      <4> HIDE DEF h, k
      <4> QED
        BY <2>2, <2>3
    <3> HIDE DEF h
    <3> QED
      BY <3>1 DEF Folds
  <2> QED
    BY <2>4
<1> HIDE DEF S
<1>3. \A n \in Nat : n \in S
  BY <1>1, <1>2, SetInduction
<1> QED
  BY <1>3 DEF S

\* Every equity symbol is found.
LEMMA NotedHolds ==
  ASSUME NEW T, NEW found \in Seq(T), NEW leg, leg.symbol \in T
  PROVE  /\ Noted(found, leg) \in Seq(T)
         /\ ToSet(found) \subseteq ToSet(Noted(found, leg))
         /\ leg.asset = "EQUITY" => leg.symbol \in ToSet(Noted(found, leg))
<1>1. CASE leg.asset # "EQUITY" \/ Contains(found, leg.symbol)
  <2>1. Contains(found, leg.symbol) => leg.symbol \in ToSet(found)
    BY DEF Contains, ToSet
  <2> QED
    BY <1>1, <2>1 DEF Noted
<1>2. CASE ~(leg.asset # "EQUITY" \/ Contains(found, leg.symbol))
  <2> DEFINE m == Append(found, leg.symbol)
  <2>1. /\ m \in Seq(T) /\ Len(m) = Len(found) + 1 /\ Len(found) \in Nat
        /\ \A i \in 1..Len(found) : m[i] = found[i]
        /\ m[Len(found) + 1] = leg.symbol
    BY AppendProperties
  <2>2. Noted(found, leg) = m
    BY <1>2 DEF Noted
  <2> HIDE DEF m
  <2>3. Len(found) + 1 \in DOMAIN m /\ \A i \in DOMAIN found : i \in DOMAIN m /\ m[i] = found[i]
    BY <2>1
  <2> QED
    BY <2>1, <2>2, <2>3 DEF ToSet
<1> QED
  BY <1>1, <1>2

LEMMA SymbolsHold ==
  ASSUME NEW T, NEW legs, NEW N \in Nat, DOMAIN legs = 1..N, \A k \in 1..N : legs[k].symbol \in T
  PROVE  /\ SymbolsOf(legs) \in Seq(T)
         /\ \A k \in 1..N : legs[k].asset = "EQUITY" => legs[k].symbol \in ToSet(SymbolsOf(legs))
<1> DEFINE g == CHOOSE h : Folds(h, legs, 1..N)
           S == {n \in Nat : n <= N =>
                   /\ g[1..n] \in Seq(T)
                   /\ \A k \in 1..n :
                        legs[k].asset = "EQUITY" => legs[k].symbol \in ToSet(g[1..n])}
<1>1. Folds(g, legs, 1..N)
  BY FoldsExists
<1>2. SymbolsOf(legs) = g[1..N]
  BY SymbolsUnfold
<1> HIDE DEF g
<1>3. \A s \in SUBSET (1..N) : g[s] = IF s = {} THEN <<>> ELSE Noted(g[s \ {Max(s)}], legs[Max(s)])
  BY <1>1 DEF Folds
<1>4. 0 \in S
  <2>1. 1..0 = {} /\ 1..0 \in SUBSET (1..N)
    OBVIOUS
  <2>2. g[1..0] = <<>>
    BY <1>3, <2>1
  <2>3. \A k \in 1..0 : FALSE
    OBVIOUS
  <2>4. g[1..0] \in Seq(T)
    BY <2>2
  <2> QED
    BY <2>3, <2>4
<1>5. ASSUME NEW n \in Nat, n \in S PROVE n + 1 \in S
  <2> SUFFICES ASSUME n + 1 <= N
               PROVE  /\ g[1..n + 1] \in Seq(T)
                      /\ \A k \in 1..n + 1 :
                           legs[k].asset = "EQUITY" => legs[k].symbol \in ToSet(g[1..n + 1])
    OBVIOUS
  <2> DEFINE s == 1..n + 1
             r == 1..n
  <2>1. s \in SUBSET (1..N) /\ s # {} /\ n + 1 \in s /\ s \ {n + 1} = r /\ n <= N
    OBVIOUS
  <2>2. Max(s) = n + 1
    BY <2>1, MaxOfFirst
  <2>3. g[r] \in Seq(T) /\ \A k \in r : legs[k].asset = "EQUITY" => legs[k].symbol \in ToSet(g[r])
    BY <1>5, <2>1
  <2>4. \A k \in s : k \in r \/ k = n + 1
    OBVIOUS
  <2>5. legs[n + 1].symbol \in T
    BY <2>1
  <2> HIDE DEF s, r
  <2>6. g[s] = Noted(g[r], legs[n + 1])
    BY <1>3, <2>1, <2>2
  <2>7. /\ g[s] \in Seq(T) /\ ToSet(g[r]) \subseteq ToSet(g[s])
        /\ legs[n + 1].asset = "EQUITY" => legs[n + 1].symbol \in ToSet(g[s])
    BY <2>3, <2>5, <2>6, NotedHolds
  <2>8. \A k \in s : legs[k].asset = "EQUITY" => legs[k].symbol \in ToSet(g[s])
    BY <2>3, <2>4, <2>7
  <2> QED
    BY <2>7, <2>8 DEF s
<1> HIDE DEF S
<1>6. \A n \in Nat : n \in S
  BY <1>4, <1>5, SetInduction
<1>7. N \in S /\ N <= N
  BY <1>6
<1> QED
  BY <1>2, <1>7 DEF S

\* Whatever the nesting, no equity symbol is missed.
LEMMA EveryEquityLooked ==
  ASSUME NEW s, NEW N \in Nat, DOMAIN s = 1..N, \A n \in 1..N : s[n].legs \in Seq(Legs)
  PROVE  /\ EquityLegSymbols(s) \in Seq(DOMAIN AssetType)
         /\ \A n \in 1..N : \A k \in DOMAIN s[n].legs :
              s[n].legs[k].asset = "EQUITY" => s[n].legs[k].symbol \in ToSet(EquityLegSymbols(s))
<1> DEFINE seqs == [k \in DOMAIN s |-> s[k].legs]
           all == FlattenSeq(seqs)
<1>1. DOMAIN seqs = 1..N /\ seqs \in Seq(Seq(Legs)) /\ \A n \in 1..N : seqs[n] = s[n].legs
  OBVIOUS
<1>2. EquityLegSymbols(s) = SymbolsOf(all)
  BY DEF EquityLegSymbols
<1> HIDE DEF seqs
<1>3. all \in Seq(Legs) /\ \A n \in 1..N : ToSet(seqs[n]) \subseteq ToSet(all)
  BY <1>1, FlattenHolds
<1> HIDE DEF all
<1>4. Len(all) \in Nat /\ DOMAIN all = 1..Len(all)
      /\ \A k \in 1..Len(all) : all[k].symbol \in DOMAIN AssetType
  <2>1. \A leg \in Legs : leg.symbol \in DOMAIN AssetType
    BY DEF Legs
  <2>2. Len(all) \in Nat /\ DOMAIN all = 1..Len(all) /\ \A k \in 1..Len(all) : all[k] \in Legs
    BY <1>3
  <2> QED
    BY <2>1, <2>2
<1>5. /\ SymbolsOf(all) \in Seq(DOMAIN AssetType)
      /\ \A k \in 1..Len(all) : all[k].asset = "EQUITY" => all[k].symbol \in ToSet(SymbolsOf(all))
  BY <1>4, SymbolsHold
<1>6. ASSUME NEW n \in 1..N, NEW k \in DOMAIN s[n].legs, s[n].legs[k].asset = "EQUITY"
      PROVE  s[n].legs[k].symbol \in ToSet(SymbolsOf(all))
  <2>1. s[n].legs[k] \in ToSet(all)
    <3>1. s[n].legs[k] \in ToSet(seqs[n])
      BY <1>1 DEF ToSet
    <3> QED
      BY <1>3, <3>1
  <2>2. PICK j \in 1..Len(all) : all[j] = s[n].legs[k]
    BY <1>4, <2>1 DEF ToSet
  <2> QED
    BY <1>5, <1>6, <2>2
<1> QED
  BY <1>2, <1>5, <1>6

-----------------------------------------------------------------------------
(* Previews: the inductive invariant *)

\* Only the symbols of S may be of a type that Schwab's order endpoint rejects.
Doubts(S) ==
  \A n \in DOMAIN spec : \A k \in DOMAIN spec[n].legs :
    LET leg == spec[n].legs[k]
    IN leg.asset = "EQUITY" /\ AssetType[leg.symbol] \in Unorderable => leg.symbol \in S

\* An exit that fills ends the other one, and none works before its entry has
\* filled.
Apart ==
  /\ DOMAIN status = DOMAIN spec
  /\ \A j, k \in Exits : j # k /\ status[j] = "FILLED" => status[k] = "CANCELED"
  /\ spec[1].strategy = "TRIGGER" =>
       \A n \in Exits : status[n] \in {"WORKING", "FILLED"} => status[1] = "FILLED"

PreviewInv ==
  /\ call \in Calls
  /\ spec # <<>> => Shaped(spec) /\ Kept(spec, call)
  /\ phase \in {"checking", "previewed", "placed"} => spec # <<>>
  /\ phase = "checking" =>
       todo \in Seq(DOMAIN AssetType) /\ Doubts(unanswered \cup ToSet(todo))
  /\ phase \in {"previewed", "placed"} => Doubts(unanswered)
  /\ phase = "placed" => Apart

LEMMA PreviewInit == Init => PreviewInv
BY DEF Init, PreviewInv

LEMMA ShapedIs ==
  ASSUME NEW s, Shaped(s)
  PROVE  \E N \in Nat : /\ DOMAIN s = 1..N
                        /\ 1 \in 1..N
                        /\ \A n \in 1..N : s[n] \in Nodes
<1>1. CASE One(s)
  <2>1. DOMAIN s = 1..1 /\ s[1] \in Nodes
    BY <1>1 DEF One, IsNode
  <2> QED
    BY <2>1
<1>2. CASE Pair(s)
  <2>1. DOMAIN s = 1..2 /\ s[1] \in Nodes /\ s[2] \in Nodes
    BY <1>2 DEF Pair, IsNode
  <2> QED
    BY <2>1
<1>3. CASE Either(s)
  <2>1. DOMAIN s = 1..3 /\ s[1] \in Nodes /\ s[2] \in Nodes /\ s[3] \in Nodes
    BY <1>3 DEF Either, IsNode
  <2> QED
    BY <2>1
<1>4. CASE Bracket(s)
  <2>1. DOMAIN s = 1..4 /\ s[1] \in Nodes /\ s[2] \in Nodes /\ s[3] \in Nodes /\ s[4] \in Nodes
    BY <1>4 DEF Bracket, IsNode
  <2> QED
    BY <2>1
<1> QED
  BY <1>1, <1>2, <1>3, <1>4 DEF Shaped

LEMMA SymbolsOfShaped ==
  ASSUME NEW s, Shaped(s)
  PROVE  /\ EquityLegSymbols(s) \in Seq(DOMAIN AssetType)
         /\ \A n \in DOMAIN s : \A k \in DOMAIN s[n].legs :
              s[n].legs[k].asset = "EQUITY" => s[n].legs[k].symbol \in ToSet(EquityLegSymbols(s))
<1>1. PICK N \in Nat : DOMAIN s = 1..N /\ \A n \in 1..N : s[n] \in Nodes
  BY ShapedIs
<1>2. \A n \in 1..N : s[n].legs \in Seq(Legs)
  BY <1>1 DEF Nodes
<1> QED
  BY <1>1, <1>2, EveryEquityLooked

\* How the orders of a specification hang together.
LEMMA Family ==
  ASSUME Shaped(spec)
  PROVE  /\ 1 \in DOMAIN spec /\ 1 \notin Exits /\ Siblings(1) = {}
         /\ \A n \in DOMAIN spec : 1 \notin Children(n)
         /\ \A n \in DOMAIN spec : ~IsOco(n) => n = 1 \/ n \in Exits
         /\ \A n \in Exits : Children(n) = {} /\ Siblings(n) = Exits \ {n}
         /\ IsOco(1) \/ spec[1].strategy = "TRIGGER" \/ Exits = {}
<1> USE DEF Exits, Siblings, Children, IsOco, Root
<1>1. CASE One(spec)
  <2>1. DOMAIN spec = 1..1 /\ spec[1].parent = 0 /\ spec[1].strategy = "SINGLE"
    BY <1>1 DEF One, IsNode
  <2> QED
    BY <2>1
<1>2. CASE Pair(spec)
  <2>1. /\ DOMAIN spec = 1..2 /\ spec[1].parent = 0 /\ spec[1].strategy = "TRIGGER"
        /\ spec[2].parent = 1 /\ spec[2].strategy = "SINGLE"
    BY <1>2 DEF Pair, IsNode
  <2>2. Exits = {2}
    BY <2>1
  <2> QED
    BY <2>1, <2>2
<1>3. CASE Either(spec)
  <2>1. /\ DOMAIN spec = 1..3 /\ spec[1].parent = 0 /\ spec[1].strategy = "OCO"
        /\ spec[2].parent = 1 /\ spec[2].strategy = "SINGLE"
        /\ spec[3].parent = 1 /\ spec[3].strategy = "SINGLE"
    BY <1>3 DEF Either, IsNode
  <2>2. Exits = {2, 3} /\ Children(1) = {2, 3}
    BY <2>1
  <2> QED
    BY <2>1, <2>2
<1>4. CASE Bracket(spec)
  <2>1. /\ DOMAIN spec = 1..4 /\ spec[1].parent = 0 /\ spec[1].strategy = "TRIGGER"
        /\ spec[2].parent = 1 /\ spec[2].strategy = "OCO"
        /\ spec[3].parent = 2 /\ spec[3].strategy = "SINGLE"
        /\ spec[4].parent = 2 /\ spec[4].strategy = "SINGLE"
    BY <1>4 DEF Bracket, IsNode
  <2>2. Exits = {3, 4} /\ Children(2) = {3, 4}
    BY <2>1
  <2> QED
    BY <2>1, <2>2
<1> QED
  BY <1>1, <1>2, <1>3, <1>4 DEF Shaped

\* A specification that is built may only contain what is then looked up.
LEMMA PreviewPrepares ==
  ASSUME PreviewInv, NEW t, NEW built, Prepares(t, built),
         built # Failed => Shaped(built) /\ Kept(built, call)
  PROVE  PreviewInv'
<1>1. CASE phase' = "raised" /\ UNCHANGED <<spec, todo>>
  BY <1>1 DEF Prepares, PreviewInv
<1>2. CASE /\ built # Failed /\ phase' = "checking" /\ spec' = built
           /\ todo' = EquityLegSymbols(built)
  <2>1. UNCHANGED <<call, unanswered>>
    BY DEF Prepares
  <2>2. todo' \in Seq(DOMAIN AssetType) /\ Doubts(unanswered \cup ToSet(todo))'
    BY <1>2, <2>1, SymbolsOfShaped DEF Doubts
  <2> QED
    BY <1>2, <2>1, <2>2 DEF PreviewInv, Failed
<1> QED
  BY <1>1, <1>2 DEF Prepares

LEMMA PreviewPrepared ==
  ASSUME PreviewInv,
         PreviewEquity \/ PreviewOption \/ PreviewTrailing \/ PreviewOco \/ PreviewTrigger
           \/ PreviewBracket \/ PreviewCombo \/ PreviewReplacement
  PROVE  PreviewInv'
<1>1. call \in Calls
  BY DEF PreviewInv
<1>2. CASE PreviewEquity
  BY <1>1, <1>2, EquityPrepared, PreviewPrepares DEF PreviewEquity, Prepares
<1>3. CASE PreviewOption
  BY <1>1, <1>3, OptionPrepared, PreviewPrepares DEF PreviewOption, Prepares
<1>4. CASE PreviewTrailing
  BY <1>1, <1>4, TrailingPrepared, PreviewPrepares DEF PreviewTrailing, Prepares
<1>5. CASE PreviewOco
  BY <1>1, <1>5, OcoPrepared, PreviewPrepares DEF PreviewOco, Prepares
<1>6. CASE PreviewTrigger
  BY <1>1, <1>6, TriggerPrepared, PreviewPrepares DEF PreviewTrigger, Prepares
<1>7. CASE PreviewBracket
  BY <1>1, <1>7, BracketPrepared, PreviewPrepares DEF PreviewBracket, Prepares
<1>8. CASE PreviewCombo
  BY <1>1, <1>8, ComboPrepared, PreviewPrepares DEF PreviewCombo, Prepares
<1>9. CASE PreviewReplacement
  BY <1>1, <1>9, ReplacementPrepared, PreviewPrepares DEF PreviewReplacement, Prepares
<1> QED
  BY <1>2, <1>3, <1>4, <1>5, <1>6, <1>7, <1>8, <1>9

\* A symbol that leaves the list of those to look up is of a type that may be
\* ordered, or was not answered.
LEMMA PreviewCheckAsset == PreviewInv /\ CheckAsset => PreviewInv'
<1> SUFFICES ASSUME PreviewInv, CheckAsset PROVE PreviewInv'
  OBVIOUS
<1>1. /\ phase = "checking" /\ todo # <<>> /\ UNCHANGED <<call, spec>>
      /\ todo \in Seq(DOMAIN AssetType) /\ Doubts(unanswered \cup ToSet(todo))
  BY DEF CheckAsset, PreviewInv
<1>2. /\ Tail(todo) \in Seq(DOMAIN AssetType)
      /\ \A x \in ToSet(todo) : x = Head(todo) \/ x \in ToSet(Tail(todo))
  BY <1>1, HeadOrTail
<1>3. CASE phase' = "raised"
  BY <1>1, <1>3 DEF PreviewInv
<1>4. CASE /\ todo' = Tail(todo) /\ UNCHANGED phase
           /\ \/ unanswered' = unanswered \cup {Head(todo)}
              \/ AssetType[Head(todo)] \notin Unorderable /\ UNCHANGED unanswered
  <2>1. Doubts(unanswered \cup ToSet(todo))'
    BY <1>1, <1>2, <1>4 DEF Doubts
  <2> QED
    BY <1>1, <1>2, <1>4, <2>1 DEF PreviewInv
<1> QED
  BY <1>3, <1>4 DEF CheckAsset

LEMMA PreviewPreview == PreviewInv /\ Preview => PreviewInv'
<1> SUFFICES ASSUME PreviewInv, Preview PROVE PreviewInv'
  OBVIOUS
<1>1. /\ phase = "checking" /\ todo = <<>> /\ phase' \in {"previewed", "raised"}
      /\ UNCHANGED <<call, spec, unanswered>>
  BY DEF Preview
<1>2. Doubts(unanswered)'
  <2>1. ToSet(todo) = {}
    BY <1>1 DEF ToSet
  <2> QED
    BY <1>1, <2>1 DEF PreviewInv, Doubts
<1> QED
  BY <1>1, <1>2 DEF PreviewInv

LEMMA PreviewPlace == PreviewInv /\ Place => PreviewInv'
<1> SUFFICES ASSUME PreviewInv, Place PROVE PreviewInv'
  OBVIOUS
<1>1. /\ phase = "previewed" /\ phase' = "placed" /\ UNCHANGED <<call, spec, unanswered>>
      /\ status' = [n \in DOMAIN spec |-> IF n \in Released(1) \cup {1} THEN "WORKING"
                                          ELSE "AWAITING_PARENT_ORDER"]
  BY DEF Place
<1>2. Shaped(spec) /\ Doubts(unanswered)'
  BY <1>1 DEF PreviewInv, Doubts
<1>3. Exits' = Exits /\ Exits \subseteq DOMAIN spec
  BY <1>1 DEF Exits, Root, IsOco
<1>4. spec[1].strategy = "TRIGGER" => \A n \in Exits : status'[n] = "AWAITING_PARENT_ORDER"
  BY <1>1, <1>2, <1>3, Family DEF Released, IsOco
<1>5. \A n \in Exits : status'[n] # "FILLED"
  BY <1>1, <1>3
<1>6. Apart'
  BY <1>1, <1>3, <1>4, <1>5 DEF Apart
<1> QED
  BY <1>1, <1>2, <1>6 DEF PreviewInv

LEMMA PreviewFill == ASSUME PreviewInv, NEW n \in DOMAIN status, Fill(n) PROVE PreviewInv'
<1>1. phase = "placed" /\ status[n] = "WORKING" /\ ~IsOco(n)
      /\ UNCHANGED <<call, phase, spec, unanswered>>
  BY DEF Fill
<1> DEFINE released == Children(n) \cup UNION {Released(k) : k \in Children(n)}
<1>2. status' = [k \in DOMAIN status |-> CASE k = n -> "FILLED"
                                           [] k \in released -> "WORKING"
                                           [] k \in Siblings(n) -> "CANCELED"
                                           [] OTHER -> status[k]]
  BY DEF Fill
<1>3. Shaped(spec) /\ Doubts(unanswered)' /\ Apart
  BY <1>1 DEF PreviewInv, Doubts
<1>4. Exits' = Exits /\ Exits \subseteq DOMAIN spec 
      /\ DOMAIN status = DOMAIN spec /\ DOMAIN status' = DOMAIN status
  BY <1>1, <1>2, <1>3 DEF Exits, Root, IsOco, Apart
<1>5. n = 1 \/ n \in Exits
  BY <1>1, <1>3, <1>4, Family
<1>6. CASE n = 1
  <2>1. Siblings(n) = {} /\ (spec[1].strategy = "TRIGGER" \/ Exits = {}) /\ n \notin Exits
    <3>1. /\ Siblings(1) = {} /\ 1 \notin Exits
          /\ IsOco(1) \/ spec[1].strategy = "TRIGGER" \/ Exits = {}
      BY <1>3, Family
    <3>2. ~IsOco(1) /\ Siblings(n) = Siblings(1)
      BY <1>1, <1>6
    <3> QED
      BY <1>6, <3>1, <3>2
  <2>2. \A k \in Exits : status[k] \notin {"WORKING", "FILLED"}
    <3>1. status[1] = "WORKING"
      BY <1>1, <1>6
    <3> HIDE DEF released
    <3> QED
      BY <1>3, <2>1, <3>1 DEF Apart
  <2>3. \A k \in Exits : status'[k] # "FILLED"
    <3> HIDE DEF released
    <3> QED
      BY <1>2, <1>4, <2>1, <2>2
  <2>4. status'[1] = "FILLED"
    <3>1. n \notin released
      <4>1. \A k \in DOMAIN spec : 1 \notin Children(k)
        BY <1>3, Family
      <4>2. Children(n) \subseteq DOMAIN spec
        BY DEF Children
      <4> QED
        BY <1>4, <1>6, <4>1, <4>2 DEF Released
    <3> HIDE DEF released
    <3>2. status'[n] = "FILLED"
      BY <1>2, <2>1, <3>1
    <3> QED
      BY <1>6, <3>2
  <2> QED
    BY <1>1, <1>3, <1>4, <2>3, <2>4 DEF PreviewInv, Apart
<1>7. CASE n \in Exits
  <2>1. Siblings(n) = Exits \ {n} /\ released = {} /\ 1 \notin Exits /\ 1 \in DOMAIN spec
    BY <1>3, <1>7, Family
  <2> HIDE DEF released
  <2>2. \A k \in Exits \ {n} : status'[k] = "CANCELED"
    BY <1>2, <1>4, <2>1
  <2>3. status'[1] = status[1]
    BY <1>2, <1>4, <1>7, <2>1
  <2>4. spec[1].strategy = "TRIGGER" => status[1] = "FILLED"
    BY <1>1, <1>3, <1>7 DEF Apart
  <2>5. Apart'
    BY <1>1, <1>4, <2>2, <2>3, <2>4 DEF Apart
  <2> QED
    BY <1>1, <1>3, <2>5 DEF PreviewInv
<1> QED
  BY <1>5, <1>6, <1>7

LEMMA PreviewStep == PreviewInv /\ [Next]_vars => PreviewInv'
<1> SUFFICES ASSUME PreviewInv, [Next]_vars PROVE PreviewInv'
  OBVIOUS
<1>1. CASE GetOrders \/ QueryStatus \/ QueryAll \/ \E n \in DOMAIN status : Move(n)
  <2>1. UNCHANGED <<call, spec>> /\ phase' \in {"listing", "listed", "raised"}
    BY <1>1 DEF GetOrders, QueryStatus, QueryAll, Move
  <2> QED
    BY <2>1 DEF PreviewInv
<1>2. CASE UNCHANGED vars
  BY <1>2 DEF vars, PreviewInv, Doubts, Apart, Exits, Root, IsOco, ToSet
<1> QED
  BY <1>1, <1>2, PreviewPrepared, PreviewCheckAsset, PreviewPreview, PreviewPlace, PreviewFill
  DEF Next

\* No preview of an equity that Schwab's order endpoint rejects reaches Schwab,
\* unless the lookup of its symbol could not answer.
THEOREM EquitiesAreVetted == Spec => []Vetted
<1>1. PreviewInv => Vetted
  BY DEF PreviewInv, Vetted, Doubts
<1> QED
  BY <1>1, PreviewInit, PreviewStep, PTL DEF Spec

\* Every amount a caller gave is in the specification the reviewer is shown.
THEOREM AmountsAreKept == Spec => []NothingDropped
<1>1. PreviewInv => NothingDropped
  <2>1. Exits = ExitsOf(spec)
    BY DEF Exits, ExitsOf, Root, IsOco
  <2> QED
    BY <2>1 DEF PreviewInv, NothingDropped, Kept
<1> QED
  BY <1>1, PreviewInit, PreviewStep, PTL DEF Spec

\* Of two exits at most one fills, and none works before its entry has filled.
THEOREM ExitsAreExclusive == Spec => []ExitsExclusive
<1>1. PreviewInv => ExitsExclusive
  <2> SUFFICES ASSUME PreviewInv, phase = "placed" PROVE ExitsExclusive
    BY DEF ExitsExclusive
  <2>1. Apart
    BY DEF PreviewInv
  <2>2. \A j, k \in Filled(Exits) : j = k
    BY <2>1 DEF Apart, Filled
  <2>3. Cardinality(Filled(Exits)) <= 1
    <3>1. CASE Filled(Exits) = {}
      BY <3>1, FS_EmptySet
    <3>2. CASE Filled(Exits) # {}
      <4>1. PICK x : Filled(Exits) = {x}
        BY <2>2, <3>2
      <4> QED
        BY <4>1, FS_Singleton
    <3> QED
      BY <3>1, <3>2
  <2> QED
    BY <2>1, <2>3 DEF Apart, ExitsExclusive
<1> QED
  BY <1>1, PreviewInit, PreviewStep, PTL DEF Spec
=============================================================================
