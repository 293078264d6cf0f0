------------------------------ MODULE CloneProofs ------------------------------
(* What is proved of Clone: its type invariant, and that nothing is made before *)
(* what it lives in and what it refers to.                                      *)
EXTENDS Clone, FiniteSetTheorems, TLAPS

-------------------------------------------------------------------------------
(* Workloads, lists and templates                                               *)

Workload == [v2: BOOLEAN, linked: BOOLEAN, extensions: SUBSET Extension,
             source: Instance, refers: [Referrer -> SUBSET Resource],
             editable: SUBSET ListedKind]

LEMMA EntryTyped ==
  ASSUME NEW S, NEW q \in Seq(S), NEW i \in 1 .. Len(q)
  PROVE  q[i] \in S
  OBVIOUS

LEMMA ConcatTyped ==
  ASSUME NEW S, NEW a \in Seq(S), NEW b \in Seq(S)
  PROVE  a \o b \in Seq(S) /\ Len(a \o b) = Len(a) + Len(b)
  OBVIOUS

LEMMA WorkTyped ==
  ASSUME chosen \in 1 .. Len(Workloads)
  PROVE  /\ work \in Workload
         /\ work.v2 \in BOOLEAN /\ work.linked \in BOOLEAN
         /\ work.extensions \subseteq Extension /\ work.source \in Instance
         /\ work.editable \subseteq ListedKind
  <1>1. Workloads \in Seq(Workload)
    BY WorkloadAssumption, Zenon DEF Workload
  <1>2. work \in Workload
    BY <1>1, EntryTyped, Zenon DEF work
  <1> QED BY <1>2 DEF Workload

(* What a resource refers to is of the kinds that its kind refers to.           *)
LEMMA WorkRefers ==
  ASSUME chosen \in 1 .. Len(Workloads), NEW r \in Referrer, NEW d \in work.refers[r]
  PROVE  d \in Resource /\ d[1] \in RefersTo(r[1])
  <1>1. work \in Workload
    BY WorkTyped
  <1>2. work \in Range(Workloads)
    BY WorkloadAssumption DEF work, Range
  <1>3. d[1] \in RefersTo(r[1])
    BY <1>2, ReferenceAssumption
  <1>4. work.refers \in [Referrer -> SUBSET Resource]
    BY <1>1 DEF Workload
  <1> QED BY <1>3, <1>4

LEMMA ListOrderTyped ==
  ASSUME NEW b \in BOOLEAN
  PROVE  /\ 0 \in 0 .. Len(ListOrder(TRUE))
         /\ \A i \in Nat : i < Len(ListOrder(b)) =>
               ListOrder(b)[i + 1] \in ListedKind /\ i + 1 \in 0 .. Len(ListOrder(TRUE))
  <1> DEFINE A == <<"authn", "authz", "listener", "dataflowEndpoint", "dataflowProfile",
                    "dataflow", "secretProviderClass", "secretSync",
                    "assetEndpointProfile", "asset">>
             B == <<"connectorTemplate", "registryEndpoint", "namespaceDevice",
                    "namespaceAsset">>
  <1>1. A \in Seq(ListedKind) /\ Len(A) = 10
    BY DEF ListedKind, PagedKind
  <1>2. B \in Seq(ListedKind) /\ Len(B) = 4
    BY DEF ListedKind, PagedKind
  <1>3. PICK E \in Seq(ListedKind) : E = << >> /\ Len(E) = 0
    <2>1. << >> \in Seq(ListedKind) /\ Len(<< >>) = 0
      OBVIOUS
    <2> QED BY <2>1, Zenon
  <1>4. ListOrder(TRUE) = A \o B /\ ListOrder(FALSE) = A \o E
    BY <1>3, Zenon DEF ListOrder
  <1> HIDE DEF A, B
  <1>5. A \o B \in Seq(ListedKind) /\ Len(A \o B) = Len(A) + Len(B)
    BY <1>1, <1>2, ConcatTyped, Zenon
  <1>6. A \o E \in Seq(ListedKind) /\ Len(A \o E) = Len(A) + Len(E)
    BY <1>1, ConcatTyped, Zenon
  <1>7. PICK L \in Seq(ListedKind) : L = ListOrder(TRUE) /\ Len(L) = Len(A) + Len(B)
    BY <1>4, <1>5, Zenon
  <1>8. PICK M \in Seq(ListedKind) : M = ListOrder(FALSE) /\ Len(M) = Len(A) + Len(E)
    BY <1>4, <1>6, Zenon
  <1>9. Len(M) <= Len(L) /\ Len(L) <= Len(L)
    <2>1. Len(L) = 10 + 4 /\ Len(M) = 10 + 0
      BY <1>1, <1>2, <1>3, <1>7, <1>8, Zenon
    <2> QED BY <2>1
  <1>10. PICK F \in Seq(ListedKind) : F = ListOrder(b) /\ Len(F) <= Len(L)
    <2>1. CASE b = TRUE BY <1>7, <1>9, <2>1, Zenon
    <2>2. CASE b = FALSE BY <1>8, <1>9, <2>2, Zenon
    <2> QED BY <2>1, <2>2
  <1>11. 0 \in 0 .. Len(L)
    OBVIOUS
  <1>12. ASSUME NEW i \in Nat, i < Len(F)
         PROVE  F[i + 1] \in ListedKind /\ i + 1 \in 0 .. Len(L)
    BY <1>10, <1>12
  <1> QED BY <1>7, <1>10, <1>11, <1>12, Zenon

LEMMA NothingRead == 0 \in 0 .. Len(ListOrder(TRUE))
  BY ListOrderTyped, Zenon

Pieces   == (SUBSET (Name \cup {"root"})) \ {{}}
Template == [Kind -> Seq(Pieces)]

(* A template as TypeOK describes it.                                           *)
Cut(t) ==
    \A k \in Kind : \A c \in Range(t[k]) :
        /\ c # {} /\ c \subseteq Name \cup {"root"}
        /\ k \in ListedKind => Cardinality(c) <= ChunkLen

LEMMA NothingTyped == Nothing \in Template /\ Cut(Nothing)
  BY DEF Nothing, Template, Cut, Range

LEMMA ChunksTyped ==
  ASSUME NEW names \in SUBSET Name, NEW q \in Chunks(names)
  PROVE  /\ q \in Seq(Pieces)
         /\ \A c \in Range(q) :
               c # {} /\ c \subseteq Name \cup {"root"} /\ Cardinality(c) <= ChunkLen
  <1>1. IsFiniteSet(names)
    BY NameAssumption, FS_Subset
  <1>2. Cardinality(names) \in Nat
    BY <1>1, FS_CardinalityType
  <1>3. PICK n \in 0 .. Cardinality(names) :
          /\ q \in [1 .. n -> (SUBSET names) \ {{}}]
          /\ \A i \in 1 .. n : Cardinality(q[i]) <= ChunkLen
    BY DEF Chunks
  <1>4. n \in Nat
    BY <1>2, <1>3
  <1>5. q \in [1 .. n -> Pieces]
    BY <1>3 DEF Pieces
  <1>6. q \in Seq(Pieces)
    BY <1>4, <1>5
  <1>7. \A c \in Range(q) : \E i \in 1 .. n : c = q[i]
    BY <1>3 DEF Range
  <1> QED BY <1>3, <1>6, <1>7

LEMMA ListedNames ==
  ASSUME source \in Instance, NEW kind \in ListedKind
  PROVE  Listed(kind) \in SUBSET Name
  <1>1. \A k \in ListedKind : source[k] \in SUBSET Name
    BY DEF Instance
  <1>2. {"dataflow", "secretSync", "asset", "namespaceAsset"} \subseteq ListedKind
    BY DEF ListedKind, PagedKind
  <1> QED
    BY <1>1, <1>2 DEF Listed, Dataflows, SecretSyncs, Assets, NamespaceAssets

LEMMA LastIsHeld ==
  ASSUME NEW t \in Template, NEW k \in Kind, NEW r \in LastOf(t, k)
  PROVE  r[1] = k /\ r[2] \in Held(t, k) /\ r = <<k, r[2]>> /\ Has(t, k)
  <1>1. t[k] \in Seq(Pieces)
    BY DEF Template
  <1>2. Has(t, k) /\ r \in {k} \X Last(t[k])
    BY DEF LastOf
  <1>3. Len(t[k]) \in DOMAIN t[k]
    BY <1>1, <1>2 DEF Has
  <1>4. Last(t[k]) \in Range(t[k])
    BY <1>3 DEF Last, Range
  <1> QED BY <1>2, <1>4 DEF Held

(* The last deployment of a kind holds something.                               *)
LEMMA LastHolds ==
  ASSUME NEW t \in Template, NEW k \in Kind, Has(t, k)
  PROVE  \E n : <<k, n>> \in LastOf(t, k)
  <1>1. t[k] \in Seq(Pieces)
    BY DEF Template
  <1>2. Len(t[k]) \in 1 .. Len(t[k])
    BY <1>1 DEF Has
  <1>3. Last(t[k]) \in Pieces
    BY <1>1, <1>2 DEF Last
  <1>4. PICK n : n \in Last(t[k])
    BY <1>3 DEF Pieces
  <1> QED BY <1>4 DEF LastOf

-------------------------------------------------------------------------------
(* Pages                                                                        *)

LEMMA ConcatEntries ==
  ASSUME NEW S, NEW a \in Seq(S), NEW b \in Seq(S)
  PROVE  /\ \A i \in 1 .. Len(a) : (a \o b)[i] = a[i]
         /\ \A i \in 1 .. Len(b) : (a \o b)[Len(a) + i] = b[i]
  OBVIOUS

Parts(q, a, b) ==
    /\ Len(q) = Len(a) + Len(b)
    /\ \A i \in 1 .. Len(q) :
          /\ i <= Len(a) => q[i] = a[i]
          /\ i > Len(a) => \E j \in 1 .. Len(b) : q[i] = b[j]

LEMMA TwoParts ==
  ASSUME NEW S, NEW a \in Seq(S), NEW b \in Seq(S)
  PROVE  \E q \in Seq(S) : q = a \o b /\ Parts(q, a, b)
  <1>1. Len(a \o b) = Len(a) + Len(b) /\ Len(a) \in Nat /\ Len(b) \in Nat
    BY ConcatTyped
  <1>2. ASSUME NEW i \in 1 .. Len(a \o b)
        PROVE  /\ i <= Len(a) => (a \o b)[i] = a[i]
               /\ i > Len(a) => \E j \in 1 .. Len(b) : (a \o b)[i] = b[j]
    <2>1. ASSUME i <= Len(a) PROVE (a \o b)[i] = a[i]
      <3>1. i \in 1 .. Len(a) BY <1>1, <2>1
      <3> QED BY <3>1, ConcatEntries, Zenon
    <2>2. ASSUME i > Len(a) PROVE \E j \in 1 .. Len(b) : (a \o b)[i] = b[j]
      <3>1. \E j \in 1 .. Len(b) : Len(a) + j = i
        <4>1. i - Len(a) \in 1 .. Len(b) /\ Len(a) + (i - Len(a)) = i BY <1>1, <2>2
        <4> QED BY <4>1
      <3>2. PICK j \in 1 .. Len(b) : Len(a) + j = i
        BY <3>1, Zenon
      <3>3. (a \o b)[i] = b[j]
        <4>1. (a \o b)[Len(a) + j] = b[j] BY ConcatEntries
        <4> QED BY <3>2, <4>1
      <3> QED BY <3>3, Zenon
    <2> QED BY <2>1, <2>2
  <1>3. Parts(a \o b, a, b)
    BY <1>1, <1>2, Zenon DEF Parts
  <1> QED BY <1>3, ConcatTyped, Zenon

(* Where an entry of four sequences after one another comes from.               *)
Assembled(q, a, b, c, d) ==
    \A i \in 1 .. Len(q) :
       \/ i <= Len(a) /\ q[i] = a[i]
       \/ i > Len(a) /\ \E j \in 1 .. Len(b) : q[i] = b[j]
       \/ i > Len(a) /\ \E j \in 1 .. Len(c) : q[i] = c[j]
       \/ i > Len(a) /\ \E j \in 1 .. Len(d) : q[i] = d[j]

LEMMA FourParts ==
  ASSUME NEW S, NEW a \in Seq(S), NEW b \in Seq(S), NEW c \in Seq(S), NEW d \in Seq(S),
         NEW q, q = a \o b \o c \o d
  PROVE  q \in Seq(S) /\ Assembled(q, a, b, c, d)
  <1>1. PICK ab \in Seq(S) : ab = a \o b /\ Parts(ab, a, b)
    BY TwoParts, Zenon
  <1>2. PICK abc \in Seq(S) : abc = ab \o c /\ Parts(abc, ab, c)
    BY TwoParts, Zenon
  <1>3. PICK e \in Seq(S) : e = abc \o d /\ Parts(e, abc, d)
    BY TwoParts, Zenon
  <1>4. q = e
    BY <1>1, <1>2, <1>3, Zenon
  <1>5. Len(a) \in Nat /\ Len(b) \in Nat /\ Len(c) \in Nat /\ Len(d) \in Nat
    OBVIOUS
  <1>6. Len(e) = Len(a) + Len(b) + Len(c) + Len(d)
    BY <1>1, <1>2, <1>3 DEF Parts
  <1>7. ASSUME NEW i \in 1 .. Len(e)
        PROVE  \/ i <= Len(a) /\ e[i] = a[i]
               \/ i > Len(a) /\ \E j \in 1 .. Len(b) : e[i] = b[j]
               \/ i > Len(a) /\ \E j \in 1 .. Len(c) : e[i] = c[j]
               \/ i > Len(a) /\ \E j \in 1 .. Len(d) : e[i] = d[j]
    <2>1. Len(abc) = Len(a) + Len(b) + Len(c) /\ Len(ab) = Len(a) + Len(b)
      BY <1>1, <1>2 DEF Parts
    <2>2. CASE i > Len(abc)
      <3>1. i > Len(a) BY <1>5, <2>1, <2>2
      <3> QED BY <1>3, <2>2, <3>1, Zenon DEF Parts
    <2>3. CASE i <= Len(abc) /\ i > Len(ab)
      <3>1. i > Len(a) /\ i \in 1 .. Len(abc) BY <1>5, <2>1, <2>3
      <3>2. e[i] = abc[i]
        BY <1>3, <2>3, <3>1, Zenon DEF Parts
      <3>3. \E j \in 1 .. Len(c) : abc[i] = c[j]
        BY <1>2, <2>3, <3>1, Zenon DEF Parts
      <3> QED BY <3>1, <3>2, <3>3
    <2>4. CASE i <= Len(ab) /\ i > Len(a)
      <3>1. i <= Len(abc) /\ i \in 1 .. Len(abc) /\ i \in 1 .. Len(ab) BY <1>5, <2>1, <2>4
      <3>2. e[i] = abc[i]
        BY <1>3, <3>1, Zenon DEF Parts
      <3>3. abc[i] = ab[i]
        BY <1>2, <2>4, <3>1, Zenon DEF Parts
      <3>4. \E j \in 1 .. Len(b) : ab[i] = b[j]
        BY <1>1, <2>4, <3>1, Zenon DEF Parts
      <3> QED BY <2>4, <3>2, <3>3, <3>4
    <2>5. CASE i <= Len(a)
      <3>1. i <= Len(abc) /\ i <= Len(ab) /\ i \in 1 .. Len(abc) /\ i \in 1 .. Len(ab)
        BY <1>5, <2>1, <2>5
      <3>2. e[i] = abc[i]
        BY <1>3, <3>1, Zenon DEF Parts
      <3>3. abc[i] = ab[i]
        BY <1>2, <3>1, Zenon DEF Parts
      <3>4. ab[i] = a[i]
        BY <1>1, <2>5, <3>1, Zenon DEF Parts
      <3> QED BY <2>5, <3>2, <3>3, <3>4
    <2> QED BY <1>5, <2>1, <2>2, <2>3, <2>4, <2>5
  <1> QED BY <1>4, <1>7, Zenon DEF Assembled

PagesOf(t, k) == [i \in 1 .. Len(t[k]) |-> {k} \X t[k][i]]

LEMMA PagesOfTyped ==
  ASSUME NEW t \in Template, NEW k \in Kind
  PROVE  /\ PagesOf(t, k) \in Seq(SUBSET Made) /\ Len(PagesOf(t, k)) = Len(t[k])
         /\ \A i \in 1 .. Len(t[k]) :
               PagesOf(t, k)[i] = {k} \X t[k][i] /\ t[k][i] \in Range(t[k])
  <1>1. t[k] \in Seq(Pieces) /\ Len(t[k]) \in Nat
    BY DEF Template
  <1>2. \A i \in 1 .. Len(t[k]) : t[k][i] \in SUBSET (Name \cup {"root"})
    BY <1>1 DEF Pieces
  <1>3. PagesOf(t, k) \in [1 .. Len(t[k]) -> SUBSET Made]
    BY <1>2 DEF PagesOf, Made
  <1>4. PagesOf(t, k) \in Seq(SUBSET Made) /\ Len(PagesOf(t, k)) = Len(t[k])
    BY <1>1, <1>3
  <1> QED BY <1>1, <1>4 DEF PagesOf, Range

LEMMA HeldTyped ==
  ASSUME NEW t \in Template, NEW k \in Kind
  PROVE  Held(t, k) \subseteq Name \cup {"root"}
  <1>1. t[k] \in Seq(Pieces)
    BY DEF Template
  <1> QED BY <1>1 DEF Held, Range, Pieces

LEMMA PagesTyped ==
  ASSUME chosen \in 1 .. Len(Workloads), NEW t \in Template
  PROVE  /\ Pages(t) \in Seq(SUBSET Made) /\ Len(Pages(t)) \in Nat \ {0}
         /\ Pages(t)[1] = RootPage(t)
         /\ \A i \in 2 .. Len(Pages(t)) :
              \/ \E j \in 1 .. Len(t["assetEndpointProfile"]) :
                    i = j + 1 /\ Pages(t)[i] = {"assetEndpointProfile"}
                                                 \X t["assetEndpointProfile"][j]
              \/ /\ i > Len(t["assetEndpointProfile"]) + 1
                 /\ \E k \in PagedKind \ {"assetEndpointProfile"} :
                       \E c \in Range(t[k]) : Pages(t)[i] = {k} \X c
  <1> DEFINE A == PagesOf(t, "assetEndpointProfile")
             B == PagesOf(t, "asset")
             C == PagesOf(t, "namespaceDevice")
             D == PagesOf(t, "namespaceAsset")
             From(i) ==
               \/ \E j \in 1 .. Len(t["assetEndpointProfile"]) :
                     i = j /\ Split(t)[i] = {"assetEndpointProfile"}
                                              \X t["assetEndpointProfile"][j]
               \/ /\ i > Len(t["assetEndpointProfile"])
                  /\ \E k \in PagedKind \ {"assetEndpointProfile"} :
                        \E c \in Range(t[k]) : Split(t)[i] = {k} \X c
  <1>1. /\ A \in Seq(SUBSET Made) /\ B \in Seq(SUBSET Made)
        /\ C \in Seq(SUBSET Made) /\ D \in Seq(SUBSET Made)
    BY PagesOfTyped DEF Kind, ListedKind, PagedKind
  <1>2. Split(t) \in Seq(SUBSET Made) /\ \A i \in 1 .. Len(Split(t)) : From(i)
    <2>1. CASE work.linked
      <3>1. Split(t) = A \o B \o C \o D
        BY <2>1, Zenon DEF Split, PagesOf
      <3>2. Split(t) \in Seq(SUBSET Made) /\ Assembled(Split(t), A, B, C, D)
        BY <1>1, <3>1, FourParts, Zenon
      <3>3. ASSUME NEW i \in 1 .. Len(Split(t)) PROVE From(i)
        <4>1. \/ i <= Len(A) /\ Split(t)[i] = A[i]
              \/ i > Len(A) /\ \E j \in 1 .. Len(B) : Split(t)[i] = B[j]
              \/ i > Len(A) /\ \E j \in 1 .. Len(C) : Split(t)[i] = C[j]
              \/ i > Len(A) /\ \E j \in 1 .. Len(D) : Split(t)[i] = D[j]
          BY <3>2, Zenon DEF Assembled
        <4>2. \A k \in PagedKind : k \in Kind
          BY DEF Kind, ListedKind
        <4>3. \A k \in PagedKind :
                /\ Len(PagesOf(t, k)) = Len(t[k])
                /\ \A j \in 1 .. Len(t[k]) :
                      PagesOf(t, k)[j] = {k} \X t[k][j] /\ t[k][j] \in Range(t[k])
          BY <4>2, PagesOfTyped, Zenon
        <4>4. "assetEndpointProfile" \in PagedKind
              /\ {"asset", "namespaceDevice", "namespaceAsset"}
                   \subseteq PagedKind \ {"assetEndpointProfile"}
          BY DEF PagedKind
        <4>5. Len(A) = Len(t["assetEndpointProfile"])
          BY <4>3, <4>4
        <4>6. CASE i <= Len(A) /\ Split(t)[i] = A[i]
          BY <4>3, <4>4, <4>5, <4>6
        <4>7. ASSUME NEW k \in PagedKind \ {"assetEndpointProfile"}, i > Len(A),
                     \E j \in 1 .. Len(PagesOf(t, k)) : Split(t)[i] = PagesOf(t, k)[j]
              PROVE  From(i)
          <5>1. PICK j \in 1 .. Len(PagesOf(t, k)) : Split(t)[i] = PagesOf(t, k)[j]
            BY <4>7, Zenon
          <5>2. /\ PagesOf(t, k)[j] = {k} \X t[k][j] /\ t[k][j] \in Range(t[k])
                /\ i > Len(t["assetEndpointProfile"])
            BY <4>3, <4>5, <4>7, <5>1, Zenon
          <5> QED BY <5>1, <5>2, Zenon
        <4>8. /\ "asset" \in PagedKind \ {"assetEndpointProfile"}
              /\ "namespaceDevice" \in PagedKind \ {"assetEndpointProfile"}
              /\ "namespaceAsset" \in PagedKind \ {"assetEndpointProfile"}
          BY <4>4
        <4> HIDE DEF From
        <4> QED BY <4>1, <4>6, <4>7, <4>8, Zenon
      <3> QED BY <3>2, <3>3
    <2>2. CASE ~work.linked
      <3>1. Split(t) = << >>
        BY <2>2 DEF Split
      <3> QED BY <3>1
    <2> QED BY <2>1, <2>2
  <1>3. RootPage(t) \in SUBSET Made
    BY HeldTyped DEF RootPage, Made
  <1>4. Pages(t) = <<RootPage(t)>> \o Split(t)
    BY DEF Pages
  <1> HIDE DEF From
  <1>5. /\ Pages(t) \in Seq(SUBSET Made) /\ Len(Pages(t)) = Len(Split(t)) + 1
        /\ Pages(t)[1] = RootPage(t)
        /\ \A i \in 2 .. Len(Pages(t)) : Pages(t)[i] = Split(t)[i - 1]
    BY <1>2, <1>3, <1>4
  <1>6. Len(Split(t)) \in Nat /\ Len(t["assetEndpointProfile"]) \in Nat
    BY <1>2 DEF Template, Kind, ListedKind, PagedKind
  <1>7. ASSUME NEW i \in 2 .. Len(Pages(t))
        PROVE  \/ \E j \in 1 .. Len(t["assetEndpointProfile"]) :
                    i = j + 1 /\ Pages(t)[i] = {"assetEndpointProfile"}
                                                 \X t["assetEndpointProfile"][j]
               \/ /\ i > Len(t["assetEndpointProfile"]) + 1
                  /\ \E k \in PagedKind \ {"assetEndpointProfile"} :
                        \E c \in Range(t[k]) : Pages(t)[i] = {k} \X c
    <2>1. i - 1 \in 1 .. Len(Split(t)) /\ Pages(t)[i] = Split(t)[i - 1]
      BY <1>5, <1>6
    <2>2. From(i - 1)
      BY <1>2, <2>1
    <2>3. CASE \E j \in 1 .. Len(t["assetEndpointProfile"]) :
                 i - 1 = j /\ Split(t)[i - 1] = {"assetEndpointProfile"}
                                                  \X t["assetEndpointProfile"][j]
      <3>1. PICK j \in 1 .. Len(t["assetEndpointProfile"]) :
              i - 1 = j /\ Split(t)[i - 1] = {"assetEndpointProfile"}
                                               \X t["assetEndpointProfile"][j]
        BY <2>3
      <3>2. i = j + 1
        BY <3>1
      <3> QED BY <2>1, <3>1, <3>2, Zenon
    <2>4. CASE /\ i - 1 > Len(t["assetEndpointProfile"])
               /\ \E k \in PagedKind \ {"assetEndpointProfile"} :
                     \E c \in Range(t[k]) : Split(t)[i - 1] = {k} \X c
      <3>1. i > Len(t["assetEndpointProfile"]) + 1
        BY <1>6, <2>4
      <3> QED BY <2>1, <2>4, <3>1, Zenon
    <2> QED BY <2>2, <2>3, <2>4, Zenon DEF From
  <1>8. Len(Pages(t)) \in Nat \ {0}
    BY <1>5, <1>6
  <1> QED BY <1>5, <1>7, <1>8, Zenon

-------------------------------------------------------------------------------
(* The inductive invariant                                                      *)

(* What every capture has.                                                      *)
Rooted(t) == \A k \in Root \ Extension : t[k] = <<{"root"}>>

(* A template has what it lists resources of a kind below.                      *)
Backed(t) ==
    /\ Has(t, "dataflow") => Has(t, "dataflowProfile")
    /\ Has(t, "secretSync") => Has(t, "secretProviderClass")
    /\ Has(t, "asset") => Has(t, "assetEndpointProfile")
    /\ Has(t, "namespaceAsset") => Has(t, "namespaceDevice")

Typed ==
    /\ TypeOK
    /\ captured \in Template /\ sent \in Template

Capturing == pc # "idle" => Rooted(captured)

Founded ==
    \/ sent = Nothing /\ pending = {}
    \/ Rooted(sent) /\ Backed(sent)

(* What was submitted first is made, can still be, or could not be.             *)
Accounted == RootPage(sent) \subseteq pending \cup failed \cup target

(* The pages of its own that a kind has come after those it refers to.          *)
PagesAfter ==
    \A r \in pending :
       /\ ~InPages(r[1]) => Has(sent, r[1])
       /\ InPages(r[1]) =>
             /\ r[1] \in {"assetEndpointProfile", "asset"}
             /\ RootPage(sent) \subseteq target
             /\ r[1] = "asset" =>
                   \A c \in Range(sent["assetEndpointProfile"]) :
                      {"assetEndpointProfile"} \X c \subseteq target

Deployed(n) == \A i \in 1 .. n : Pages(sent)[i] \subseteq target

Paging ==
    /\ pc = "submit" /\ page # 0 =>
          sent = captured /\ page < Len(Pages(sent)) /\ Deployed(page)
    /\ pc = "await" =>
          /\ sent = captured /\ page \in 1 .. Len(Pages(sent)) /\ Deployed(page - 1)
          /\ Pages(sent)[page] \subseteq pending \cup failed \cup target

(* Only a listener can be there before the instance is; authentications and     *)
(* authorizations come after the broker.                                        *)
Landed ==
    \A x \in target :
       /\ x[1] \in (ListedKind \ {"listener"}) \cup {"broker"} => <<"instance", "root">> \in target
       /\ x[1] \in {"authn", "authz"} => <<"broker", "root">> \in target

IInv ==
    Typed /\ Capturing /\ Founded /\ Accounted /\ PagesAfter /\ Paging /\ Landed

LEMMA RootPageHolds ==
  ASSUME NEW t \in Template, NEW k \in Kind, ~InPages(k), NEW n \in Held(t, k)
  PROVE  <<k, n>> \in RootPage(t)
  BY DEF RootPage

(* What a resource that can be made waits for is there.                         *)
LEMMA Waited ==
  ASSUME IInv, NEW r \in pending, Ready(r), ~InPages(r[1]),
         NEW k \in DependsOn(sent, r[1]), k \in Kind, ~InPages(k), NEW d \in LastOf(sent, k)
  PROVE  d \in target
  <1>1. d \in RootPage(sent)
    BY LastIsHeld, RootPageHolds DEF IInv, Typed
  <1>2. d \notin pending \cup failed
    BY DEF Ready
  <1> QED BY <1>1, <1>2 DEF IInv, Accounted

LEMMA InstanceIsSent ==
  ASSUME IInv, NEW r \in pending
  PROVE  /\ Rooted(sent) /\ Backed(sent)
         /\ \A k \in Root \ Extension :
               ~InPages(k) /\ <<k, "root">> \in LastOf(sent, k) /\ <<k, "root">> \in RootPage(sent)
  <1>1. Rooted(sent) /\ Backed(sent)
    BY DEF IInv, Founded
  <1>2. ASSUME NEW k \in Root \ Extension
        PROVE  ~InPages(k) /\ <<k, "root">> \in LastOf(sent, k) /\ <<k, "root">> \in RootPage(sent)
    <2>1. sent[k] = <<{"root"}>> /\ k \in Kind
      BY <1>1 DEF Rooted, Kind
    <2>2. ~InPages(k)
      BY DEF InPages, Root, Extension, PagedKind
    <2>3. <<k, "root">> \in LastOf(sent, k)
      BY <2>1 DEF LastOf, Has, Last
    <2>4. "root" \in Held(sent, k)
      BY <2>1, <2>3, LastIsHeld DEF IInv, Typed
    <2> QED BY <2>1, <2>2, <2>3, <2>4, RootPageHolds DEF IInv, Typed
  <1> QED BY <1>1, <1>2

(* What lives in the instance is not made before it.                            *)
LEMMA InstanceFirst ==
  ASSUME IInv, NEW r \in pending, Ready(r),
         r[1] \in (ListedKind \ {"listener"}) \cup {"broker"}
  PROVE  <<"instance", "root">> \in target
  <1>1. /\ "instance" \in Root \ Extension /\ "broker" \in Root \ Extension
        /\ "instance" \in Kind /\ "broker" \in Kind
    BY DEF Root, Extension, Kind
  <1>2. /\ <<"instance", "root">> \in LastOf(sent, "instance")
        /\ <<"broker", "root">> \in LastOf(sent, "broker")
        /\ <<"instance", "root">> \in RootPage(sent)
        /\ ~InPages("instance") /\ ~InPages("broker") /\ Backed(sent)
    BY <1>1, InstanceIsSent
  <1>3. CASE InPages(r[1])
    BY <1>2, <1>3 DEF IInv, PagesAfter
  <1>4. CASE ~InPages(r[1]) /\ "instance" \in DependsOn(sent, r[1])
    BY <1>1, <1>2, <1>4, Waited
  <1>5. ASSUME ~InPages(r[1]), NEW k \in DependsOn(sent, r[1]),
               k \in (ListedKind \ {"listener"}) \cup {"broker"}, ~InPages(k), Has(sent, k)
        PROVE  <<"instance", "root">> \in target
    <2>1. k \in Kind
      BY <1>5 DEF Kind, Root
    <2>2. PICK n : <<k, n>> \in LastOf(sent, k)
      BY <1>5, <2>1, LastHolds DEF IInv, Typed
    <2>3. <<k, n>> \in target
      BY <1>5, <2>1, <2>2, Waited
    <2> QED BY <1>5, <2>3 DEF IInv, Landed
  <1>6. Has(sent, "broker")
    BY <1>2 DEF LastOf
  <1>7. ~InPages(r[1]) => Has(sent, r[1])
    BY DEF IInv, PagesAfter
  <1>8. CASE ~InPages(r[1]) /\ r[1] \in {"authn", "authz"}
    <2>1. "broker" \in DependsOn(sent, r[1])
      BY <1>8 DEF DependsOn, Extension
    <2> QED BY <1>2, <1>5, <1>6, <1>8, <2>1
  <1>9. CASE ~InPages(r[1]) /\ r[1] = "dataflow"
    <2>1. "dataflowProfile" \in DependsOn(sent, r[1])
      BY <1>9 DEF DependsOn, DataflowDependsOn, Extension
    <2>2. Has(sent, "dataflowProfile")
      BY <1>2, <1>7, <1>9 DEF Backed
    <2>3. ~InPages("dataflowProfile") /\ "dataflowProfile" \in ListedKind \ {"listener"}
      BY DEF InPages, ListedKind, PagedKind
    <2> QED BY <1>5, <1>9, <2>1, <2>2, <2>3
  <1>10. CASE ~InPages(r[1]) /\ r[1] = "secretSync"
    <2>1. "secretProviderClass" \in DependsOn(sent, r[1])
      BY <1>10 DEF DependsOn, Extension
    <2>2. Has(sent, "secretProviderClass")
      BY <1>2, <1>7, <1>10 DEF Backed
    <2>3. ~InPages("secretProviderClass") /\ "secretProviderClass" \in ListedKind \ {"listener"}
      BY DEF InPages, ListedKind, PagedKind
    <2> QED BY <1>5, <1>10, <2>1, <2>2, <2>3
  <1>11. CASE ~InPages(r[1]) /\ r[1] = "asset"
    <2>1. "assetEndpointProfile" \in DependsOn(sent, r[1])
      BY <1>11 DEF DependsOn, Extension
    <2>2. Has(sent, "assetEndpointProfile")
      BY <1>2, <1>7, <1>11 DEF Backed
    <2>3. ~InPages("assetEndpointProfile") /\ "assetEndpointProfile" \in ListedKind \ {"listener"}
      BY <1>11 DEF InPages, ListedKind, PagedKind
    <2> QED BY <1>5, <1>11, <2>1, <2>2, <2>3
  <1>12. CASE ~InPages(r[1]) /\ r[1] = "namespaceAsset"
    <2>1. "namespaceDevice" \in DependsOn(sent, r[1])
      BY <1>12 DEF DependsOn, Extension
    <2>2. Has(sent, "namespaceDevice")
      BY <1>2, <1>7, <1>12 DEF Backed
    <2>3. ~InPages("namespaceDevice") /\ "namespaceDevice" \in ListedKind \ {"listener"}
      BY <1>12 DEF InPages, ListedKind, PagedKind
    <2> QED BY <1>5, <1>12, <2>1, <2>2, <2>3
  <1>13. ASSUME r[1] \notin {"authn", "authz", "dataflow", "secretSync", "asset",
                             "namespaceAsset"}
         PROVE  "instance" \in DependsOn(sent, r[1])
    BY <1>13 DEF DependsOn, Extension, ListedKind, PagedKind
  <1> QED BY <1>3, <1>4, <1>8, <1>9, <1>10, <1>11, <1>12, <1>13

(* An authentication or an authorization waits for the broker, a listener for   *)
(* those that there are.                                                        *)
LEMMA BrokerFirst ==
  ASSUME IInv, NEW r \in pending, Ready(r), r[1] \in {"authn", "authz"}
  PROVE  <<"broker", "root">> \in target
  <1>1. "broker" \in Root \ Extension /\ "broker" \in Kind
    BY DEF Root, Extension, Kind
  <1>2. ~InPages("broker") /\ <<"broker", "root">> \in LastOf(sent, "broker")
    BY <1>1, InstanceIsSent
  <1>3. "broker" \in DependsOn(sent, r[1]) /\ ~InPages(r[1])
    BY DEF DependsOn, Extension, InPages, PagedKind
  <1> QED BY <1>1, <1>2, <1>3, Waited

LEMMA ListenerLater ==
  ASSUME IInv, NEW r \in pending, Ready(r), r[1] = "listener",
         Has(sent, "authn") \/ Has(sent, "authz")
  PROVE  <<"broker", "root">> \in target /\ <<"instance", "root">> \in target
  <1>1. PICK k \in {"authn", "authz"} : Has(sent, k)
    OBVIOUS
  <1>2. k \in Kind /\ k \in ListedKind \ {"listener"} /\ ~InPages(k) /\ ~InPages(r[1])
    BY DEF Kind, ListedKind, InPages, PagedKind
  <1>3. k \in DependsOn(sent, r[1])
    BY <1>1 DEF DependsOn, Extension
  <1>4. PICK n : <<k, n>> \in LastOf(sent, k)
    BY <1>1, <1>2, LastHolds DEF IInv, Typed
  <1>5. <<k, n>> \in target
    BY <1>2, <1>3, <1>4, Waited
  <1> QED BY <1>2, <1>5 DEF IInv, Landed

(* What a resource that can be made refers to is there.                         *)
LEMMA ReferencesAreThere ==
  ASSUME IInv, NEW r \in pending, Ready(r), r \in Referrer, NEW d \in work.refers[r],
         d \in LastOf(sent, d[1]), <<r[1], d[1]>> \notin Unordered
  PROVE  d \in target
  <1>1. chosen \in 1 .. Len(Workloads) /\ sent \in Template
    BY DEF IInv, Typed, TypeOK
  <1>2. d \in Resource /\ d[1] \in RefersTo(r[1]) /\ d[1] \in Kind
    BY <1>1, WorkRefers DEF Resource, Kind
  <1>3. r[1] \in ListedKind
    <2>1. r # <<"instance", "root">>
      BY <1>2 DEF RefersTo, Unordered
    <2> QED BY <2>1 DEF Referrer, Resource
  <1>4. \/ r[1] = "listener" /\ d[1] \in {"authn", "authz"}
        \/ r[1] = "dataflow" /\ d[1] \in {"dataflowProfile", "dataflowEndpoint"}
        \/ r[1] = "secretSync" /\ d[1] = "secretProviderClass"
        \/ r[1] = "asset" /\ d[1] = "assetEndpointProfile"
        \/ r[1] = "namespaceAsset" /\ d[1] = "namespaceDevice"
    BY <1>2, <1>3 DEF RefersTo, Unordered, ListedKind, PagedKind
  <1>5. CASE InPages(r[1])
    <2>1. r[1] = "asset" /\ d[1] = "assetEndpointProfile"
      BY <1>4, <1>5 DEF IInv, PagesAfter
    <2>2. d[2] \in Held(sent, "assetEndpointProfile") /\ d = <<"assetEndpointProfile", d[2]>>
      BY <1>1, <1>2, <2>1, LastIsHeld
    <2>3. PICK c \in Range(sent["assetEndpointProfile"]) : d[2] \in c
      BY <2>2 DEF Held
    <2>4. {"assetEndpointProfile"} \X c \subseteq target
      BY <1>5, <2>1 DEF IInv, PagesAfter
    <2>5. d \in {"assetEndpointProfile"} \X c
      BY <2>2, <2>3
    <2> QED BY <2>4, <2>5
  <1>6. CASE ~InPages(r[1])
    <2>1. Has(sent, d[1])
      BY <1>1, <1>2, LastIsHeld
    <2>2. d[1] \in DependsOn(sent, r[1])
      BY <1>4, <2>1 DEF DependsOn, DataflowDependsOn, Extension
    <2>3. ~InPages(d[1])
      BY <1>4, <1>6 DEF InPages, PagedKind
    <2> QED BY <1>2, <1>6, <2>2, <2>3, Waited
  <1> QED BY <1>5, <1>6

(* Nothing that can be made is missing what it needs.                           *)
LEMMA NeedsAreThere ==
  ASSUME IInv, NEW r \in pending, Ready(r), NEW d \in Needs(r), d \in LastOf(sent, d[1]),
         <<r[1], d[1]>> \notin Unordered
  PROVE  d \in target
  <1>1. r \in Made /\ r[1] \in Kind /\ sent \in Template
    BY DEF IInv, Typed, TypeOK, Made
  <1>2. CASE r \in Referrer /\ d \in work.refers[r]
    BY <1>2, ReferencesAreThere
  <1>3. CASE d = <<"instance", "root">>
             /\ r[1] \in (ListedKind \ {"listener"}) \cup {"broker"}
    BY <1>3, InstanceFirst
  <1>4. CASE r[1] \in {"authn", "authz"} /\ d = <<"broker", "root">>
    BY <1>4, BrokerFirst
  <1>5. CASE /\ r[1] = "listener" /\ d \in {<<"broker", "root">>, <<"instance", "root">>}
             /\ Has(sent, "authn") \/ Has(sent, "authz")
    BY <1>5, ListenerLater
  <1>6. ASSUME d[1] \in DependsOn(sent, r[1]), r[1] \in Root, d[1] \in Root
        PROVE  d \in target
    <2>1. ~InPages(r[1]) /\ ~InPages(d[1]) /\ d[1] \in Kind
      BY <1>6 DEF InPages, Root, Extension, PagedKind, Kind
    <2> QED BY <1>6, <2>1, Waited
  <1>7. CASE r[1] \in {"customLocation", "roleAssignment"} /\ d = <<"ops", "root">>
    <2>1. "ops" \in Kind /\ "ops" \in Root
      BY DEF Kind, Root, Extension
    <2>2. Has(sent, "ops")
      BY <1>1, <1>7, <2>1, LastIsHeld
    <2>3. "ops" \in DependsOn(sent, r[1])
      BY <1>7, <2>2 DEF DependsOn, Extension
    <2> QED BY <1>6, <1>7, <2>1, <2>3 DEF Root
  <1>8. CASE r[1] = "instance" /\ d = <<"customLocation", "root">>
    <2>1. "customLocation" \in DependsOn(sent, r[1])
      BY <1>8 DEF DependsOn, Extension
    <2> QED BY <1>6, <1>8, <2>1 DEF Root
  <1>9. \/ r \in Referrer /\ d \in work.refers[r]
        \/ r[1] \in {"customLocation", "roleAssignment"} /\ d = <<"ops", "root">>
        \/ r[1] = "instance" /\ d = <<"customLocation", "root">>
        \/ r[1] \in {"authn", "authz"} /\ d = <<"broker", "root">>
        \/ /\ r[1] = "listener" /\ d \in {<<"broker", "root">>, <<"instance", "root">>}
           /\ Has(sent, "authn") \/ Has(sent, "authz")
        \/ /\ d = <<"instance", "root">>
           /\ r[1] \in (ListedKind \ {"listener"}) \cup {"broker"}
    BY <1>1 DEF Needs, Kind, Root, ListedKind, PagedKind
  <1> QED BY <1>2, <1>3, <1>4, <1>5, <1>7, <1>8, <1>9

-------------------------------------------------------------------------------
(* Every step keeps it                                                          *)

LEMMA InitIInv == Init => IInv
  <1> SUFFICES ASSUME Init PROVE IInv
    OBVIOUS
  <1>1. RootPage(Nothing) = {}
    BY DEF RootPage, Held, Nothing, Range
  <1>2. Typed
    <2>1. source \in Instance
      BY WorkTyped DEF Init
    <2>2. \A t \in {captured, sent} : t \in Template /\ Cut(t)
      BY NothingTyped DEF Init
    <2>3. read \in 0 .. Len(ListOrder(TRUE))
      BY NothingRead, Zenon DEF Init
    <2>4. 0 \in 0 .. MaxEdits /\ 0 \in 0 .. MaxFaults
      BY BoundAssumption
    <2>5. TypeOK
      BY <2>1, <2>2, <2>3, <2>4 DEF Init, TypeOK, Cut, Template
    <2> QED BY <2>5, NothingTyped DEF Typed, Init
  <1> QED
    BY <1>1, <1>2 DEF Init, IInv, Capturing, Founded, Accounted, PagesAfter, Paging, Landed

(* The pages of one template stay as they are.                                  *)
LEMMA PagesKept ==
  ASSUME chosen' = chosen, sent' = sent
  PROVE  /\ Pages(sent)' = Pages(sent) /\ RootPage(sent)' = RootPage(sent)
         /\ \A k \in Kind : InPages(k)' <=> InPages(k)
  <1>1. work' = work
    BY DEF work
  <1> QED BY <1>1 DEF Pages, RootPage, Split, InPages

(* All that says something of what was submitted is kept where that is.         *)
LEMMA DeploymentKept ==
  ASSUME IInv, UNCHANGED <<chosen, deployment, target>>
  PROVE  /\ Founded' /\ Accounted' /\ PagesAfter' /\ Landed'
         /\ \A n : Deployed(n)' <=> Deployed(n)
  <1>1. /\ Pages(sent)' = Pages(sent) /\ RootPage(sent)' = RootPage(sent)
        /\ \A k \in Kind : InPages(k)' <=> InPages(k)
    BY PagesKept DEF deployment
  <1>2. \A r \in pending : r[1] \in Kind
    BY DEF IInv, Typed, TypeOK, Made
  <1>3. sent' = sent /\ pending' = pending /\ failed' = failed /\ target' = target
    BY DEF deployment
  <1>4. Founded'
    BY <1>3 DEF IInv, Founded, Rooted, Backed, Has
  <1>5. Accounted'
    BY <1>1, <1>3 DEF IInv, Accounted
  <1>6. PagesAfter'
    BY <1>1, <1>2, <1>3 DEF IInv, PagesAfter, Has
  <1>7. Landed'
    BY <1>3 DEF IInv, Landed
  <1>8. \A n : Deployed(n)' <=> Deployed(n)
    BY <1>1, <1>3 DEF Deployed
  <1> QED BY <1>4, <1>5, <1>6, <1>7, <1>8

(* A step of the command that submits nothing, and leaves no page behind.       *)
LEMMA CommandStep ==
  ASSUME IInv, UNCHANGED <<chosen, deployment, target>>, Typed', Capturing',
         pc' \notin {"submit", "await"}
  PROVE  IInv'
  BY DeploymentKept DEF IInv, Paging

LEMMA EndStep ==
  ASSUME IInv, UNCHANGED <<chosen, source, edits, deployment, target, federated>>, End,
         faults' \in 0 .. MaxFaults
  PROVE  IInv'
  <1>1. Typed'
    <2>1. captured' \in Template /\ Cut(captured') /\ read' \in 0 .. Len(ListOrder(TRUE))
      BY NothingTyped, NothingRead, Zenon DEF End
    <2>2. sent' \in Template /\ Cut(sent')
      BY DEF IInv, Typed, TypeOK, deployment, Cut
    <2> QED BY <2>1, <2>2
        DEF IInv, Typed, TypeOK, End, deployment, Cut, Template
  <1>2. Capturing'
    BY DEF End, Capturing
  <1> QED BY <1>1, <1>2, CommandStep DEF End

LEMMA AnalyzeStep ==
  ASSUME IInv, AnalyzeInstance
  PROVE  IInv'
  <1>1. work.extensions \subseteq Extension
    BY WorkTyped DEF IInv, Typed, TypeOK
  <1>2. Extension \subseteq Root /\ Root \cap ListedKind = {}
    BY DEF Root, Extension, ListedKind, PagedKind
  <1>3. <<{"root"}>> \in Seq(Pieces) /\ Range(<<{"root"}>>) = {{"root"}}
    BY DEF Pieces, Range
  <1>4. << >> \in Seq(Pieces) /\ Range(<< >>) = {}
    BY DEF Range
  <1>5. ASSUME NEW k \in Kind
        PROVE  \/ captured'[k] = << >>
               \/ captured'[k] = <<{"root"}>> /\ k \notin ListedKind
    BY <1>1, <1>2 DEF AnalyzeInstance
  <1>6. captured' \in Template
    BY <1>3, <1>4 DEF AnalyzeInstance, Template
  <1>7. Cut(captured')
    BY <1>3, <1>4, <1>5 DEF Cut
  <1>8. captured' \in Template /\ Cut(captured') /\ read' \in 0 .. Len(ListOrder(TRUE))
    BY <1>6, <1>7, NothingRead, Zenon DEF AnalyzeInstance
  <1>9. Typed'
    BY <1>8 DEF IInv, Typed, TypeOK, AnalyzeInstance, deployment, Cut
  <1>10. Capturing'
    BY DEF AnalyzeInstance, Capturing, Rooted, Kind, Root
  <1> QED BY <1>9, <1>10, CommandStep DEF AnalyzeInstance

LEMMA AddDeploymentStep ==
  ASSUME IInv, AddDeployment
  PROVE  IInv'
  <1>1. chosen \in 1 .. Len(Workloads) /\ source \in Instance /\ captured \in Template
        /\ Cut(captured) /\ read \in Nat
    BY DEF IInv, Typed, TypeOK, Cut
  <1>2. work.v2 \in BOOLEAN
    BY <1>1, WorkTyped
  <1>3. read < Len(ListOrder(work.v2)) /\ read' = read + 1
    BY DEF AddDeployment
  <1>4. ListOrder(work.v2)[read + 1] \in ListedKind /\ read' \in 0 .. Len(ListOrder(TRUE))
    BY <1>1, <1>2, <1>3, ListOrderTyped, Zenon
  <1>5. PICK kind \in ListedKind :
          \E q \in Chunks(Listed(kind)) : captured' = [captured EXCEPT ![kind] = q]
    BY <1>4, Zenon DEF AddDeployment
  <1>6. PICK q \in Chunks(Listed(kind)) : captured' = [captured EXCEPT ![kind] = q]
    BY <1>5
  <1>7. /\ q \in Seq(Pieces)
        /\ \A c \in Range(q) :
              c # {} /\ c \subseteq Name \cup {"root"} /\ Cardinality(c) <= ChunkLen
    BY <1>1, ListedNames, ChunksTyped
  <1>8. \A k \in Kind : captured'[k] = IF k = kind THEN q ELSE captured[k]
    BY <1>1, <1>6 DEF Template
  <1>9. captured' \in Template
    BY <1>1, <1>6, <1>7 DEF Template
  <1>10. Cut(captured')
    BY <1>1, <1>7, <1>8 DEF Cut
  <1>11. Typed'
    BY <1>4, <1>9, <1>10 DEF IInv, Typed, TypeOK, AddDeployment, deployment, Cut, Template
  <1>12. Capturing'
    <2>1. ListedKind \cap Root = {} /\ Root \subseteq Kind
      BY DEF ListedKind, PagedKind, Root, Extension, Kind
    <2> QED BY <1>8, <2>1 DEF IInv, Capturing, Rooted, AddDeployment
  <1> QED BY <1>11, <1>12, CommandStep DEF AddDeployment

LEMMA HandleFederationStep ==
  ASSUME IInv, HandleFederation
  PROVE  IInv'
  <1>1. Founded' /\ Accounted' /\ PagesAfter' /\ Landed'
    <2>1. Founded'
      BY DEF IInv, Founded, Rooted, Backed, Has, HandleFederation
    <2>2. /\ RootPage(sent)' = RootPage(sent) /\ \A k \in Kind : InPages(k)' <=> InPages(k)
      BY PagesKept DEF HandleFederation
    <2>3. \A r \in pending : r[1] \in Kind
      BY DEF IInv, Typed, TypeOK, Made
    <2> QED BY <2>1, <2>2, <2>3
        DEF IInv, Accounted, PagesAfter, Landed, Has, HandleFederation
  <1>2. Typed'
    <2>1. faults' \in 0 .. MaxFaults /\ federated' \in BOOLEAN
      <3>1. faults \in 0 .. MaxFaults /\ federated \in BOOLEAN
        BY DEF IInv, Typed, TypeOK
      <3>2. /\ faults' = faults \/ (faults < MaxFaults /\ faults' = faults + 1)
            /\ federated' = TRUE \/ federated' = federated
        BY Zenon DEF HandleFederation
      <3>3. faults' \in 0 .. MaxFaults
        BY <3>1, <3>2, BoundAssumption
      <3>4. federated' \in BOOLEAN
        BY <3>1, <3>2, Zenon
      <3> QED BY <3>3, <3>4
    <2>2. \A t \in {captured', sent'} : t \in Template /\ Cut(t)
      BY DEF IInv, Typed, TypeOK, HandleFederation, capture, Cut
    <2> QED BY <2>1, <2>2 DEF IInv, Typed, TypeOK, HandleFederation, capture, Cut, Template
  <1>3. Capturing'
    BY DEF IInv, Capturing, Rooted, HandleFederation, capture
  <1>4. Paging'
    BY DEF Paging, HandleFederation
  <1> QED BY <1>1, <1>2, <1>3, <1>4 DEF IInv

(* Others change the instance, or the command goes from one step to the next.   *)
LEMMA PassStep ==
  ASSUME IInv,
         \/ Edit \/ Captured \/ Confirm
  PROVE  IInv'
  <1>1. CASE Edit
    <2>1. edits' \in 0 .. MaxEdits
      BY <1>1, BoundAssumption DEF IInv, Typed, TypeOK, Edit
    <2>2. source' \in Instance
      <3>1. PICK k \in work.editable, n \in Name :
              source' = [source EXCEPT ![k] = (@ \ {n}) \cup ({n} \ @)]
        BY <1>1 DEF Edit
      <3>2. k \in ListedKind /\ source \in Instance
        BY WorkTyped DEF IInv, Typed, TypeOK
      <3> QED BY <3>1, <3>2 DEF Instance
    <2>3. Typed'
      <3>1. \A t \in {captured', sent'} : t \in Template /\ Cut(t)
        BY <1>1 DEF IInv, Typed, TypeOK, Edit, capture, deployment, Cut
      <3> QED BY <1>1, <2>1, <2>2, <3>1
          DEF IInv, Typed, TypeOK, Edit, capture, deployment, Cut, Template
    <2>4. Founded' /\ Accounted' /\ PagesAfter' /\ Landed' /\ Capturing'
      BY <1>1, DeploymentKept DEF Edit, IInv, Capturing, Rooted, capture
    <2>5. Paging'
      <3>1. Pages(sent)' = Pages(sent) /\ \A n : Deployed(n)' <=> Deployed(n)
        BY <1>1, PagesKept, DeploymentKept DEF Edit, deployment
      <3> QED BY <1>1, <3>1 DEF IInv, Paging, Edit, capture, deployment
    <2> QED BY <2>3, <2>4, <2>5 DEF IInv
  <1>2. CASE Captured \/ Confirm
    <2>1. /\ UNCHANGED <<chosen, source, edits, capture, deployment, target, federated, faults>>
          /\ pc # "idle" /\ pc' \in {"prompt", "federate"}
      BY <1>2 DEF Captured, Confirm
    <2>2. \A t \in {captured', sent'} : t \in Template /\ Cut(t)
      BY <2>1 DEF IInv, Typed, TypeOK, capture, deployment, Cut
    <2>3. Typed'
      BY <2>1, <2>2 DEF IInv, Typed, TypeOK, capture, deployment, Cut, Template
    <2>4. Capturing'
      BY <2>1 DEF IInv, Capturing, Rooted, capture
    <2> QED BY <2>1, <2>3, <2>4, CommandStep
  <1> QED BY <1>1, <1>2

LEMMA AwaitStep ==
  ASSUME IInv, Await
  PROVE  IInv'
  <1>1. CASE pending = {} /\ failed = {} /\ page < Len(Pages(captured))
    <2>1. /\ UNCHANGED <<chosen, source, edits, capture, deployment, target, federated, faults>>
          /\ pc = "await" /\ pc' = "submit"
      BY <1>1 DEF Await
    <2>2. \A t \in {captured', sent'} : t \in Template /\ Cut(t)
      BY <2>1 DEF IInv, Typed, TypeOK, capture, deployment, Cut
    <2>3. Typed'
      BY <2>1, <2>2 DEF IInv, Typed, TypeOK, capture, deployment, Cut, Template
    <2>4. Capturing'
      BY <2>1 DEF IInv, Capturing, Rooted, capture
    <2>5. Founded' /\ Accounted' /\ PagesAfter' /\ Landed'
      BY <2>1, DeploymentKept
    <2>6. Pages(sent)' = Pages(sent) /\ \A n : Deployed(n)' <=> Deployed(n)
      BY <2>1, PagesKept, DeploymentKept DEF deployment
    <2>7. /\ sent = captured /\ page \in 1 .. Len(Pages(sent)) /\ Deployed(page - 1)
          /\ Pages(sent)[page] \subseteq target
      BY <1>1, <2>1 DEF IInv, Paging
    <2>8. Len(Pages(sent)) \in Nat
      BY PagesTyped DEF IInv, Typed, TypeOK
    <2>9. Deployed(page)
      BY <2>7, <2>8 DEF Deployed
    <2>10. Paging'
      BY <1>1, <2>1, <2>6, <2>7, <2>9 DEF Paging, capture, deployment
    <2> QED BY <2>3, <2>4, <2>5, <2>10 DEF IInv
  <1>2. CASE ~(pending = {} /\ failed = {} /\ page < Len(Pages(captured)))
    <2>1. faults' \in 0 .. MaxFaults
      BY DEF IInv, Typed, TypeOK, Await
    <2> QED BY <1>2, <2>1, EndStep DEF Await
  <1> QED BY <1>1, <1>2

(* Raise and Abort: the command ends.                                           *)
LEMMA StopStep ==
  ASSUME IInv, Raise \/ Abort
  PROVE  IInv'
  <1>1. faults' \in 0 .. MaxFaults
    BY BoundAssumption DEF IInv, Typed, TypeOK, Raise, Abort
  <1> QED BY <1>1, EndStep DEF Raise, Abort

(* Resource Manager has made a resource, or could not.                          *)
LEMMA MakeStep ==
  ASSUME IInv, Make \/ MakeFails
  PROVE  IInv'
  <1>1. PICK r \in pending :
          /\ Ready(r) /\ pending' = pending \ {r}
          /\ UNCHANGED <<chosen, source, edits, pc, capture, page, sent, federated>>
          /\ faults' \in 0 .. MaxFaults
          /\ \/ target' = target \cup {r} /\ failed' = failed
             \/ failed' = failed \cup {r} /\ target' = target
    BY BoundAssumption DEF IInv, Typed, TypeOK, Make, MakeFails
  <1>2. /\ Pages(sent)' = Pages(sent) /\ RootPage(sent)' = RootPage(sent)
        /\ \A k \in Kind : InPages(k)' <=> InPages(k)
    BY <1>1, PagesKept
  <1>3. /\ pending' \cup failed' \cup target' = pending \cup failed \cup target
        /\ target \subseteq target' /\ pending' \subseteq pending
    BY <1>1
  <1>4. \A x \in pending : x[1] \in Kind
    BY DEF IInv, Typed, TypeOK, Made
  <1>5. Typed'
    <2>1. \A t \in {captured', sent'} : t \in Template /\ Cut(t)
      BY <1>1 DEF IInv, Typed, TypeOK, capture, Cut
    <2>2. pending' \subseteq Made /\ failed' \subseteq Made /\ target' \subseteq Made
      BY <1>1 DEF IInv, Typed, TypeOK
    <2> QED BY <1>1, <2>1, <2>2 DEF IInv, Typed, TypeOK, capture, Cut, Template
  <1>6. Capturing'
    BY <1>1 DEF IInv, Capturing, Rooted, capture
  <1>7. Founded'
    BY <1>1 DEF IInv, Founded, Rooted, Backed, Has
  <1>8. Accounted'
    BY <1>2, <1>3 DEF IInv, Accounted
  <1>9. PagesAfter'
    <2>1. sent' = sent
      BY <1>1
    <2> QED BY <1>2, <1>3, <1>4, <2>1 DEF IInv, PagesAfter, Has
  <1>10. Paging'
    <2>1. \A n : Deployed(n) => Deployed(n)'
      BY <1>2, <1>3 DEF Deployed
    <2>2. sent' = sent /\ captured' = captured /\ page' = page /\ pc' = pc
      BY <1>1 DEF capture
    <2> QED BY <1>2, <1>3, <2>1, <2>2 DEF IInv, Paging
  <1>11. Landed'
    <2>1. \A x \in target' : x \in target \/ x = r
      BY <1>1
    <2>2. /\ r[1] \in (ListedKind \ {"listener"}) \cup {"broker"}
                => <<"instance", "root">> \in target
          /\ r[1] \in {"authn", "authz"} => <<"broker", "root">> \in target
      BY <1>1, InstanceFirst, BrokerFirst
    <2> QED BY <1>3, <2>1, <2>2 DEF IInv, Landed
  <1> QED BY <1>5, <1>6, <1>7, <1>8, <1>9, <1>10, <1>11 DEF IInv

(* The first page is valid; a later one comes when the ones before it are made. *)
LEMMA DeployTemplateStep ==
  ASSUME IInv, DeployTemplate
  PROVE  IInv'
  <1> DEFINE P == Pages(captured)
             n == page + 1
             aep == captured["assetEndpointProfile"]
  <1>1. /\ chosen \in 1 .. Len(Workloads) /\ captured \in Template /\ Cut(captured)
        /\ Rooted(captured) /\ page \in Nat
    BY DEF IInv, Typed, TypeOK, Cut, Capturing, DeployTemplate
  <1>2. /\ P \in Seq(SUBSET Made) /\ Len(P) \in Nat \ {0} /\ P[1] = RootPage(captured)
        /\ \A i \in 2 .. Len(P) :
             \/ \E j \in 1 .. Len(aep) : i = j + 1 /\ P[i] = {"assetEndpointProfile"} \X aep[j]
             \/ /\ i > Len(aep) + 1
                /\ \E k \in PagedKind \ {"assetEndpointProfile"} :
                      \E c \in Range(captured[k]) : P[i] = {k} \X c
    BY <1>1, PagesTyped
  <1>3. Pages(sent)' = P /\ RootPage(sent)' = RootPage(captured)
        /\ \A k \in Kind : InPages(k)' <=> InPages(k)
    <2>1. work' = work /\ sent' = captured
      BY DEF work, DeployTemplate
    <2> QED BY <2>1 DEF Pages, RootPage, Split, InPages
  <1>4. /\ page # 0 => /\ sent = captured /\ page < Len(P)
                       /\ \A i \in 1 .. page : P[i] \subseteq target
    BY DEF IInv, Paging, Deployed, DeployTemplate
  <1>5. n \in 1 .. Len(P)
    BY <1>1, <1>2, <1>4
  <1>6. /\ HasParameters(P[n]) /\ (n = 1 => Valid(captured)) /\ page' = n
        /\ sent' = captured /\ pending' = P[n] /\ failed' = {}
        /\ UNCHANGED <<chosen, source, edits, target, federated, faults>>
        /\ \/ pc' = "await" /\ captured' = captured /\ read' = read
           \/ pc' = "idle" /\ captured' = Nothing /\ read' = 0
    BY DEF DeployTemplate, End, capture
  <1>7. page # 0 => RootPage(captured) \subseteq target
    BY <1>1, <1>2, <1>4
  <1> HIDE DEF P, n
  <1>8. Typed'
    <2>1. \A t \in {captured', sent'} : t \in Template /\ Cut(t)
      BY <1>1, <1>6, NothingTyped
    <2>2. pending' \subseteq Made /\ page' \in Nat
      BY <1>1, <1>2, <1>5, <1>6 DEF n
    <2>3. read' \in 0 .. Len(ListOrder(TRUE))
      <3>1. read \in 0 .. Len(ListOrder(TRUE))
        BY DEF IInv, Typed, TypeOK
      <3> QED BY <1>6, <3>1, NothingRead, Zenon
    <2> QED BY <1>6, <2>1, <2>2, <2>3 DEF IInv, Typed, TypeOK, Cut, Template
  <1>9. Capturing'
    BY <1>1, <1>6 DEF Capturing, Rooted
  <1>10. Founded'
    <2>1. CASE page = 0
      <3>1. Valid(captured)
        BY <1>6, <2>1 DEF n
      <3>2. Backed(captured)
        BY <3>1 DEF Valid, Backed, DependsOn, DataflowDependsOn, Kind, Root, Extension,
                    ListedKind, PagedKind
      <3> QED BY <1>1, <1>6, <3>2 DEF Founded, Rooted, Backed, Has
    <2>2. CASE page # 0
      <3>1. captured # Nothing
        <4>1. "instance" \in Root \ Extension /\ "instance" \in Kind
          BY DEF Root, Extension, Kind
        <4>2. captured["instance"] = <<{"root"}>> /\ Nothing["instance"] = << >>
          BY <1>1, <4>1 DEF Rooted, Nothing
        <4>3. Len(<<{"root"}>>) = 1 /\ Len(<< >>) = 0
          OBVIOUS
        <4> QED BY <4>2, <4>3
      <3>2. Backed(captured)
        BY <1>4, <2>2, <3>1 DEF IInv, Founded
      <3> QED BY <1>1, <1>6, <3>2 DEF Founded, Rooted, Backed, Has
    <2> QED BY <2>1, <2>2
  <1>11. Accounted'
    <2>1. RootPage(captured) \subseteq pending' \cup failed' \cup target'
      BY <1>1, <1>2, <1>6, <1>7 DEF n
    <2> QED BY <1>3, <2>1 DEF Accounted
  <1>12. PagesAfter'
    <2> SUFFICES ASSUME NEW r \in P[n]
                 PROVE  /\ r[1] \in Kind
                        /\ ~InPages(r[1]) => Has(captured, r[1])
                        /\ InPages(r[1]) =>
                             /\ r[1] \in {"assetEndpointProfile", "asset"}
                             /\ RootPage(captured) \subseteq target
                             /\ r[1] = "asset" =>
                                   \A c \in Range(aep) :
                                      {"assetEndpointProfile"} \X c \subseteq target
      BY <1>3, <1>6 DEF PagesAfter, Has
    <2>1. CASE n = 1
      <3>1. r[1] \in Kind /\ ~InPages(r[1]) /\ r[2] \in Held(captured, r[1])
        BY <1>2, <2>1 DEF RootPage
      <3>2. Has(captured, r[1])
        BY <3>1 DEF Held, Range, Has
      <3> QED BY <3>1, <3>2
    <2>2. CASE n # 1
      <3>1. n \in 2 .. Len(P) /\ page # 0 /\ RootPage(captured) \subseteq target
        BY <1>1, <1>2, <1>5, <1>7, <2>2 DEF n
      <3>2. PICK k \in PagedKind, c \in SUBSET (Name \cup {"root"}) :
              /\ P[n] = {k} \X c /\ captured[k] # << >>
              /\ k = "assetEndpointProfile" \/ n > Len(aep) + 1
        <4>1. \A k \in PagedKind : captured[k] \in Seq(Pieces) /\ k \in Kind
          BY <1>1 DEF Template, Kind, ListedKind
        <4>2. "assetEndpointProfile" \in PagedKind
          BY DEF PagedKind
        <4>3. CASE \E j \in 1 .. Len(aep) :
                     n = j + 1 /\ P[n] = {"assetEndpointProfile"} \X aep[j]
          <5>1. PICK j \in 1 .. Len(aep) : P[n] = {"assetEndpointProfile"} \X aep[j]
            BY <4>3
          <5>2. aep[j] \in Pieces /\ aep # << >>
            BY <4>1, <4>2
          <5> QED BY <4>2, <5>1, <5>2 DEF Pieces
        <4>4. CASE /\ n > Len(aep) + 1
                   /\ \E k \in PagedKind \ {"assetEndpointProfile"} :
                         \E c \in Range(captured[k]) : P[n] = {k} \X c
          <5>1. PICK k \in PagedKind \ {"assetEndpointProfile"} :
                   \E c \in Range(captured[k]) : P[n] = {k} \X c
            BY <4>4
          <5>2. PICK c \in Range(captured[k]) : P[n] = {k} \X c
            BY <5>1
          <5>3. c \in SUBSET (Name \cup {"root"}) /\ captured[k] # << >>
            <6>1. PICK j \in 1 .. Len(captured[k]) : c = captured[k][j]
              BY <4>1 DEF Range
            <6>2. captured[k] \in Seq(Pieces) /\ c \in Pieces
              BY <4>1, <6>1, EntryTyped
            <6> QED BY <6>1, <6>2 DEF Pieces
          <5> QED BY <4>4, <5>2, <5>3
        <4> QED BY <1>2, <3>1, <4>3, <4>4
      <3>3. r[1] = k /\ k \in Kind
        BY <3>2 DEF Kind, ListedKind
      <3>4. Has(captured, k)
        BY <3>2 DEF Has
      <3>5. ASSUME InPages(k) PROVE k \in {"assetEndpointProfile", "asset"}
        BY <1>6, <3>3, <3>5 DEF HasParameters, InPages, PagedKind
      <3>6. ASSUME k = "asset", NEW c2 \in Range(aep)
            PROVE  {"assetEndpointProfile"} \X c2 \subseteq target
        <4>1. aep \in Seq(Pieces)
          BY <1>1 DEF Template, Kind, ListedKind, PagedKind
        <4>2. PICK j \in 1 .. Len(aep) : c2 = aep[j]
          BY <4>1 DEF Range
        <4>3. /\ j + 1 \in 2 .. Len(P) /\ j + 1 \in 1 .. page
              /\ ~(j + 1 > Len(aep) + 1) /\ j \in Nat
          BY <1>1, <1>2, <1>5, <3>1, <3>2, <3>6, <4>1, <4>2 DEF n
        <4>4. PICK i \in 1 .. Len(aep) :
                j + 1 = i + 1 /\ P[j + 1] = {"assetEndpointProfile"} \X aep[i]
          BY <1>2, <4>3
        <4>5. i = j
          BY <4>1, <4>3, <4>4
        <4> QED BY <1>4, <3>1, <4>2, <4>3, <4>4, <4>5
      <3> QED BY <3>1, <3>3, <3>4, <3>5, <3>6
    <2> QED BY <2>1, <2>2
  <1>13. Paging'
    <2>1. CASE pc' = "await" /\ captured' = captured
      <3>1. \A i \in 1 .. page' - 1 : P[i] \subseteq target'
        BY <1>1, <1>4, <1>6 DEF n
      <3>2. Deployed(page - 1)'
        BY <1>3, <3>1 DEF Deployed
      <3> QED BY <1>3, <1>5, <1>6, <2>1, <3>2 DEF Paging
    <2>2. CASE pc' = "idle"
      BY <2>2 DEF Paging
    <2> QED BY <1>6, <2>1, <2>2
  <1>14. Landed'
    BY <1>6 DEF IInv, Landed
  <1> QED BY <1>8, <1>9, <1>10, <1>11, <1>12, <1>13, <1>14 DEF IInv

LEMMA StutterStep ==
  ASSUME IInv, UNCHANGED vars
  PROVE  IInv'
  <1>1. UNCHANGED <<chosen, source, edits, pc, read, captured, deployment, target, federated, faults>>
    BY DEF vars, capture
  <1>2. Founded' /\ Accounted' /\ PagesAfter' /\ Landed' /\ \A n : Deployed(n)' <=> Deployed(n)
    BY <1>1, DeploymentKept
  <1>3. Pages(sent)' = Pages(sent)
    BY <1>1, PagesKept DEF deployment
  <1>4. Typed'
    <2>1. \A t \in {captured', sent'} : t \in Template /\ Cut(t)
      BY <1>1 DEF IInv, Typed, TypeOK, deployment, Cut
    <2> QED BY <1>1, <2>1 DEF IInv, Typed, TypeOK, deployment, Cut, Template
  <1>5. Capturing' /\ Paging'
    BY <1>1, <1>2, <1>3 DEF IInv, Capturing, Rooted, Paging, deployment
  <1> QED BY <1>2, <1>4, <1>5 DEF IInv

LEMMA StepIInv == IInv /\ [Next]_vars => IInv'
  <1> SUFFICES ASSUME IInv, [Next]_vars PROVE IInv'
    OBVIOUS
  <1>1. CASE AnalyzeInstance BY <1>1, AnalyzeStep
  <1>2. CASE AddDeployment BY <1>2, AddDeploymentStep
  <1>3. CASE Captured \/ Confirm \/ Edit BY <1>3, PassStep
  <1>4. CASE HandleFederation BY <1>4, HandleFederationStep
  <1>5. CASE DeployTemplate BY <1>5, DeployTemplateStep
  <1>6. CASE Await BY <1>6, AwaitStep
  <1>7. CASE Raise \/ Abort BY <1>7, StopStep
  <1>8. CASE Make \/ MakeFails BY <1>8, MakeStep
  <1>9. CASE UNCHANGED vars BY <1>9, StutterStep
  <1> QED BY <1>1, <1>2, <1>3, <1>4, <1>5, <1>6, <1>7, <1>8, <1>9 DEF Next, CloneStep

LEMMA IInvHolds == Spec => []IInv
  BY InitIInv, StepIInv, PTL DEF Spec

-------------------------------------------------------------------------------
(* Every reachable state is well typed: a template has resources of its kinds   *)
(* in pieces no greater than allowed, and its pages are made of those.          *)
THEOREM CloneTypeCorrect == Spec => []TypeOK
  <1>1. IInv => TypeOK
    BY DEF IInv, Typed
  <1> QED BY <1>1, IInvHolds, PTL

(* Resource Manager makes nothing before what it lives in and what it refers    *)
(* to in the instance that was captured (add_deployment, deploy), but for the   *)
(* references whose order the template leaves open, as of an instance to its    *)
(* default secret provider class: whatever the instance has and how its lists   *)
(* are cut, in one template or in pages, and however often the command is       *)
(* interrupted, fails and is run again.                                         *)
THEOREM ClonesInOrder == Spec => InOrder
  <1>1. IInv /\ [Next]_vars =>
          [\A r \in target' \ target : \A d \in Needs(r) :
              /\ d \in LastOf(sent, d[1])
              /\ <<r[1], d[1]>> \notin Unordered
              => d \in target]_vars
    <2> SUFFICES ASSUME IInv, Next, NEW r \in target' \ target, NEW d \in Needs(r),
                        d \in LastOf(sent, d[1]), <<r[1], d[1]>> \notin Unordered
                 PROVE  d \in target
      BY Zenon
    <2>1. r \in pending /\ Ready(r)
      BY DEF Next, CloneStep, AnalyzeInstance, AddDeployment, Captured, Confirm,
             HandleFederation, DeployTemplate, Await, Raise, Abort, Edit, Make, MakeFails
    <2> QED BY <2>1, NeedsAreThere
  <1> QED BY <1>1, IInvHolds, PTL DEF Spec, InOrder

===============================================================================
