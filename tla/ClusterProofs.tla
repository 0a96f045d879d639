---------------------------- MODULE ClusterProofs ----------------------------
(***************************************************************************)
(* Proof that IInv is an invariant of Cluster, for every set of contents   *)
(* and hosts, and of the properties that follow from it.                   *)
(***************************************************************************)
EXTENDS Cluster, FiniteSetTheorems, SequenceTheorems, TLAPS

\* An ordering of a finite set holds every element once.
LEMMA OrderingFacts ==
  ASSUME NEW S, IsFiniteSet(S), NEW s \in SetToSeqs(S)
  PROVE  /\ s \in Seq(S)
         /\ \A j, k \in DOMAIN s : s[j] = s[k] => j = k
         /\ \A x \in S : \E k \in DOMAIN s : s[k] = x
<1> DEFINE D == 1 .. Cardinality(S)
<1>1. Cardinality(S) \in Nat
  BY FS_CardinalityType
<1>2. s \in [D -> S] /\ \A j, k \in D : j # k => s[j] # s[k]
  BY DEF SetToSeqs
<1>3. s \in Seq(S) /\ DOMAIN s = D
  BY <1>1, <1>2
<1>4. s \in Injection(D, S)
  BY <1>2 DEF Injection, IsInjective
<1>5. Cardinality(D) = Cardinality(S)
  BY <1>1, FS_Interval
<1>6. s \in Surjection(D, S)
  BY <1>4, <1>5, FS_Injection
<1> QED
  BY <1>2, <1>3, <1>6 DEF Surjection

\* The table has finitely many rows, each a segment, and no two with the same
\* content and role.
LEMMA RowFacts ==
  ASSUME TypeOK
  PROVE  /\ IsFiniteSet(Rows)
         /\ Rows \subseteq SegConfig
         /\ \A q, r \in Rows : q.content = r.content /\ q.role = r.role => q = r
         /\ \A r \in Rows : r.host = IF r.role = "p" THEN catalog[r.content].p
                                                     ELSE catalog[r.content].m
<1> DEFINE P == {[content |-> c, role |-> "p", host |-> catalog[c].p] : c \in ContentID}
           W == {d \in ContentID : catalog[d].m # NoHost}
           M == {[content |-> c, role |-> "m", host |-> catalog[c].m] : c \in W}
<1>1. Rows = P \cup M
  BY DEF Rows
<1>2. IsFiniteSet(ContentID) /\ IsFiniteSet(W)
  <2>1. IsFiniteSet(ContentID)
    BY ClusterAssumption, FS_AddElement DEF ContentID
  <2> QED
    BY <2>1, FS_Subset
<1>3. IsFiniteSet(P) /\ IsFiniteSet(M)
  <2>1. [c \in ContentID |-> [content |-> c, role |-> "p", host |-> catalog[c].p]]
          \in Surjection(ContentID, P)
    BY DEF Surjection
  <2>2. [c \in W |-> [content |-> c, role |-> "m", host |-> catalog[c].m]] \in Surjection(W, M)
    BY DEF Surjection
  <2> HIDE DEF P, M, W
  <2> QED
    BY <1>2, <2>1, <2>2, FS_Surjection
<1>4. IsFiniteSet(Rows)
  BY <1>1, <1>3, FS_Union
<1>5. P \subseteq SegConfig /\ M \subseteq SegConfig
  BY DEF TypeOK, SegConfig
<1> QED
  BY <1>1, <1>4, <1>5

-----------------------------------------------------------------------------
(* What a step does, action by action.                                     *)

\* A list has been read: it holds the rows asked for, each once.
ListRead ==
  /\ pc \in {"start", "failed"}
  /\ pc' = "build"
  /\ roles' \subseteq {"p", "m"}
  /\ Segments' \in Seq(SegConfig)
  /\ \A i \in DOMAIN Segments' : Segments'[i] \in Rows /\ Segments'[i].role \in roles'
  /\ \A i, j \in DOMAIN Segments' : Segments'[i] = Segments'[j] => i = j
  /\ \A r \in Rows : r.role \in roles' => \E i \in DOMAIN Segments' : Segments'[i] = r
  /\ UNCHANGED <<catalog, next, ByContent, ByHost, Hostnames, ContentIDs, commandVars>>

LEMMA StartBuildReads ==
  ASSUME TypeOK, pc \in {"start", "failed"},
         NEW read \in SUBSET {"p", "m"},
         NEW list \in SetToSeqs({r \in Rows : r.role \in read}),
         StartBuild(list, read)
  PROVE  ListRead
<1> DEFINE R == {r \in Rows : r.role \in read}
<1>1. IsFiniteSet(R) /\ R \subseteq SegConfig
  BY RowFacts, FS_Subset
<1>2. /\ list \in Seq(R)
      /\ \A j, k \in DOMAIN list : list[j] = list[k] => j = k
      /\ \A x \in R : \E k \in DOMAIN list : list[k] = x
  <2> HIDE DEF R
  <2> SUFFICES list \in SetToSeqs(R)
    BY <1>1, OrderingFacts
  <2> QED
    BY DEF R
<1>3. list \in Seq(SegConfig) /\ \A i \in DOMAIN list : list[i] \in R
  BY <1>1, <1>2
<1> QED
  BY <1>2, <1>3 DEF StartBuild, ListRead

LEMMA ReadingSteps ==
  ASSUME TypeOK,
         \/ \E getMirrors \in GetMirrors : GetSegmentConfiguration(getMirrors)
         \/ \E lines \in SetToSeqs(Rows), malformed \in 0 .. Cardinality(Rows) :
              GetSegmentConfigurationFromFile(lines, malformed)
  PROVE  ReadFails \/ ListRead
<1>1. CASE \E getMirrors \in GetMirrors : GetSegmentConfiguration(getMirrors)
  <2>1. PICK getMirrors \in GetMirrors : GetSegmentConfiguration(getMirrors)
    BY <1>1
  <2> DEFINE read == RolesRead(getMirrors)
  <2>2. PICK list \in Sorted({r \in Rows : r.role \in read}, RowOrder) : StartBuild(list, read)
    BY <2>1 DEF GetSegmentConfiguration
  <2>3. read \in SUBSET {"p", "m"}
    BY DEF RolesRead
  <2>4. list \in SetToSeqs({r \in Rows : r.role \in read})
    BY <2>2 DEF Sorted
  <2>5. pc \in {"start", "failed"}
    BY <2>1 DEF GetSegmentConfiguration
  <2> HIDE DEF read
  <2> QED
    BY <2>2, <2>3, <2>4, <2>5, StartBuildReads
<1>2. CASE \E lines \in SetToSeqs(Rows), malformed \in 0 .. Cardinality(Rows) :
             GetSegmentConfigurationFromFile(lines, malformed)
  <2>1. PICK lines \in SetToSeqs(Rows), malformed \in 0 .. Cardinality(Rows) :
          GetSegmentConfigurationFromFile(lines, malformed)
    BY <1>2
  <2>2. CASE StartBuild(lines, {"p", "m"})
    <3>1. Rows = {r \in Rows : r.role \in {"p", "m"}}
      BY RowFacts DEF SegConfig
    <3>2. lines \in SetToSeqs({r \in Rows : r.role \in {"p", "m"}})
      BY <3>1, Zenon
    <3>3. pc \in {"start", "failed"}
      BY <2>1 DEF GetSegmentConfigurationFromFile
    <3> QED
      BY <2>2, <3>2, <3>3, StartBuildReads
  <2> QED
    BY <2>1, <2>2 DEF GetSegmentConfigurationFromFile
<1> QED
  BY <1>1, <1>2

\* Entering a segment adds its position at the end of its content's list, or
\* before the mirror already there, and at the end of its host's list.
LEMMA AddFacts ==
  ASSUME IInv, AddSegment
  PROVE  LET seg == Segments[next]
         IN  /\ next \in DOMAIN Segments
             /\ seg \in SegConfig
             /\ Added' = Added \cup {next} /\ next \notin Added
             /\ \A c \in ContentID : c # seg.content => ByContent'[c] = ByContent[c]
             /\ \A h \in Host : h # seg.host => ByHost'[h] = ByHost[h]
             /\ ByContent'[seg.content] = PrimaryFirst(Append(ByContent[seg.content], next))
             /\ ByHost'[seg.host] = Append(ByHost[seg.host], next)
             /\ UNCHANGED <<catalog, pc, roles, Segments, ContentIDs, commandVars>>
<1>1. pc = "build" /\ next \in 1 .. Len(Segments) + 1 /\ next <= Len(Segments)
  BY DEF IInv, ListInv, AddSegment
<1>2. next \in DOMAIN Segments /\ Segments[next] \in SegConfig
  BY <1>1 DEF IInv, TypeOK
<1>3. pc' = "build" /\ next' = next + 1
  BY <1>1 DEF AddSegment
<1>4. Added = 1 .. next - 1 /\ Added' = 1 .. next
  BY <1>1, <1>3 DEF Added
<1>5. ByContent \in [ContentID -> Seq(1 .. Len(Segments))] /\ ByHost \in [Host -> Seq(1 .. Len(Segments))]
  BY DEF IInv, TypeOK
<1>6. Segments[next].content \in ContentID /\ Segments[next].host \in Host
  BY <1>2 DEF SegConfig
<1> QED
  BY <1>1, <1>2, <1>4, <1>5, <1>6 DEF AddSegment

LEMMA AppendToOne ==
  ASSUME NEW S, NEW s \in Seq(S), NEW x \in S, Len(s) = 1
  PROVE  /\ Append(s, x) \in Seq(S)
         /\ Len(Append(s, x)) = 2
         /\ Append(s, x)[1] = s[1]
         /\ Append(s, x)[2] = x
<1>0. Append(s, x) \in Seq(S)
  BY AppendProperties
<1>1. Append(s, x)[1] = s[1] /\ Append(s, x)[2] = x
  <2>1. Append(s, x)[1] = s[1]
    BY AppendProperties
  <2>2. Append(s, x)[2] = x
    BY AppendProperties
  <2> QED
    BY <2>1, <2>2
<1>2. Len(Append(s, x)) = Len(s) + 1
  BY AppendProperties
<1>3. Len(Append(s, x)) = 1 + 1
  BY <1>2, Zenon
<1>4. 1 + 1 = 2
  OBVIOUS
<1> QED
  BY <1>0, <1>1, <1>3, <1>4, Zenon

\* Stated of numbers: of lengths the arithmetic is not found.
LEMMA BelowTwo ==
  ASSUME NEW n \in Nat, n <= 2, n # 2
  PROVE  n = 0 \/ n = 1
OBVIOUS

\* The lists of the content that is entered: what was there, and next; with
\* two elements, the primary comes first.
LEMMA AddToContent ==
  ASSUME IInv, AddSegment
  PROVE  LET c    == Segments[next].content
             old  == ByContent[c]
             list == ByContent'[c]
         IN  /\ list \in Seq(1 .. Len(Segments))
             /\ \A k \in DOMAIN list : list[k] = next \/ \E j \in DOMAIN old : list[k] = old[j]
             /\ \E k \in DOMAIN list : list[k] = next
             /\ \A j \in DOMAIN old : \E k \in DOMAIN list : list[k] = old[j]
             /\ Len(list) <= 2
             /\ Len(list) = 2 => /\ Segments[list[1]].role = "p"
                                 /\ Segments[list[2]].role = "m"
<1> DEFINE c    == Segments[next].content
           old  == ByContent[c]
           list == ByContent'[c]
<1>1. /\ next \in DOMAIN Segments /\ Segments[next] \in SegConfig
      /\ next \notin Added
      /\ list = PrimaryFirst(Append(old, next))
  BY AddFacts
<1>2. c \in ContentID /\ Segments[next].role \in {"p", "m"}
  BY <1>1 DEF SegConfig
<1>3. old \in Seq(1 .. Len(Segments)) /\ next \in 1 .. Len(Segments)
  <2>1. old \in Seq(1 .. Len(Segments))
    BY <1>2 DEF IInv, TypeOK
  <2>2. next \in 1 .. Len(Segments)
    BY <1>1 DEF IInv, TypeOK
  <2> QED
    BY <2>1, <2>2
<1>4. /\ \A k \in DOMAIN old : old[k] \in Added /\ Segments[old[k]].content = c
      /\ Len(old) <= 2
      /\ Len(old) = 2 => Segments[old[1]].role = "p" /\ Segments[old[2]].role = "m"
  BY <1>2 DEF IInv, ContentInv
<1>5. ASSUME NEW k \in DOMAIN old
      PROVE  Segments[old[k]].role \in {"p", "m"} \ {Segments[next].role}
  <2>1. old[k] \in DOMAIN Segments /\ old[k] # next /\ Segments[old[k]].content = c
    BY <1>1, <1>3, <1>4, <1>5
  <2>2. Segments[old[k]] \in Rows /\ Segments[next] \in Rows /\ Segments[old[k]] # Segments[next]
    BY <1>1, <2>1 DEF IInv, ListInv
  <2>3. Segments[old[k]].role # Segments[next].role
    BY <2>1, <2>2, RowFacts DEF IInv
  <2>4. Segments[old[k]] \in SegConfig
    BY <2>2, RowFacts DEF IInv
  <2> QED
    BY <2>3, <2>4 DEF SegConfig
<1>6. Len(old) = 0 \/ Len(old) = 1
  <2>0. Len(old) \in Nat /\ Len(old) <= 2
    BY <1>3, <1>4
  <2>1. ASSUME Len(old) = 2 PROVE FALSE
    <3>1. 1 \in DOMAIN old /\ 2 \in DOMAIN old
      BY <1>3, <2>1
    <3> QED
      BY <1>2, <1>4, <1>5, <2>1, <3>1
  <2> QED
    BY <2>0, <2>1, BelowTwo, Zenon
<1> HIDE DEF c, old, list
<1>7. CASE Len(old) = 0
  <2>1. list = <<next>>
    BY <1>1, <1>3, <1>7 DEF PrimaryFirst
  <2> QED
    BY <1>3, <1>7, <2>1 DEF c, old, list
<1>8. CASE Len(old) = 1
  <2>1. 1 \in DOMAIN old /\ DOMAIN old = {1}
    BY <1>3, <1>8
  <2>2. /\ Append(old, next) \in Seq(1 .. Len(Segments))
        /\ Len(Append(old, next)) = 2
        /\ Append(old, next)[1] = old[1]
        /\ Append(old, next)[2] = next
    BY <1>3, <1>8, AppendToOne
  <2>3. CASE Segments[old[1]].role = "m"
    <3>1. list = <<next, old[1]>>
      BY <1>1, <2>2, <2>3 DEF PrimaryFirst
    <3>2. Segments[next].role = "p"
      BY <1>2, <1>5, <2>1, <2>3
    <3> QED
      BY <1>3, <2>1, <2>3, <3>1, <3>2 DEF c, old, list
  <2>4. CASE Segments[old[1]].role # "m"
    <3>1. list = Append(old, next)
      BY <1>1, <2>2, <2>4 DEF PrimaryFirst
    <3>2. Segments[next].role = "m" /\ Segments[old[1]].role = "p"
      BY <1>2, <1>5, <2>1, <2>4
    <3>3. DOMAIN list = {1, 2}
      BY <2>2, <3>1
    <3> QED
      BY <2>1, <2>2, <3>1, <3>2, <3>3 DEF c, old, list
  <2> QED
    BY <2>3, <2>4
<1> QED
  BY <1>6, <1>7, <1>8

-----------------------------------------------------------------------------
(* Entering a segment keeps each part of the invariant.                    *)

LEMMA AddType ==
  ASSUME IInv, AddSegment
  PROVE  TypeOK'
<1> DEFINE c == Segments[next].content
           h == Segments[next].host
<1>1. c \in ContentID /\ h \in Host /\ next \in DOMAIN Segments
  BY AddFacts DEF SegConfig
<1>2. next \in 1 .. Len(Segments) /\ next \in Nat /\ next' = next + 1
  BY <1>1 DEF IInv, TypeOK, AddSegment
<1>3. ByContent' \in [ContentID -> Seq(1 .. Len(Segments))]
  <2>1. ByContent' = [ByContent EXCEPT ![c] = ByContent'[c]]
    BY <1>1 DEF IInv, TypeOK, AddSegment
  <2>2. ByContent'[c] \in Seq(1 .. Len(Segments))
    BY AddToContent
  <2> HIDE DEF c
  <2> QED
    BY <2>1, <2>2 DEF IInv, TypeOK
<1>4. ByHost' \in [Host -> Seq(1 .. Len(Segments))]
  <2>1. ByHost' = [ByHost EXCEPT ![h] = Append(ByHost[h], next)]
    BY <1>1 DEF IInv, TypeOK, AddSegment
  <2>2. ByHost[h] \in Seq(1 .. Len(Segments))
    BY <1>1 DEF IInv, TypeOK
  <2>3. Append(ByHost[h], next) \in Seq(1 .. Len(Segments))
    BY <1>2, <2>2, AppendProperties
  <2> HIDE DEF h
  <2> QED
    BY <2>1, <2>3 DEF IInv, TypeOK
<1>5. Hostnames' \in Seq(Host)
  <2>1. Hostnames \in Seq(Host)
    BY DEF IInv, TypeOK
  <2>2. Hostnames' = Hostnames \/ Hostnames' = Append(Hostnames, h)
    BY DEF AddSegment
  <2> QED
    BY <1>1, <2>1, <2>2, AppendProperties
<1>6. UNCHANGED <<catalog, pc, roles, Segments, ContentIDs, scope, generator, commands>>
  BY DEF AddSegment, commandVars
<1>7. next' \in Nat \ {0}
  BY <1>2
<1> QED
  BY <1>3, <1>4, <1>5, <1>6, <1>7 DEF IInv, TypeOK

LEMMA AddList ==
  ASSUME IInv, AddSegment
  PROVE  StartInv' /\ ListInv'
<1>1. pc = "build" /\ pc' = "build" /\ UNCHANGED <<catalog, roles, Segments, ContentIDs>>
  BY DEF AddSegment
<1>2. next \in 1 .. Len(Segments) + 1 /\ next <= Len(Segments) /\ next' = next + 1
  BY <1>1 DEF IInv, ListInv, AddSegment
<1>3. Len(Segments) \in Nat
  BY DEF IInv, TypeOK
<1>4. next' \in 1 .. Len(Segments) + 1
  BY <1>2, <1>3
<1>5. Rows' = Rows
  BY <1>1 DEF Rows
<1> QED
  BY <1>1, <1>4, <1>5 DEF IInv, ListInv, StartInv

LEMMA AddContent ==
  ASSUME IInv, AddSegment
  PROVE  ContentInv'
<1> DEFINE c == Segments[next].content
<1>1. /\ Added' = Added \cup {next}
      /\ Segments' = Segments
      /\ \A d \in ContentID : d # c => ByContent'[d] = ByContent[d]
      /\ c \in ContentID
  BY AddFacts DEF SegConfig
<1>2. SUFFICES ASSUME NEW d \in ContentID
      PROVE  /\ \A k \in DOMAIN ByContent'[d] :
                  ByContent'[d][k] \in Added' /\ Segments[ByContent'[d][k]].content = d
             /\ \A i \in Added' : Segments[i].content = d =>
                  \E k \in DOMAIN ByContent'[d] : ByContent'[d][k] = i
             /\ Len(ByContent'[d]) <= 2
             /\ Len(ByContent'[d]) = 2 => /\ Segments[ByContent'[d][1]].role = "p"
                                          /\ Segments[ByContent'[d][2]].role = "m"
  BY <1>1 DEF ContentInv
<1>3. CASE d # c
  BY <1>1, <1>3 DEF IInv, ContentInv
<1>4. CASE d = c
  <2>1. \A k \in DOMAIN ByContent'[c] :
          ByContent'[c][k] \in Added' /\ Segments[ByContent'[c][k]].content = c
    <3>1. \A j \in DOMAIN ByContent[c] :
            ByContent[c][j] \in Added /\ Segments[ByContent[c][j]].content = c
      BY <1>1 DEF IInv, ContentInv
    <3>2. \A k \in DOMAIN ByContent'[c] :
            ByContent'[c][k] = next \/ \E j \in DOMAIN ByContent[c] : ByContent'[c][k] = ByContent[c][j]
      BY AddToContent
    <3> QED
      BY <1>1, <3>1, <3>2
  <2>2. ASSUME NEW i \in Added', Segments[i].content = c
        PROVE  \E k \in DOMAIN ByContent'[c] : ByContent'[c][k] = i
    BY <1>1, <2>2, AddToContent DEF IInv, ContentInv
  <2>3. Len(ByContent'[c]) <= 2
    BY AddToContent
  <2>4. Len(ByContent'[c]) = 2 => /\ Segments[ByContent'[c][1]].role = "p"
                                  /\ Segments[ByContent'[c][2]].role = "m"
    BY AddToContent
  <2> QED
    BY <1>4, <2>1, <2>2, <2>3, <2>4
<1> QED
  BY <1>3, <1>4

LEMMA AddHost ==
  ASSUME IInv, AddSegment
  PROVE  HostInv'
<1> DEFINE h   == Segments[next].host
           old == ByHost[h]
<1>1. /\ Added' = Added \cup {next}
      /\ Segments' = Segments
      /\ \A g \in Host : g # h => ByHost'[g] = ByHost[g]
      /\ h \in Host
      /\ ByHost'[h] = Append(old, next)
  BY AddFacts DEF SegConfig
<1>2. /\ old \in Seq(1 .. Len(Segments)) /\ next \in 1 .. Len(Segments)
      /\ \A i \in Added : i < next
  <2>1. old \in Seq(1 .. Len(Segments))
    BY <1>1 DEF IInv, TypeOK
  <2>2. next \in 1 .. Len(Segments)
    BY AddFacts DEF IInv, TypeOK
  <2>3. \A i \in Added : i < next
    <3>1. Added = 1 .. next - 1
      BY DEF Added, AddSegment
    <3> QED
      BY <2>2, <3>1
  <2> QED
    BY <2>1, <2>2, <2>3
<1>3. SUFFICES ASSUME NEW g \in Host
      PROVE  /\ \A k \in DOMAIN ByHost'[g] :
                  ByHost'[g][k] \in Added' /\ Segments[ByHost'[g][k]].host = g
             /\ \A i \in Added' : Segments[i].host = g =>
                  \E k \in DOMAIN ByHost'[g] : ByHost'[g][k] = i
             /\ \A j, k \in DOMAIN ByHost'[g] : j < k => ByHost'[g][j] < ByHost'[g][k]
  BY <1>1 DEF HostInv
<1>4. CASE g # h
  BY <1>1, <1>4 DEF IInv, HostInv
<1>5. CASE g = h
  <2> DEFINE list == Append(old, next)
  <2>1. /\ \A k \in DOMAIN old : old[k] \in Added /\ Segments[old[k]].host = h
        /\ \A i \in Added : Segments[i].host = h => \E k \in DOMAIN old : old[k] = i
        /\ \A j, k \in DOMAIN old : j < k => old[j] < old[k]
    BY <1>1 DEF IInv, HostInv
  <2>2. /\ DOMAIN old = 1 .. Len(old) /\ Len(old) \in Nat
        /\ DOMAIN list = 1 .. Len(old) + 1
        /\ \A k \in DOMAIN old : list[k] = old[k]
        /\ list[Len(old) + 1] = next
    BY <1>2, AppendProperties
  <2> HIDE DEF old, list, h
  <2>3. \A k \in DOMAIN list : k \in DOMAIN old \/ k = Len(old) + 1
    BY <2>2
  <2>4. \A k \in DOMAIN list : list[k] \in Added' /\ Segments[list[k]].host = h
    BY <1>1, <2>1, <2>2, <2>3 DEF h
  <2>5. \A i \in Added' : Segments[i].host = h => \E k \in DOMAIN list : list[k] = i
    BY <1>1, <2>1, <2>2
  <2>6. ASSUME NEW j \in DOMAIN list, NEW k \in DOMAIN list, j < k
        PROVE  list[j] < list[k]
    <3>1. j \in DOMAIN old
      BY <2>2, <2>6
    <3>2. CASE k \in DOMAIN old
      BY <2>1, <2>2, <2>6, <3>1, <3>2
    <3>3. CASE k = Len(old) + 1
      BY <1>2, <2>1, <2>2, <3>1, <3>3
    <3> QED
      BY <2>3, <3>2, <3>3
  <2> QED
    BY <1>1, <1>5, <2>4, <2>5, <2>6 DEF list
<1> QED
  BY <1>4, <1>5

LEMMA AddHostname ==
  ASSUME IInv, AddSegment
  PROVE  HostnamesInv'
<1> DEFINE h == Segments[next].host
<1>1. h \in Host /\ \A g \in Host : g # h => ByHost'[g] = ByHost[g]
  BY AddFacts DEF SegConfig
<1>2. ByHost'[h] # <<>>
  <2>1. ByHost[h] \in Seq(1 .. Len(Segments))
    BY <1>1 DEF IInv, TypeOK
  <2>2. next \in 1 .. Len(Segments)
    BY AddFacts DEF IInv, TypeOK
  <2>3. ByHost'[h] = Append(ByHost[h], next)
    BY AddFacts
  <2> QED
    BY <2>1, <2>2, <2>3, AppendProperties
<1>3. Hostnames \in Seq(Host)
  BY DEF IInv, TypeOK
<1>4. /\ \A k \in DOMAIN Hostnames : ByHost[Hostnames[k]] # <<>> /\ Hostnames[k] \in Host
      /\ \A j, k \in DOMAIN Hostnames : Hostnames[j] = Hostnames[k] => j = k
      /\ \A g \in Host : ByHost[g] # <<>> => \E k \in DOMAIN Hostnames : Hostnames[k] = g
  BY <1>3 DEF IInv, HostnamesInv
<1>5. CASE ByHost[h] = <<>>
  <2> DEFINE list == Append(Hostnames, h)
  <2>1. Hostnames' = list
    BY <1>5 DEF AddSegment, FirstOnHost
  <2>2. /\ DOMAIN Hostnames = 1 .. Len(Hostnames) /\ Len(Hostnames) \in Nat
        /\ DOMAIN list = 1 .. Len(Hostnames) + 1
        /\ \A k \in DOMAIN Hostnames : list[k] = Hostnames[k]
        /\ list[Len(Hostnames) + 1] = h
    BY <1>1, <1>3, AppendProperties
  <2> HIDE DEF list, h
  <2>3. \A k \in DOMAIN list : k \in DOMAIN Hostnames \/ k = Len(Hostnames) + 1
    BY <2>2
  <2>4. \A k \in DOMAIN Hostnames : Hostnames[k] # h
    BY <1>4, <1>5
  <2>5. \A k \in DOMAIN list : ByHost'[list[k]] # <<>>
    BY <1>1, <1>2, <1>4, <2>2, <2>3, <2>4
  <2>6. \A j, k \in DOMAIN list : list[j] = list[k] => j = k
    BY <1>4, <2>2, <2>3, <2>4
  <2>7. \A g \in Host : ByHost'[g] # <<>> => \E k \in DOMAIN list : list[k] = g
    BY <1>1, <1>4, <2>2
  <2> QED
    BY <2>1, <2>5, <2>6, <2>7 DEF HostnamesInv
<1>6. CASE ByHost[h] # <<>>
  <2>1. Hostnames' = Hostnames
    BY <1>6 DEF AddSegment, FirstOnHost
  <2> HIDE DEF h
  <2> QED
    BY <1>1, <1>2, <1>4, <1>6, <2>1 DEF HostnamesInv
<1> QED
  BY <1>5, <1>6

LEMMA AddInductive ==
  ASSUME IInv, AddSegment
  PROVE  IInv'
<1>1. CommandInv'
  <2>1. pc' = "build" /\ ContentIDs' = <<>>
    BY DEF IInv, ListInv, AddSegment
  <2> QED
    BY <2>1 DEF CommandInv
<1> QED
  BY <1>1, AddType, AddList, AddContent, AddHost, AddHostname DEF IInv

-----------------------------------------------------------------------------
(* The other actions.                                                      *)

LEMMA ReadInductive ==
  ASSUME IInv, ListRead
  PROVE  IInv'
<1>1. /\ Segments = <<>> /\ next = 1 /\ Hostnames = <<>> /\ ContentIDs = <<>>
      /\ \A c \in ContentID : ByContent[c] = <<>>
      /\ \A h \in Host : ByHost[h] = <<>>
  BY DEF IInv, StartInv, ListRead
<1>2. /\ pc' = "build" /\ roles' \subseteq {"p", "m"} /\ Segments' \in Seq(SegConfig)
      /\ UNCHANGED <<catalog, next, ByContent, ByHost, Hostnames, ContentIDs,
                     scope, generator, commands>>
  BY DEF ListRead, commandVars
<1>3. TypeOK'
  <2>1. ByContent' \in [ContentID -> Seq(1 .. Len(Segments'))]
    BY <1>1, <1>2 DEF IInv, TypeOK
  <2>2. ByHost' \in [Host -> Seq(1 .. Len(Segments'))]
    BY <1>1, <1>2 DEF IInv, TypeOK
  <2> QED
    BY <1>2, <2>1, <2>2 DEF IInv, TypeOK
<1>4. StartInv'
  BY <1>2 DEF StartInv
<1>5. ListInv'
  <2>1. Rows' = Rows
    BY <1>2 DEF Rows
  <2>2. next' \in 1 .. Len(Segments') + 1
    <3>1. Len(Segments') \in Nat
      BY <1>2
    <3> QED
      BY <1>1, <1>2, <3>1
  <2> QED
    BY <1>1, <1>2, <2>1, <2>2 DEF ListInv, ListRead
<1>6. Added' = {}
  BY <1>1, <1>2 DEF Added
<1>7. ContentInv' /\ HostInv' /\ HostnamesInv'
  BY <1>1, <1>2, <1>6 DEF ContentInv, HostInv, HostnamesInv
<1>8. CommandInv'
  BY <1>1, <1>2 DEF CommandInv
<1> QED
  BY <1>3, <1>4, <1>5, <1>7, <1>8 DEF IInv

LEMMA ReadFailsInductive ==
  ASSUME IInv, ReadFails
  PROVE  IInv'
<1>1. /\ pc \in {"start", "failed"} /\ pc' = "failed"
      /\ UNCHANGED <<catalog, roles, next, Segments, ByContent, ByHost, Hostnames, ContentIDs,
                     scope, generator, commands>>
  BY DEF ReadFails, clusterVars, commandVars
<1>2. Rows' = Rows /\ Added' = Added
  BY <1>1 DEF Rows, Added
<1>3. TypeOK'
  BY <1>1 DEF IInv, TypeOK
<1>4. StartInv' /\ ListInv'
  BY <1>1, <1>2 DEF IInv, StartInv, ListInv
<1>5. ContentInv' /\ HostInv' /\ HostnamesInv'
  BY <1>1, <1>2 DEF IInv, ContentInv, HostInv, HostnamesInv
<1>6. CommandInv'
  BY <1>1 DEF IInv, CommandInv
<1> QED
  BY <1>3, <1>4, <1>5, <1>6 DEF IInv

\* A step that leaves a finished cluster alone keeps what is said of it.
LEMMA ClusterKept ==
  ASSUME IInv, Built, Built', UNCHANGED <<catalog, roles, Segments, ByContent, ByHost, Hostnames>>
  PROVE  StartInv' /\ ListInv' /\ ContentInv' /\ HostInv' /\ HostnamesInv'
<1>1. Rows' = Rows /\ Added' = Added
  BY DEF Rows, Added, Built
<1> QED
  BY <1>1 DEF IInv, Built, StartInv, ListInv, ContentInv, HostInv, HostnamesInv

LEMMA FinishBuildInductive ==
  ASSUME IInv, FinishBuild
  PROVE  IInv'
<1> DEFINE keys == {c \in ContentID : ByContent[c] # <<>>}
<1>1. /\ pc = "build" /\ pc' = "ready" /\ next > Len(Segments)
      /\ ContentIDs' \in ContentOrder(keys)
      /\ UNCHANGED <<catalog, roles, next, Segments, ByContent, ByHost, Hostnames,
                     scope, generator, commands>>
  BY DEF FinishBuild, commandVars
<1>2. ContentIDs' \in Seq(ContentID) /\ \A k \in DOMAIN ContentIDs' : ContentIDs'[k] \in keys
  <2>1. IsFiniteSet(ContentID)
    BY ClusterAssumption, FS_AddElement DEF ContentID
  <2>2. IsFiniteSet(keys)
    BY <2>1, FS_Subset
  <2>3. ContentIDs' \in SetToSeqs(keys)
    BY <1>1 DEF ContentOrder, Sorted
  <2>4. ContentIDs' \in Seq(keys)
    <3> HIDE DEF keys
    <3> QED
      BY <2>2, <2>3, OrderingFacts
  <2> QED
    BY <2>4
<1>3. TypeOK'
  BY <1>1, <1>2 DEF IInv, TypeOK
<1>4. Added = DOMAIN Segments /\ Added' = Added /\ Rows' = Rows
  <2>1. Segments \in Seq(SegConfig) /\ next \in 1 .. Len(Segments) + 1
    BY <1>1 DEF IInv, TypeOK, ListInv
  <2>2. next - 1 = Len(Segments)
    BY <1>1, <2>1
  <2> QED
    BY <1>1, <2>1, <2>2 DEF Added, Rows
<1>5. StartInv' /\ ListInv'
  BY <1>1, <1>4 DEF IInv, StartInv, ListInv
<1>6. ContentInv' /\ HostInv' /\ HostnamesInv'
  BY <1>1, <1>4 DEF IInv, ContentInv, HostInv, HostnamesInv
<1>7. CommandInv'
  BY <1>1, <1>2 DEF CommandInv
<1> QED
  BY <1>3, <1>5, <1>6, <1>7 DEF IInv

LEMMA GenerateInductive ==
  ASSUME IInv, NEW s \in Scope, NEW g \in {"content", "host", "other"}, Generate(s, g)
  PROVE  IInv'
<1>1. /\ pc \in {"ready", "generated"} /\ pc' \in {"generate", "generated"}
      /\ scope' = s /\ generator' = g /\ commands' = <<>> /\ next' = 1
      /\ UNCHANGED <<catalog, roles, Segments, ByContent, ByHost, Hostnames, ContentIDs>>
  BY DEF Generate, clusterVars
<1>2. TypeOK'
  BY <1>1 DEF IInv, TypeOK
<1>3. CommandInv'
  BY <1>1 DEF IInv, CommandInv
<1> QED
  BY <1>1, <1>2, <1>3, ClusterKept DEF IInv, Built

\* The lookups the generators make find a segment.
LEMMA LookupFinds ==
  ASSUME TypeOK, NEW c \in ContentID, ByContent[c] # <<>>
  PROVE  GetHostForContent(c, "p") \in Host
<1> DEFINE list == ByContent[c]
<1>1. list \in Seq(1 .. Len(Segments)) /\ Segments \in Seq(SegConfig)
  BY DEF TypeOK
<1>2. Len(list) # 0 /\ list[1] \in 1 .. Len(Segments)
  BY <1>1
<1>3. SegmentByRole(list, "p") = list[1]
  BY <1>2 DEF SegmentByRole
<1>4. Segments[list[1]].host \in Host /\ list[1] # 0
  <2>1. Segments[list[1]] \in SegConfig
    BY <1>1, <1>2
  <2>2. list[1] \in Nat \ {0}
    BY <1>2
  <2> QED
    BY <2>1, <2>2 DEF SegConfig
<1> QED
  BY <1>3, <1>4 DEF GetHostForContent

LEMMA ElementOf ==
  ASSUME NEW S, NEW s \in Seq(S), NEW n \in Nat \ {0}, n <= Len(s)
  PROVE  n \in DOMAIN s /\ s[n] \in S
<1>1. DOMAIN s = 1 .. Len(s) /\ Len(s) \in Nat
  OBVIOUS
<1>2. n \in DOMAIN s
  BY <1>1
<1> QED
  BY <1>2

\* Appending a command keeps what is said of each.
LEMMA CommandAdded ==
  ASSUME IInv, pc = "generate", pc' = "generate", next' = next + 1,
         UNCHANGED <<catalog, roles, Segments, ByContent, ByHost, Hostnames, ContentIDs,
                     scope, generator>>,
         NEW content \in ContentID \cup {-2}, NEW host \in Host \cup {NoHost}, NEW target \in Host,
         commands' = Append(commands, NewSSHCommand(content, host, target)),
         generator = "content" => content \in ContentID /\ target = GetHostForContent(content, "p"),
         generator = "host" => target = host
  PROVE  IInv'
<1> DEFINE new == NewSSHCommand(content, host, target)
<1>1. new \in ShellCommand
  BY DEF NewSSHCommand, ShellCommand, UseLocal
<1>2. commands \in Seq(ShellCommand)
  BY DEF IInv, TypeOK
<1>3. /\ commands' \in Seq(ShellCommand)
      /\ \A k \in DOMAIN commands' :
           \/ commands'[k] = new
           \/ k \in DOMAIN commands /\ commands'[k] = commands[k]
  <2>1. Append(commands, new) \in Seq(ShellCommand)
    BY <1>1, <1>2, AppendProperties
  <2>2. /\ DOMAIN commands = 1 .. Len(commands) /\ Len(commands) \in Nat
        /\ DOMAIN Append(commands, new) = 1 .. Len(commands) + 1
        /\ \A k \in DOMAIN commands : Append(commands, new)[k] = commands[k]
        /\ Append(commands, new)[Len(commands) + 1] = new
    BY <1>1, <1>2, AppendProperties
  <2> HIDE DEF new
  <2>3. \A k \in 1 .. Len(commands) + 1 : k \in 1 .. Len(commands) \/ k = Len(commands) + 1
    BY <2>2
  <2> QED
    BY <2>1, <2>2, <2>3 DEF new
<1>4. TypeOK'
  BY <1>3 DEF IInv, TypeOK
<1>5. CommandInv'
  <2>1. /\ new.bash = UseLocal(new.target)
        /\ new.content = content /\ new.target = target /\ new.host = host
    BY DEF NewSSHCommand
  <2>2. \A t : UseLocal(t)' = UseLocal(t)
    BY DEF UseLocal, GetHostForContent, SegmentByRole
  <2>3. \A c : GetHostForContent(c, "p")' = GetHostForContent(c, "p")
    BY DEF GetHostForContent, SegmentByRole
  <2> HIDE DEF new
  <2> QED
    BY <1>3, <2>1, <2>2, <2>3 DEF IInv, CommandInv
<1> QED
  BY <1>4, <1>5, ClusterKept DEF IInv, Built

LEMMA SkipInductive ==
  ASSUME IInv, pc = "generate", pc' \in {"generate", "generated"}, next' \in Nat \ {0},
         UNCHANGED <<catalog, roles, Segments, ByContent, ByHost, Hostnames, ContentIDs,
                     scope, generator, commands>>
  PROVE  IInv'
<1>1. TypeOK'
  BY DEF IInv, TypeOK
<1>2. CommandInv'
  <2>1. \A t : UseLocal(t)' = UseLocal(t)
    BY DEF UseLocal, GetHostForContent, SegmentByRole
  <2>2. \A c : GetHostForContent(c, "p")' = GetHostForContent(c, "p")
    BY DEF GetHostForContent, SegmentByRole
  <2> QED
    BY <2>1, <2>2 DEF IInv, CommandInv
<1> QED
  BY <1>1, <1>2, ClusterKept DEF IInv, Built

LEMMA GenerateContentInductive ==
  ASSUME IInv, GenerateForContent
  PROVE  IInv'
<1> DEFINE c == ContentIDs[next]
<1>1. /\ pc = "generate" /\ pc' = "generate" /\ next' = next + 1 /\ generator = "content"
      /\ UNCHANGED <<catalog, roles, Segments, ByContent, ByHost, Hostnames, ContentIDs,
                     scope, generator>>
  BY DEF GenerateForContent, clusterVars
<1>2. next \in Nat \ {0} /\ next' \in Nat \ {0}
  BY <1>1 DEF IInv, TypeOK
<1>3. CASE SkipContent(c)
  BY <1>1, <1>2, <1>3, SkipInductive DEF GenerateForContent
<1>4. CASE ~SkipContent(c)
  <2>1. commands' = Append(commands, NewSSHCommand(c, NoHost, GetHostForContent(c, "p")))
    BY <1>4 DEF GenerateForContent
  <2>2. c \in ContentID /\ ByContent[c] # <<>>
    <3>1. ContentIDs \in Seq(ContentID) /\ next <= Len(ContentIDs)
      BY DEF GenerateForContent, IInv, TypeOK
    <3>2. next \in DOMAIN ContentIDs /\ c \in ContentID
      BY <1>2, <3>1, ElementOf
    <3> QED
      BY <3>2 DEF IInv, CommandInv
  <2>3. GetHostForContent(c, "p") \in Host
    BY <2>2, LookupFinds DEF IInv
  <2> HIDE DEF c
  <2> QED
    BY <1>1, <2>1, <2>2, <2>3, CommandAdded
<1> QED
  BY <1>3, <1>4

LEMMA GenerateHostInductive ==
  ASSUME IInv, GenerateForHost
  PROVE  IInv'
<1> DEFINE h == Hostnames[next]
<1>1. /\ pc = "generate" /\ pc' = "generate" /\ next' = next + 1 /\ generator = "host"
      /\ UNCHANGED <<catalog, roles, Segments, ByContent, ByHost, Hostnames, ContentIDs,
                     scope, generator>>
  BY DEF GenerateForHost, clusterVars
<1>2. next \in Nat \ {0} /\ next' \in Nat \ {0}
  BY <1>1 DEF IInv, TypeOK
<1>3. CASE SkipHost(h)
  BY <1>1, <1>2, <1>3, SkipInductive DEF GenerateForHost
<1>4. CASE ~SkipHost(h)
  <2>1. commands' = Append(commands, NewSSHCommand(-2, h, h))
    BY <1>4 DEF GenerateForHost
  <2>2. h \in Host
    <3>1. Hostnames \in Seq(Host) /\ next <= Len(Hostnames)
      BY DEF GenerateForHost, IInv, TypeOK
    <3> QED
      BY <1>2, <3>1, ElementOf
  <2> HIDE DEF h
  <2> QED
    BY <1>1, <2>1, <2>2, CommandAdded
<1> QED
  BY <1>3, <1>4

-----------------------------------------------------------------------------
(* IInv is inductive.                                                      *)

LEMMA InitIInv ==
  ASSUME Init
  PROVE  IInv
<1>1. TypeOK
  BY DEF Init, TypeOK, Scope
<1>2. StartInv /\ ListInv /\ CommandInv
  BY DEF Init, StartInv, ListInv, CommandInv
<1>3. ContentInv /\ HostInv /\ HostnamesInv
  <2>1. Added = {}
    BY DEF Init, Added
  <2> QED
    BY <2>1 DEF Init, ContentInv, HostInv, HostnamesInv
<1> QED
  BY <1>1, <1>2, <1>3 DEF IInv

LEMMA StutterIInv ==
  ASSUME IInv, UNCHANGED vars
  PROVE  IInv'
<1>1. UNCHANGED <<catalog, pc, roles, next, Segments, ByContent, ByHost, Hostnames, ContentIDs,
                  scope, generator, commands>>
  BY DEF vars, clusterVars, commandVars
<1>2. Rows' = Rows /\ Added' = Added
  BY <1>1 DEF Rows, Added
<1>3. /\ \A t : UseLocal(t)' = UseLocal(t)
      /\ \A c : GetHostForContent(c, "p")' = GetHostForContent(c, "p")
  BY <1>1 DEF UseLocal, GetHostForContent, SegmentByRole
<1>4. TypeOK' /\ StartInv' /\ ListInv'
  BY <1>1, <1>2 DEF IInv, TypeOK, StartInv, ListInv
<1>5. ContentInv' /\ HostInv' /\ HostnamesInv'
  BY <1>1, <1>2 DEF IInv, ContentInv, HostInv, HostnamesInv
<1>6. CommandInv'
  BY <1>1, <1>3 DEF IInv, CommandInv
<1> QED
  BY <1>4, <1>5, <1>6 DEF IInv

\* Throughout reading, NewCluster and command generation the list holds the
\* rows asked for once, and the maps describe the part of it entered so far:
\* the invariant from which the properties below follow.
THEOREM Inductive == Spec => []IInv
<1>1. IInv /\ [Next]_vars => IInv'
  <2> SUFFICES ASSUME IInv, [Next]_vars PROVE IInv'
    OBVIOUS
  <2>1. CASE ReadFails \/ ListRead
    BY <2>1, ReadFailsInductive, ReadInductive
  <2>2. CASE \/ \E getMirrors \in GetMirrors : GetSegmentConfiguration(getMirrors)
             \/ \E lines \in SetToSeqs(Rows), malformed \in 0 .. Cardinality(Rows) :
                  GetSegmentConfigurationFromFile(lines, malformed)
    <3>1. ReadFails \/ ListRead
      BY <2>2, ReadingSteps DEF IInv
    <3> QED
      BY <2>1, <3>1
  <2>3. CASE AddSegment
    BY <2>3, AddInductive
  <2>4. CASE FinishBuild
    BY <2>4, FinishBuildInductive
  <2>5. CASE \E s \in Scope, g \in {"content", "host", "other"} : Generate(s, g)
    BY <2>5, GenerateInductive
  <2>6. CASE GenerateForContent
    BY <2>6, GenerateContentInductive
  <2>7. CASE GenerateForHost
    BY <2>7, GenerateHostInductive
  <2>8. CASE FinishGenerate
    <3>1. next' \in Nat \ {0}
      BY <2>8 DEF FinishGenerate, IInv, TypeOK
    <3> QED
      BY <2>8, <3>1, SkipInductive DEF FinishGenerate, clusterVars, commandVars
  <2>9. CASE UNCHANGED vars
    BY <2>9, StutterIInv
  <2> QED
    BY <2>1, <2>2, <2>3, <2>4, <2>5, <2>6, <2>7, <2>8, <2>9 DEF Next
<1>2. Init => IInv
  BY InitIInv
<1> QED
  BY <1>1, <1>2, PTL DEF Spec

-----------------------------------------------------------------------------
(* GenerateInv, beside IInv: what the loops have been through so far.      *)

LEMMA FinishBuildGenerates ==
  ASSUME IInv, FinishBuild
  PROVE  GenerateInv'
<1> DEFINE keys == {c \in ContentID : ByContent[c] # <<>>}
<1>1. pc' = "ready" /\ ByContent' = ByContent /\ ContentIDs' \in ContentOrder(keys)
  BY DEF FinishBuild
<1>2. /\ ContentIDs' \in SetToSeqs(keys)
      /\ \A j, k \in DOMAIN ContentIDs' : j < k => ContentIDs'[j] < ContentIDs'[k]
  BY <1>1 DEF ContentOrder, Sorted
<1>3. IsFiniteSet(keys)
  <2>1. IsFiniteSet(ContentID)
    BY ClusterAssumption, FS_AddElement DEF ContentID
  <2> QED
    BY <2>1, FS_Subset
<1>4. \A x \in keys : \E k \in DOMAIN ContentIDs' : ContentIDs'[k] = x
  <2> HIDE DEF keys
  <2> QED
    BY <1>2, <1>3, OrderingFacts
<1>5. ContentIDsInv'
  BY <1>1, <1>2, <1>4 DEF ContentIDsInv
<1> QED
  BY <1>1, <1>5 DEF GenerateInv, ProgressInv

\* The first n elements of F are the first m of L whose positions are in K,
\* in the same order.
Keeps(n, m, F, L, K) ==
  /\ \A k \in 1 .. n : \E i \in 1 .. m : F[k] = L[i] /\ i \in K
  /\ \A i \in 1 .. m : i \in K => \E k \in 1 .. n : F[k] = L[i]
  /\ \A j, k \in 1 .. n : j < k => \E h, i \in 1 .. m : h < i /\ F[j] = L[h] /\ F[k] = L[i]

LEMMA OneMore ==
  ASSUME NEW n \in Nat, NEW m \in Nat \ {0}, NEW F, NEW G, NEW L, NEW K,
         Keeps(n, m - 1, F, L, K), \A k \in 1 .. n : G[k] = F[k],
         G[n + 1] = L[m], m \in K
  PROVE  Keeps(n + 1, m, G, L, K)
<1>0. /\ \A k \in 1 .. n : \E i \in 1 .. m - 1 : F[k] = L[i] /\ i \in K
      /\ \A i \in 1 .. m - 1 : i \in K => \E k \in 1 .. n : F[k] = L[i]
      /\ \A j, k \in 1 .. n :
           j < k => \E h, i \in 1 .. m - 1 : h < i /\ F[j] = L[h] /\ F[k] = L[i]
  BY DEF Keeps
<1>1. /\ \A i \in 1 .. m - 1 : i \in 1 .. m /\ i < m
      /\ \A i \in 1 .. m : i \in 1 .. m - 1 \/ i = m
      /\ m \in 1 .. m
  OBVIOUS
<1>2. /\ \A k \in 1 .. n : k \in 1 .. n + 1
      /\ \A k \in 1 .. n + 1 : k \in 1 .. n \/ k = n + 1
      /\ n + 1 \in 1 .. n + 1
      /\ \A j, k \in 1 .. n + 1 : j < k => j \in 1 .. n
  OBVIOUS
<1>3. ASSUME NEW k \in 1 .. n + 1
      PROVE  \E i \in 1 .. m : G[k] = L[i] /\ i \in K
  <2>1. CASE k \in 1 .. n
    <3>1. PICK i \in 1 .. m - 1 : F[k] = L[i] /\ i \in K
      BY <1>0, <2>1
    <3> QED
      BY <1>1, <2>1, <3>1
  <2>2. CASE k = n + 1
    BY <1>1, <2>2
  <2> QED
    BY <1>2, <2>1, <2>2
<1>4. ASSUME NEW i \in 1 .. m, i \in K
      PROVE  \E k \in 1 .. n + 1 : G[k] = L[i]
  <2>1. CASE i \in 1 .. m - 1
    <3>1. PICK k \in 1 .. n : F[k] = L[i]
      BY <1>0, <1>4, <2>1
    <3> QED
      BY <1>2, <3>1
  <2>2. CASE i = m
    BY <1>2, <2>2
  <2> QED
    BY <1>1, <2>1, <2>2
<1>5. ASSUME NEW j \in 1 .. n + 1, NEW k \in 1 .. n + 1, j < k
      PROVE  \E h, i \in 1 .. m : h < i /\ G[j] = L[h] /\ G[k] = L[i]
  <2>1. j \in 1 .. n
    BY <1>2, <1>5
  <2>2. CASE k \in 1 .. n
    <3>1. PICK h \in 1 .. m - 1, i \in 1 .. m - 1 : h < i /\ F[j] = L[h] /\ F[k] = L[i]
      BY <1>0, <1>5, <2>1, <2>2
    <3> QED
      BY <1>1, <2>1, <2>2, <3>1
  <2>3. CASE k = n + 1
    <3>1. PICK h \in 1 .. m - 1 : F[j] = L[h]
      BY <1>0, <2>1
    <3> QED
      BY <1>1, <2>1, <2>3, <3>1
  <2> QED
    BY <1>2, <2>2, <2>3
<1> QED
  BY <1>3, <1>4, <1>5 DEF Keeps

\* One iteration of the loop that runs: the next element is left out, or gets
\* the command that is appended.
LEMMA LoopStep ==
  ASSUME TypeOK, TypeOK', ProgressInv, pc = "generate", pc' = "generate", generator \in {"content", "host"},
         next <= Len(Listed), next' = next + 1,
         UNCHANGED <<catalog, roles, clusterVars, scope, generator>>,
         \/ Skipped(Listed[next]) /\ commands' = commands
         \/ /\ ~Skipped(Listed[next])
            /\ \E c \in ShellCommand : /\ commands' = Append(commands, c)
                                       /\ Listed[next] = IF generator = "content" THEN c.content ELSE c.host
  PROVE  ProgressInv'
<1>1. Listed' = Listed /\ \A x : Skipped(x)' = Skipped(x)
  BY DEF clusterVars, Listed, Skipped, SkipContent, SkipHost, HostHasOneContent, GetHostForContent,
         SegmentByRole
<1>2. next \in Nat /\ Len(Listed) \in Nat /\ DOMAIN Listed = 1 .. Len(Listed)
  <2>1. ContentIDs \in Seq(ContentID) /\ Hostnames \in Seq(Host) /\ next \in Nat \ {0}
    BY DEF TypeOK
  <2>2. Listed \in Seq(ContentID) \/ Listed \in Seq(Host)
    BY <2>1 DEF Listed
  <2> QED
    BY <2>1, <2>2
<1>3. /\ Done = 1 .. next - 1 /\ Done' = Done \cup {next} /\ next \notin Done
      /\ \A i \in Done : i < next
  <2>1. Done = 1 .. next - 1 /\ Done' = 1 .. next' - 1
    BY DEF Done
  <2>2. next \in Nat \ {0} /\ next' = next + 1
    BY DEF TypeOK
  <2>3. 1 .. next' - 1 = 1 .. next
    BY <2>2
  <2>4. 1 .. next = (1 .. next - 1) \cup {next}
    BY <2>2
  <2> QED
    BY <2>1, <2>2, <2>3, <2>4
<1>4. next' <= Len(Listed) + 1
  BY <1>2
<1>5. /\ \A k \in DOMAIN commands : \E i \in Done : For(k) = Listed[i] /\ ~Skipped(Listed[i])
      /\ \A i \in Done : ~Skipped(Listed[i]) => \E k \in DOMAIN commands : For(k) = Listed[i]
      /\ \A j, k \in DOMAIN commands :
           j < k => \E h, i \in Done : h < i /\ For(j) = Listed[h] /\ For(k) = Listed[i]
  BY DEF ProgressInv
<1>6. SUFFICES
        /\ \A k \in DOMAIN commands' : \E i \in Done' : For(k)' = Listed[i] /\ ~Skipped(Listed[i])
        /\ \A i \in Done' : ~Skipped(Listed[i]) => \E k \in DOMAIN commands' : For(k)' = Listed[i]
        /\ \A j, k \in DOMAIN commands' :
             j < k => \E h, i \in Done' : h < i /\ For(j)' = Listed[h] /\ For(k)' = Listed[i]
  BY <1>1, <1>4 DEF ProgressInv
<1>7. CASE Skipped(Listed[next]) /\ commands' = commands
  <2>1. \A k \in DOMAIN commands : For(k)' = For(k)
    BY <1>7 DEF For
  <2>2. DOMAIN commands' = DOMAIN commands
    BY <1>7
  <2>3. \A k \in DOMAIN commands' : \E i \in Done' : For(k)' = Listed[i] /\ ~Skipped(Listed[i])
    <3> SUFFICES ASSUME NEW k \in DOMAIN commands
                 PROVE  \E i \in Done' : For(k)' = Listed[i] /\ ~Skipped(Listed[i])
      BY <2>2
    <3>1. PICK i \in Done : For(k) = Listed[i] /\ ~Skipped(Listed[i])
      BY <1>5
    <3> QED
      BY <1>3, <2>1, <3>1
  <2>4. \A i \in Done' : ~Skipped(Listed[i]) => \E k \in DOMAIN commands' : For(k)' = Listed[i]
    <3> SUFFICES ASSUME NEW i \in Done', ~Skipped(Listed[i])
                 PROVE  \E k \in DOMAIN commands' : For(k)' = Listed[i]
      OBVIOUS
    <3>1. i \in Done
      BY <1>3, <1>7
    <3>2. PICK k \in DOMAIN commands : For(k) = Listed[i]
      BY <1>5, <3>1
    <3> QED
      BY <2>1, <2>2, <3>2
  <2>5. \A j, k \in DOMAIN commands' :
          j < k => \E h, i \in Done' : h < i /\ For(j)' = Listed[h] /\ For(k)' = Listed[i]
    <3> SUFFICES ASSUME NEW j \in DOMAIN commands, NEW k \in DOMAIN commands, j < k
                 PROVE  \E h, i \in Done' : h < i /\ For(j)' = Listed[h] /\ For(k)' = Listed[i]
      BY <2>2
    <3>1. PICK h \in Done, i \in Done : h < i /\ For(j) = Listed[h] /\ For(k) = Listed[i]
      BY <1>5
    <3> QED
      BY <1>3, <2>1, <3>1
  <2> QED
    BY <2>3, <2>4, <2>5
<1>8. CASE /\ ~Skipped(Listed[next])
           /\ \E c \in ShellCommand : /\ commands' = Append(commands, c)
                                      /\ Listed[next] = IF generator = "content" THEN c.content ELSE c.host
  <2>1. PICK c \in ShellCommand : /\ commands' = Append(commands, c)
                                  /\ Listed[next] = IF generator = "content" THEN c.content ELSE c.host
    BY <1>8
  <2>2. commands \in Seq(ShellCommand)
    BY DEF TypeOK
  <2>3. PICK n \in Nat : n = Len(commands)
    BY <2>2
  <2>4. DOMAIN commands = 1 .. n /\ DOMAIN commands' = 1 .. n + 1
    BY <2>1, <2>2, <2>3, AppendProperties
  <2>5. /\ \A k \in 1 .. n : commands'[k] = commands[k]
        /\ commands'[n + 1] = c
    BY <2>1, <2>2, <2>3, AppendProperties
  <2>6. generator' = generator
    OBVIOUS
  <2> DEFINE F == [k \in 1 .. n |-> For(k)]
             G == [k \in 1 .. n + 1 |-> For(k)']
             K == {i \in 1 .. next : ~Skipped(Listed[i])}
  <2>7. \A k \in 1 .. n : F[k] = For(k) /\ G[k] = F[k]
    BY <2>3, <2>5, <2>6 DEF For
  <2>8. \A k \in 1 .. n + 1 : G[k] = For(k)'
    OBVIOUS
  <2>9. For(n + 1)' = Listed[next]
    BY <2>1, <2>5, <2>6 DEF For
  <2>10. G[n + 1] = Listed[next]
    BY <2>3, <2>8, <2>9
  <2>11. next \in Nat \ {0} /\ next \in K
    BY <1>8 DEF TypeOK
  <2>12. Done' = 1 .. next /\ Done = 1 .. next - 1
    BY <1>2, <1>3 DEF Done
  <2>13. \A i \in 1 .. next : i \in K <=> ~Skipped(Listed[i])
    OBVIOUS
  <2> HIDE DEF F, G, K
  <2>14. Keeps(n, next - 1, F, Listed, K)
    <3>1. \A i \in 1 .. next - 1 : i \in 1 .. next
      BY <2>11
    <3>2. ASSUME NEW k \in 1 .. n
          PROVE  \E i \in 1 .. next - 1 : F[k] = Listed[i] /\ i \in K
      <4>1. PICK i \in Done : For(k) = Listed[i] /\ ~Skipped(Listed[i])
        BY <1>5, <2>4
      <4> QED
        BY <2>7, <2>12, <2>13, <3>1, <4>1
    <3>3. ASSUME NEW i \in 1 .. next - 1, i \in K
          PROVE  \E k \in 1 .. n : F[k] = Listed[i]
      <4>1. i \in Done /\ ~Skipped(Listed[i])
        BY <2>12, <2>13, <3>1, <3>3
      <4>2. PICK k \in DOMAIN commands : For(k) = Listed[i]
        BY <1>5, <4>1
      <4> QED
        BY <2>4, <2>7, <4>2
    <3>4. ASSUME NEW j \in 1 .. n, NEW k \in 1 .. n, j < k
          PROVE  \E h, i \in 1 .. next - 1 : h < i /\ F[j] = Listed[h] /\ F[k] = Listed[i]
      <4>1. j \in DOMAIN commands /\ k \in DOMAIN commands
        BY <2>4
      <4>2. \E h, i \in Done : h < i /\ For(j) = Listed[h] /\ For(k) = Listed[i]
        BY <1>5, <3>4, <4>1
      <4> QED
        BY <2>7, <2>12, <4>2
    <3> QED
      BY <3>2, <3>3, <3>4 DEF Keeps
  <2>15. Keeps(n + 1, next, G, Listed, K)
    BY <2>7, <2>10, <2>11, <2>14, OneMore
  <2>16. ASSUME NEW k \in 1 .. n + 1
         PROVE  \E i \in Done' : For(k)' = Listed[i] /\ ~Skipped(Listed[i])
    <3>1. \E i \in 1 .. next : G[k] = Listed[i] /\ i \in K
      BY <2>15, Zenon DEF Keeps
    <3> QED
      BY <2>8, <2>12, <2>13, <3>1, Zenon
  <2>17. ASSUME NEW i \in 1 .. next, ~Skipped(Listed[i])
         PROVE  \E k \in 1 .. n + 1 : For(k)' = Listed[i]
    <3>1. \E k \in 1 .. n + 1 : G[k] = Listed[i]
      BY <2>13, <2>15, <2>17, Zenon DEF Keeps
    <3> QED
      BY <2>8, <3>1, Zenon
  <2>18. ASSUME NEW j \in DOMAIN commands', NEW k \in DOMAIN commands', j < k
         PROVE  \E h, i \in Done' : h < i /\ For(j)' = Listed[h] /\ For(k)' = Listed[i]
    <3>0. j \in 1 .. n + 1 /\ k \in 1 .. n + 1
      BY <2>4
    <3>1. \E h, i \in 1 .. next : h < i /\ G[j] = Listed[h] /\ G[k] = Listed[i]
      BY <2>15, <2>18, <3>0, Zenon DEF Keeps
    <3> QED
      BY <2>8, <2>12, <3>0, <3>1, Zenon
  <2>19. \A k \in DOMAIN commands' : \E i \in Done' : For(k)' = Listed[i] /\ ~Skipped(Listed[i])
    BY <2>4, <2>16, Zenon
  <2>20. \A i \in Done' : ~Skipped(Listed[i]) => \E k \in DOMAIN commands' : For(k)' = Listed[i]
    BY <2>4, <2>12, <2>17, Zenon
  <2> QED
    BY <2>18, <2>19, <2>20
<1> QED
  BY <1>7, <1>8

\* A step that leaves the list of contents alone.
LEMMA ContentIDsKept ==
  ASSUME ContentIDsInv, Built, UNCHANGED <<ByContent, ContentIDs>>
  PROVE  ContentIDsInv'
BY DEF ContentIDsInv

LEMMA GenerateStep ==
  ASSUME IInv, IInv', GenerateInv, [Next]_vars
  PROVE  GenerateInv'
<1>0. TypeOK /\ TypeOK' /\ ContentIDsInv /\ ProgressInv
  BY DEF IInv, GenerateInv
<1>1. CASE ReadFails \/ ListRead
  <2>1. pc' \in {"failed", "build"}
    BY <1>1 DEF ReadFails, ListRead
  <2> QED
    BY <2>1 DEF GenerateInv, ContentIDsInv, ProgressInv, Built
<1>2. CASE \/ \E getMirrors \in GetMirrors : GetSegmentConfiguration(getMirrors)
           \/ \E lines \in SetToSeqs(Rows), malformed \in 0 .. Cardinality(Rows) :
                GetSegmentConfigurationFromFile(lines, malformed)
  <2>1. ReadFails \/ ListRead
    BY <1>0, <1>2, ReadingSteps
  <2> QED
    BY <1>1, <2>1
<1>3. CASE AddSegment
  <2>1. pc' = "build"
    BY <1>3 DEF AddSegment
  <2> QED
    BY <2>1 DEF GenerateInv, ContentIDsInv, ProgressInv, Built
<1>4. CASE FinishBuild
  BY <1>4, FinishBuildGenerates
<1>5. CASE \E s \in Scope, g \in {"content", "host", "other"} : Generate(s, g)
  <2>1. PICK s \in Scope, g \in {"content", "host", "other"} : Generate(s, g)
    BY <1>5
  <2>2. /\ Built /\ UNCHANGED <<ByContent, ContentIDs, Hostnames>> /\ commands' = <<>> /\ next' = 1
        /\ generator' = g /\ pc' = IF g = "other" THEN "generated" ELSE "generate"
    BY <2>1 DEF Generate, Built, clusterVars
  <2>3. ContentIDsInv'
    BY <1>0, <2>2, ContentIDsKept
  <2>4. ProgressInv'
    <3> SUFFICES ASSUME generator' # "other" PROVE ProgressInv'
      BY DEF ProgressInv
    <3>1. pc' = "generate" /\ Done' = 1 .. next' - 1
      BY <2>2 DEF Done
    <3>2. Done' = {} /\ DOMAIN commands' = {}
      BY <2>2, <3>1
    <3>3. Len(Listed') \in Nat
      <4>1. ContentIDs' \in Seq(ContentID) /\ Hostnames' \in Seq(Host)
        BY <1>0 DEF TypeOK
      <4> QED
        BY <4>1 DEF Listed
    <3>4. next' <= Len(Listed') + 1
      BY <2>2, <3>3
    <3> QED
      BY <3>2, <3>4 DEF ProgressInv
  <2> QED
    BY <2>3, <2>4 DEF GenerateInv
<1>6. CASE GenerateForContent
  <2>1. /\ pc = "generate" /\ pc' = "generate" /\ generator = "content" /\ next' = next + 1
        /\ next <= Len(ContentIDs)
        /\ UNCHANGED <<catalog, roles, clusterVars, scope, generator>>
    BY <1>6 DEF GenerateForContent
  <2>2. Listed = ContentIDs /\ \A x : Skipped(x) <=> SkipContent(x)
    BY <2>1 DEF Listed, Skipped
  <2> DEFINE c   == ContentIDs[next]
             new == NewSSHCommand(c, NoHost, GetHostForContent(c, "p"))
  <2>3. CASE SkipContent(c)
    <3>1. commands' = commands
      BY <1>6, <2>3 DEF GenerateForContent
    <3>2. ProgressInv'
      BY <1>0, <2>1, <2>2, <2>3, <3>1, LoopStep
    <3> QED
      BY <1>0, <2>1, <3>2, ContentIDsKept DEF GenerateInv, clusterVars, Built
  <2>4. CASE ~SkipContent(c)
    <3>1. commands' = Append(commands, new)
      BY <1>6, <2>4 DEF GenerateForContent
    <3>2. new \in ShellCommand /\ new.content = c
      <4>1. ContentIDs \in Seq(ContentID) /\ next \in Nat \ {0}
        BY <1>0 DEF TypeOK
      <4>2. c \in ContentID /\ next \in DOMAIN ContentIDs
        BY <2>1, <4>1, ElementOf
      <4>3. ByContent[c] # <<>>
        BY <4>2 DEF IInv, CommandInv
      <4>4. GetHostForContent(c, "p") \in Host
        BY <1>0, <4>2, <4>3, LookupFinds
      <4> HIDE DEF c
      <4> QED
        BY <4>2, <4>4 DEF NewSSHCommand, ShellCommand, UseLocal
    <3>3. ProgressInv'
      <4> HIDE DEF new
      <4> QED
        BY <1>0, <2>1, <2>2, <2>4, <3>1, <3>2, LoopStep
    <3> QED
      BY <1>0, <2>1, <3>3, ContentIDsKept DEF GenerateInv, clusterVars, Built
  <2> QED
    BY <2>3, <2>4
<1>7. CASE GenerateForHost
  <2>1. /\ pc = "generate" /\ pc' = "generate" /\ generator = "host" /\ next' = next + 1
        /\ next <= Len(Hostnames)
        /\ UNCHANGED <<catalog, roles, clusterVars, scope, generator>>
    BY <1>7 DEF GenerateForHost
  <2>2. Listed = Hostnames /\ \A x : Skipped(x) <=> SkipHost(x)
    BY <2>1 DEF Listed, Skipped
  <2> DEFINE h   == Hostnames[next]
             new == NewSSHCommand(-2, h, h)
  <2>3. CASE SkipHost(h)
    <3>1. commands' = commands
      BY <1>7, <2>3 DEF GenerateForHost
    <3>2. ProgressInv'
      BY <1>0, <2>1, <2>2, <2>3, <3>1, LoopStep
    <3> QED
      BY <1>0, <2>1, <3>2, ContentIDsKept DEF GenerateInv, clusterVars, Built
  <2>4. CASE ~SkipHost(h)
    <3>1. commands' = Append(commands, new)
      BY <1>7, <2>4 DEF GenerateForHost
    <3>2. new \in ShellCommand /\ new.host = h
      <4>1. Hostnames \in Seq(Host) /\ next \in Nat \ {0}
        BY <1>0 DEF TypeOK
      <4>2. h \in Host
        BY <2>1, <4>1, ElementOf
      <4> HIDE DEF h
      <4> QED
        BY <4>2 DEF NewSSHCommand, ShellCommand, UseLocal
    <3>3. ProgressInv'
      <4> HIDE DEF new
      <4> QED
        BY <1>0, <2>1, <2>2, <2>4, <3>1, <3>2, LoopStep
    <3> QED
      BY <1>0, <2>1, <3>3, ContentIDsKept DEF GenerateInv, clusterVars, Built
  <2> QED
    BY <2>3, <2>4
<1>8. CASE FinishGenerate
  <2>1. /\ pc = "generate" /\ pc' = "generated"
        /\ next > Len(Listed)
        /\ UNCHANGED <<catalog, roles, next, clusterVars, commandVars>>
    BY <1>8 DEF FinishGenerate, Listed
  <2>2. /\ Listed' = Listed /\ \A x : Skipped(x)' = Skipped(x)
        /\ commands' = commands /\ \A k : For(k)' = For(k)
    BY <2>1 DEF clusterVars, commandVars, Listed, Skipped, SkipContent, SkipHost, HostHasOneContent,
                GetHostForContent, SegmentByRole, For
  <2>3. ASSUME generator # "other" PROVE Done' = Done
    <3>1. next \in Nat \ {0} /\ next <= Len(Listed) + 1
      BY <1>0, <2>1, <2>3 DEF TypeOK, ProgressInv
    <3>2. Len(Listed) \in Nat /\ DOMAIN Listed = 1 .. Len(Listed)
      <4>1. ContentIDs \in Seq(ContentID) /\ Hostnames \in Seq(Host)
        BY <1>0 DEF TypeOK
      <4>2. Listed \in Seq(ContentID) \/ Listed \in Seq(Host)
        BY <4>1 DEF Listed
      <4> QED
        BY <4>2
    <3>3. next - 1 = Len(Listed)
      BY <2>1, <3>1, <3>2
    <3> QED
      BY <2>1, <2>2, <3>2, <3>3 DEF Done
  <2>4. ProgressInv'
    BY <1>0, <2>1, <2>2, <2>3 DEF ProgressInv, commandVars
  <2> QED
    BY <1>0, <2>1, <2>4, ContentIDsKept DEF GenerateInv, clusterVars, Built
<1>9. CASE UNCHANGED vars
  <2>1. UNCHANGED <<pc, next, ByContent, ContentIDs, generator, commands>>
    BY <1>9 DEF vars, clusterVars, commandVars
  <2>2. /\ Listed' = Listed /\ Done' = Done /\ \A x : Skipped(x)' = Skipped(x)
        /\ \A k : For(k)' = For(k)
    BY <1>9 DEF vars, clusterVars, commandVars, Listed, Done, Skipped, SkipContent, SkipHost,
                HostHasOneContent, GetHostForContent, SegmentByRole, For
  <2> QED
    BY <1>0, <2>1, <2>2 DEF GenerateInv, ContentIDsInv, ProgressInv, Built
<1> QED
  BY <1>1, <1>2, <1>3, <1>4, <1>5, <1>6, <1>7, <1>8, <1>9 DEF Next

LEMMA Generating == Spec => []GenerateInv
<1>1. Init => GenerateInv
  BY DEF Init, GenerateInv, ContentIDsInv, ProgressInv, Built
<1>2. IInv /\ IInv' /\ GenerateInv /\ [Next]_vars => GenerateInv'
  BY GenerateStep
<1> QED
  BY <1>1, <1>2, Inductive, PTL DEF Spec

-----------------------------------------------------------------------------
(* What follows from IInv.                                                 *)

LEMMA BuiltLookup ==
  ASSUME IInv
  PROVE  LookupIsRight
<1> SUFFICES ASSUME Built, "p" \in roles, NEW c \in ContentID
    PROVE  /\ GetHostForContent(c, "p") = catalog[c].p
           /\ GetHostForContent(c, "m") = IF "m" \in roles THEN catalog[c].m ELSE NoHost
  BY DEF LookupIsRight
<1> DEFINE list    == ByContent[c]
           primary == [content |-> c, role |-> "p", host |-> catalog[c].p]
           mirror  == [content |-> c, role |-> "m", host |-> catalog[c].m]
<1>1. list \in Seq(1 .. Len(Segments)) /\ Segments \in Seq(SegConfig)
  BY DEF IInv, TypeOK
<1>2. \A k \in DOMAIN list : list[k] \in DOMAIN Segments /\ Segments[list[k]].content = c
  BY DEF IInv, ContentInv, Built, Added
<1>3. Len(list) \in Nat /\ Len(list) <= 2 /\ DOMAIN list = 1 .. Len(list)
  BY <1>1 DEF IInv, ContentInv
<1>4. ASSUME NEW k \in DOMAIN list
      PROVE  /\ list[k] # 0
             /\ Segments[list[k]].role \in roles
             /\ Segments[list[k]].role = "p" => Segments[list[k]].host = catalog[c].p
             /\ Segments[list[k]].role = "m" => Segments[list[k]].host = catalog[c].m
  <2>1. Segments[list[k]] \in Rows /\ Segments[list[k]].role \in roles
    BY <1>2 DEF IInv, ListInv
  <2>2. list[k] # 0
    BY <1>1
  <2> QED
    BY <1>2, <2>1, <2>2, RowFacts DEF IInv
<1>5. ASSUME NEW r \in Rows, r.content = c, r.role \in roles
      PROVE  \E k \in DOMAIN list : Segments[list[k]] = r
  <2>1. PICK i \in DOMAIN Segments : Segments[i] = r
    BY <1>5 DEF IInv, ListInv, Built
  <2>2. i \in Added
    BY DEF Added, Built
  <2> QED
    BY <1>5, <2>1, <2>2 DEF IInv, ContentInv
<1>6. PICK k \in DOMAIN list : Segments[list[k]] = primary
  <2>1. primary \in Rows
    BY DEF Rows
  <2> QED
    BY <1>5, <2>1
<1>7. Segments[list[k]].role = "p"
  BY <1>6
<1> HIDE DEF list, primary
<1>8. CASE Len(list) = 1
  <2>1. k = 1 /\ DOMAIN list = {1}
    BY <1>3, <1>8
  <2>2. SegmentByRole(list, "p") = list[1] /\ SegmentByRole(list, "m") = 0
    BY <1>8 DEF SegmentByRole
  <2>3. ASSUME "m" \in roles, catalog[c].m # NoHost
        PROVE  FALSE
    <3>1. mirror \in Rows
      BY <2>3 DEF Rows
    <3>2. PICK j \in DOMAIN list : Segments[list[j]] = mirror
      BY <1>5, <2>3, <3>1
    <3> QED
      BY <1>7, <2>1, <3>2
  <2> QED
    BY <1>4, <1>7, <2>1, <2>2, <2>3 DEF GetHostForContent, list
<1>9. CASE Len(list) = 2
  <2>1. 1 \in DOMAIN list /\ 2 \in DOMAIN list
    BY <1>3, <1>9
  <2>2. Segments[list[1]].role = "p" /\ Segments[list[2]].role = "m"
    BY <1>9 DEF IInv, ContentInv, list
  <2>3. SegmentByRole(list, "p") = list[1] /\ SegmentByRole(list, "m") = list[2]
    BY <1>9 DEF SegmentByRole
  <2> QED
    BY <1>4, <2>1, <2>2, <2>3 DEF GetHostForContent, list
<1>10. Len(list) # 0
  BY <1>3
<1> QED
  BY <1>3, <1>8, <1>9, <1>10, BelowTwo, Zenon

LEMMA BuiltHosts ==
  ASSUME IInv
  PROVE  HostsArePartitioned
<1> SUFFICES ASSUME Built
    PROVE  /\ IsInjective(Hostnames)
           /\ ToSet(Hostnames) = {Segments[i].host : i \in DOMAIN Segments}
           /\ \A h \in Host :
                /\ ToSet(ByHost[h]) = {i \in DOMAIN Segments : Segments[i].host = h}
                /\ \A j, k \in DOMAIN ByHost[h] : j < k => ByHost[h][j] < ByHost[h][k]
  BY DEF HostsArePartitioned
<1>1. Added = DOMAIN Segments
  BY DEF Added, Built
<1>2. ASSUME NEW h \in Host
      PROVE  /\ \A k \in DOMAIN ByHost[h] :
                  ByHost[h][k] \in DOMAIN Segments /\ Segments[ByHost[h][k]].host = h
             /\ \A i \in DOMAIN Segments :
                  Segments[i].host = h => \E k \in DOMAIN ByHost[h] : ByHost[h][k] = i
             /\ \A j, k \in DOMAIN ByHost[h] : j < k => ByHost[h][j] < ByHost[h][k]
  BY <1>1 DEF IInv, HostInv
<1>3. /\ Hostnames \in Seq(Host)
      /\ \A i \in DOMAIN Segments : Segments[i].host \in Host
      /\ \A h \in Host : ByHost[h] \in Seq(1 .. Len(Segments))
  <2>1. Hostnames \in Seq(Host) /\ \A h \in Host : ByHost[h] \in Seq(1 .. Len(Segments))
    BY DEF IInv, TypeOK
  <2>2. \A i \in DOMAIN Segments : Segments[i] \in SegConfig
    BY DEF IInv, TypeOK
  <2> QED
    BY <2>1, <2>2 DEF SegConfig
<1>4. IsInjective(Hostnames)
  BY DEF IInv, HostnamesInv, IsInjective
<1>5. \A h \in Host : ToSet(ByHost[h]) = {i \in DOMAIN Segments : Segments[i].host = h}
  BY <1>2 DEF ToSet
<1>6. ToSet(Hostnames) = {Segments[i].host : i \in DOMAIN Segments}
  <2>1. ASSUME NEW k \in DOMAIN Hostnames
        PROVE  \E i \in DOMAIN Segments : Segments[i].host = Hostnames[k]
    <3>1. Hostnames[k] \in Host /\ ByHost[Hostnames[k]] # <<>>
      BY <1>3 DEF IInv, HostnamesInv
    <3>2. 1 \in DOMAIN ByHost[Hostnames[k]]
      BY <1>3, <3>1
    <3> QED
      BY <1>2, <3>1, <3>2
  <2>2. ASSUME NEW i \in DOMAIN Segments
        PROVE  \E k \in DOMAIN Hostnames : Hostnames[k] = Segments[i].host
    <3>1. ByHost[Segments[i].host] # <<>>
      BY <1>2, <1>3
    <3> QED
      BY <1>3, <3>1 DEF IInv, HostnamesInv
  <2> QED
    BY <2>1, <2>2 DEF ToSet
<1> QED
  BY <1>2, <1>4, <1>5, <1>6

LEMMA CommandsRun ==
  ASSUME IInv
  PROVE  RunsWhereMeant
<1> SUFFICES ASSUME Generated, "p" \in roles, NEW k \in DOMAIN commands
    PROVE  RunsOn(commands[k]) = IF "local" \in scope THEN catalog[Coordinator].p
                                 ELSE IF generator = "host" THEN commands[k].host
                                 ELSE catalog[commands[k].content].p
  BY DEF RunsWhereMeant
<1>1. \A c \in ContentID : GetHostForContent(c, "p") = catalog[c].p
  BY BuiltLookup DEF LookupIsRight, Built, Generated
<1>2. commands[k].bash <=> commands[k].target = catalog[Coordinator].p \/ "local" \in scope
  <2>1. commands[k].bash = UseLocal(commands[k].target)
    BY DEF IInv, CommandInv, Generated
  <2> QED
    BY <1>1, <2>1 DEF UseLocal, ContentID
<1>3. generator = "content" => commands[k].target = catalog[commands[k].content].p
  BY <1>1 DEF IInv, CommandInv, Generated
<1>4. generator = "host" => commands[k].target = commands[k].host
  BY DEF IInv, CommandInv, Generated
<1>5. generator \in {"content", "host"}
  BY DEF IInv, TypeOK, Generated
<1> QED
  BY <1>2, <1>3, <1>4, <1>5 DEF RunsOn

\* The rows of Segments lead to the listed hosts and to the host's list.
LEMMA RowListed ==
  ASSUME IInv, Built, NEW r \in Rows, r.role \in roles
  PROVE  /\ \E i \in DOMAIN Segments : Segments[i] = r
         /\ r.host \in Host
         /\ \E k \in DOMAIN Hostnames : Hostnames[k] = r.host
<1>1. PICK i \in DOMAIN Segments : Segments[i] = r
  BY DEF IInv, ListInv, Built
<1>2. r.host \in Host
  BY RowFacts DEF IInv, SegConfig
<1>3. r.host \in ToSet(Hostnames)
  BY <1>1, BuiltHosts DEF HostsArePartitioned
<1> QED
  BY <1>1, <1>2, <1>3 DEF ToSet

\* A host with two rows has not one segment only.
LEMMA TwoRows ==
  ASSUME IInv, Built, NEW q \in Rows, NEW r \in Rows, q # r, q.host = r.host,
         q.role \in roles, r.role \in roles
  PROVE  ~HostHasOneContent(r.host)
<1> DEFINE list == ByHost[r.host]
<1>1. PICK i \in DOMAIN Segments : Segments[i] = q
  BY RowListed
<1>2. PICK j \in DOMAIN Segments : Segments[j] = r
  BY RowListed
<1>3. r.host \in Host
  BY RowListed
<1>4. i \in Added /\ j \in Added
  BY DEF Added, Built
<1>5. (\E k \in DOMAIN list : list[k] = i) /\ (\E k \in DOMAIN list : list[k] = j)
  BY <1>1, <1>2, <1>3, <1>4 DEF IInv, HostInv
<1>6. list \in Seq(1 .. Len(Segments))
  BY <1>3 DEF IInv, TypeOK
<1> HIDE DEF list
<1>7. Len(list) # 1
  BY <1>1, <1>2, <1>5, <1>6
<1> QED
  BY <1>7 DEF HostHasOneContent, list

\* A host with one segment has a list of length 1.
LEMMA OneRow ==
  ASSUME IInv, Built, NEW h \in Host, NEW a \in DOMAIN Segments, Segments[a].host = h,
         \A i \in DOMAIN Segments : Segments[i].host = h => i = a
  PROVE  HostHasOneContent(h)
<1> DEFINE list == ByHost[h]
<1>1. list \in Seq(1 .. Len(Segments))
  BY DEF IInv, TypeOK
<1>2. \E k \in DOMAIN list : list[k] = a
  BY DEF IInv, HostInv, Added, Built
<1>3. /\ \A k \in DOMAIN list : list[k] = a
      /\ \A j, k \in DOMAIN list : j < k => list[j] < list[k]
  BY DEF IInv, HostInv, Added, Built
<1>4. a \in Nat
  BY DEF IInv, TypeOK
<1> HIDE DEF list
<1>5. Len(list) = 1
  <2>1. Len(list) \in Nat /\ DOMAIN list = 1 .. Len(list)
    BY <1>1
  <2>2. Len(list) # 0
    BY <1>2, <2>1
  <2>3. ~(Len(list) >= 2)
    <3> SUFFICES ASSUME Len(list) >= 2 PROVE FALSE
      OBVIOUS
    <3>1. 1 \in DOMAIN list /\ 2 \in DOMAIN list
      BY <2>1
    <3>2. list[1] < list[2] /\ list[1] = a /\ list[2] = a
      BY <1>3, <3>1
    <3> QED
      BY <1>4, <3>2
  <2> QED
    BY <2>1, <2>2, <2>3
<1> QED
  BY <1>5 DEF HostHasOneContent, list

\* The segment for which a host is skipped: the coordinator, or its standby.
LEMMA SkippedRow ==
  ASSUME IInv, Built, "p" \in roles, NEW h \in Host, SkipHost(h)
  PROVE  \E q \in Rows : /\ q.host = h /\ q.role \in roles /\ q.content = Coordinator
                         /\ \/ q.role = "p" /\ "coordinator" \notin scope
                            \/ q.role = "m" /\ "mirrors" \notin scope
<1>1. Coordinator \in ContentID
  BY DEF ContentID
<1>2. /\ GetHostForContent(Coordinator, "p") = catalog[Coordinator].p
      /\ GetHostForContent(Coordinator, "m") =
           IF "m" \in roles THEN catalog[Coordinator].m ELSE NoHost
  BY <1>1, BuiltLookup DEF LookupIsRight
<1>3. CASE h = catalog[Coordinator].p /\ "coordinator" \notin scope
  <2> DEFINE q == [content |-> Coordinator, role |-> "p", host |-> catalog[Coordinator].p]
  <2>1. q \in Rows
    BY <1>1 DEF Rows
  <2> QED
    BY <1>3, <2>1
<1>4. CASE h = GetHostForContent(Coordinator, "m") /\ "mirrors" \notin scope
  <2>1. "m" \in roles /\ h = catalog[Coordinator].m /\ h # NoHost
    BY <1>2, <1>4, ClusterAssumption
  <2> DEFINE q == [content |-> Coordinator, role |-> "m", host |-> catalog[Coordinator].m]
  <2>2. q \in Rows
    BY <1>1, <2>1 DEF Rows
  <2> QED
    BY <1>4, <2>1, <2>2
<1> QED
  BY <1>2, <1>3, <1>4 DEF SkipHost

\* The row for which a host is asked for.
LEMMA AskedRow ==
  ASSUME TypeOK, "p" \in roles, NEW h \in HostsAskedFor
  PROVE  \E r \in Rows : /\ r.host = h /\ r.role \in roles
                         /\ \/ r.content \in Content /\ r.role = "p"
                            \/ r.role = "p" /\ "coordinator" \in scope
                            \/ r.role = "m" /\ "mirrors" \in scope
<1>1. ASSUME NEW c \in ContentID
      PROVE  [content |-> c, role |-> "p", host |-> catalog[c].p] \in Rows
  BY DEF Rows
<1>2. ASSUME NEW c \in ContentID, catalog[c].m # NoHost
      PROVE  [content |-> c, role |-> "m", host |-> catalog[c].m] \in Rows
  BY <1>2 DEF Rows
<1>3. CASE \E c \in Content : h = catalog[c].p
  <2>1. PICK c \in Content : h = catalog[c].p
    BY <1>3
  <2>2. c \in ContentID
    BY DEF ContentID
  <2> QED
    BY <1>1, <2>1, <2>2
<1>4. CASE "coordinator" \in scope /\ h = catalog[Coordinator].p
  <2>1. Coordinator \in ContentID
    BY DEF ContentID
  <2> QED
    BY <1>1, <1>4, <2>1
<1>5. CASE /\ "mirrors" \in scope /\ "m" \in roles
           /\ \E c \in ContentID : h = catalog[c].m /\ h # NoHost
  <2>1. PICK c \in ContentID : h = catalog[c].m /\ h # NoHost
    BY <1>5
  <2> QED
    BY <1>2, <1>5, <2>1
<1> QED
  BY <1>3, <1>4, <1>5 DEF HostsAskedFor

\* What ProgressInv says of a list that is complete.
LEMMA ListDone ==
  ASSUME GenerateInv, Generated
  PROVE  /\ \A k \in DOMAIN commands : \E i \in DOMAIN Listed : For(k) = Listed[i] /\ ~Skipped(Listed[i])
         /\ \A i \in DOMAIN Listed : ~Skipped(Listed[i]) => \E k \in DOMAIN commands : For(k) = Listed[i]
         /\ \A j, k \in DOMAIN commands :
              j < k => \E h, i \in DOMAIN Listed : h < i /\ For(j) = Listed[h] /\ For(k) = Listed[i]
BY DEF GenerateInv, ProgressInv, Generated, Done

LEMMA ContentsInOrder ==
  ASSUME IInv, GenerateInv
  PROVE  CommandsInOrder
<1> SUFFICES ASSUME Generated, generator = "content",
                    NEW j \in DOMAIN commands, NEW k \in DOMAIN commands, j < k
             PROVE  commands[j].content < commands[k].content
  BY DEF CommandsInOrder
<1>1. Listed = ContentIDs /\ For(j) = commands[j].content /\ For(k) = commands[k].content
  BY DEF Listed, For
<1>2. PICK h \in DOMAIN ContentIDs, i \in DOMAIN ContentIDs :
        h < i /\ For(j) = ContentIDs[h] /\ For(k) = ContentIDs[i]
  BY <1>1, ListDone
<1>3. ContentIDs[h] < ContentIDs[i]
  BY <1>2 DEF GenerateInv, ContentIDsInv, Built, Generated
<1> QED
  BY <1>1, <1>2, <1>3

\* A host that is asked for is not skipped: another row of it was read.
LEMMA AskedNotSkipped ==
  ASSUME IInv, Built, "p" \in roles, NEW h \in HostsAskedFor
  PROVE  (\E k \in DOMAIN Hostnames : Hostnames[k] = h) /\ ~SkipHost(h)
<1>1. PICK r \in Rows : /\ r.host = h /\ r.role \in roles
                       /\ \/ r.content \in Content /\ r.role = "p"
                          \/ r.role = "p" /\ "coordinator" \in scope
                          \/ r.role = "m" /\ "mirrors" \in scope
  BY AskedRow DEF IInv
<1>2. h \in Host /\ \E k \in DOMAIN Hostnames : Hostnames[k] = h
  BY <1>1, RowListed
<1>3. ASSUME SkipHost(h)
      PROVE  FALSE
  <2>1. PICK q \in Rows : /\ q.host = h /\ q.role \in roles /\ q.content = Coordinator
                         /\ \/ q.role = "p" /\ "coordinator" \notin scope
                            \/ q.role = "m" /\ "mirrors" \notin scope
    BY <1>2, <1>3, SkippedRow
  <2>2. q # r
    <3>1. Coordinator \notin Content
      BY ClusterAssumption DEF Coordinator
    <3> QED
      BY <1>1, <2>1, <3>1
  <2>3. ~HostHasOneContent(h)
    BY <1>1, <2>1, <2>2, TwoRows
  <2> QED
    BY <1>3, <2>3 DEF SkipHost
<1> QED
  BY <1>2, <1>3

LEMMA HostsOnce ==
  ASSUME IInv, GenerateInv, Generated, generator = "host", "p" \in roles
  PROVE  /\ \A h \in HostsAskedFor : \E k \in DOMAIN commands : commands[k].host = h
         /\ \A j, k \in DOMAIN commands : commands[j].host = commands[k].host => j = k
<1>1. Listed = Hostnames /\ Built
  BY DEF Listed, Built, Generated
<1>2. /\ \A k \in DOMAIN commands : For(k) = commands[k].host
      /\ \A x : Skipped(x) <=> SkipHost(x)
  BY DEF For, Skipped
<1>3. ASSUME NEW h \in HostsAskedFor
      PROVE  \E k \in DOMAIN commands : commands[k].host = h
  <2>1. PICK i \in DOMAIN Hostnames : Hostnames[i] = h /\ ~SkipHost(h)
    BY <1>1, AskedNotSkipped
  <2>2. ~Skipped(Listed[i]) /\ i \in DOMAIN Listed
    BY <1>1, <1>2, <2>1
  <2>3. \E k \in DOMAIN commands : For(k) = Listed[i]
    BY <2>2, ListDone
  <2> QED
    BY <1>1, <1>2, <2>1, <2>3
<1>4. ASSUME NEW j \in DOMAIN commands, NEW k \in DOMAIN commands, j < k
      PROVE  commands[j].host # commands[k].host
  <2>1. PICK h \in DOMAIN Hostnames, i \in DOMAIN Hostnames :
          h < i /\ For(j) = Hostnames[h] /\ For(k) = Hostnames[i]
    BY <1>1, <1>4, ListDone
  <2>2. h # i
    <3>1. Hostnames \in Seq(Host)
      BY DEF IInv, TypeOK
    <3> QED
      BY <2>1, <3>1
  <2>3. Hostnames[h] # Hostnames[i]
    BY <2>2 DEF IInv, HostnamesInv
  <2> QED
    BY <1>2, <2>1, <2>3
<1>5. ASSUME NEW j \in DOMAIN commands, NEW k \in DOMAIN commands, j # k
      PROVE  j < k \/ k < j
  <2>1. commands \in Seq(ShellCommand)
    BY DEF IInv, TypeOK
  <2> QED
    BY <1>5, <2>1
<1>6. ASSUME NEW j \in DOMAIN commands, NEW k \in DOMAIN commands, j # k
      PROVE  commands[j].host # commands[k].host
  BY <1>4, <1>5, <1>6
<1> QED
  BY <1>3, <1>6

LEMMA ContentsOnce ==
  ASSUME IInv, GenerateInv, Generated, generator = "content", "p" \in roles
  PROVE  /\ {commands[k].content : k \in DOMAIN commands} = ContentsAskedFor
         /\ \A j, k \in DOMAIN commands : commands[j].content = commands[k].content => j = k
<1>1. Listed = ContentIDs /\ Built
  BY DEF Listed, Built, Generated
<1>2. /\ \A k \in DOMAIN commands : For(k) = commands[k].content
      /\ \A x : Skipped(x) <=> SkipContent(x)
  BY DEF For, Skipped
<1> DEFINE asked == ContentsAskedFor
<1>3. /\ asked \subseteq ContentID
      /\ \A c \in ContentID : c \in asked <=> ~SkipContent(c)
  <2>1. Coordinator \notin Content
    BY ClusterAssumption DEF Coordinator
  <2> QED
    BY <2>1 DEF SkipContent, ContentID, ContentsAskedFor
<1> HIDE DEF asked
<1>4. ASSUME NEW k \in DOMAIN commands
      PROVE  commands[k].content \in asked
  <2>1. PICK i \in DOMAIN ContentIDs : For(k) = ContentIDs[i] /\ ~Skipped(ContentIDs[i])
    BY <1>1, ListDone
  <2>2. ContentIDs[i] \in ContentID
    BY DEF IInv, TypeOK
  <2> QED
    BY <1>2, <1>3, <2>1, <2>2
<1>5. ASSUME NEW c \in asked
      PROVE  \E k \in DOMAIN commands : commands[k].content = c
  <2>1. c \in ContentID /\ ~SkipContent(c)
    BY <1>3
  <2>2. ByContent[c] # <<>>
    <3>1. PICK i \in DOMAIN Segments : Segments[i].content = c
      <4> DEFINE r == [content |-> c, role |-> "p", host |-> catalog[c].p]
      <4>1. r \in Rows
        BY <2>1 DEF Rows
      <4> QED
        BY <1>1, <4>1, RowListed
    <3>2. \E k \in DOMAIN ByContent[c] : ByContent[c][k] = i
      BY <1>1, <2>1, <3>1 DEF IInv, ContentInv, Added, Built
    <3> QED
      BY <3>2
  <2>3. PICK i \in DOMAIN ContentIDs : ContentIDs[i] = c
    BY <1>1, <2>1, <2>2 DEF GenerateInv, ContentIDsInv
  <2>4. \E k \in DOMAIN commands : For(k) = ContentIDs[i]
    BY <1>1, <1>2, <2>1, <2>3, ListDone
  <2> QED
    BY <1>2, <2>3, <2>4
<1>6. \A k \in DOMAIN commands : commands[k].content \in Int
  <2>1. ContentID \subseteq Int
    BY ClusterAssumption DEF ContentID, Coordinator
  <2>2. asked \subseteq ContentID
    BY <1>3
  <2> QED
    BY <1>4, <2>1, <2>2
<1>7. \A j, k \in DOMAIN commands : j < k => commands[j].content # commands[k].content
  <2>1. \A j, k \in DOMAIN commands : j < k => commands[j].content < commands[k].content
    BY ContentsInOrder DEF CommandsInOrder
  <2> QED
    BY <1>6, <2>1
<1>8. \A j, k \in DOMAIN commands : commands[j].content = commands[k].content => j = k
  <2>1. DOMAIN commands \subseteq Int
    BY DEF IInv, TypeOK
  <2> QED
    BY <1>7, <2>1
<1> QED
  BY <1>4, <1>5, <1>8 DEF asked

LEMMA LoneSpared ==
  ASSUME IInv, GenerateInv
  PROVE  LoneCoordinatorsSpared
<1> DEFINE here(k) == {i \in DOMAIN Segments : Segments[i].host = commands[k].host}
           lone(r) == {i \in DOMAIN Segments : Segments[i].content = Coordinator /\ Segments[i].role = r}
<1> SUFFICES ASSUME Generated, generator = "host", "p" \in roles, NEW k \in DOMAIN commands
             PROVE  /\ "coordinator" \notin scope => here(k) # lone("p")
                    /\ "mirrors" \notin scope => here(k) # lone("m")
  BY DEF LoneCoordinatorsSpared
<1>1. PICK h \in Host : /\ h = commands[k].host /\ ~SkipHost(h)
                       /\ \E i \in DOMAIN Segments : Segments[i].host = h
  <2>1. Listed = Hostnames /\ For(k) = commands[k].host /\ \A x : Skipped(x) <=> SkipHost(x)
    BY DEF Listed, For, Skipped
  <2>2. PICK j \in DOMAIN Hostnames : For(k) = Hostnames[j] /\ ~SkipHost(Hostnames[j])
    BY <2>1, ListDone
  <2>3. Hostnames[j] \in Host
    BY DEF IInv, TypeOK
  <2>4. Hostnames[j] \in ToSet(Hostnames)
    BY DEF ToSet
  <2>5. \E i \in DOMAIN Segments : Segments[i].host = Hostnames[j]
    BY <2>4, BuiltHosts DEF HostsArePartitioned, Built, Generated
  <2> QED
    BY <2>1, <2>2, <2>3, <2>5
<1>2. ASSUME NEW r \in {"p", "m"}, here(k) = lone(r)
      PROVE  /\ r \in roles /\ HostHasOneContent(h)
             /\ h = IF r = "p" THEN catalog[Coordinator].p ELSE catalog[Coordinator].m
  <2>1. PICK a \in DOMAIN Segments : Segments[a].host = h
    BY <1>1
  <2>2. \A i \in DOMAIN Segments :
          Segments[i].host = h => Segments[i].content = Coordinator /\ Segments[i].role = r
    BY <1>1, <1>2
  <2>3. \A i \in DOMAIN Segments : Segments[i] \in Rows /\ Segments[i].role \in roles
    BY DEF IInv, ListInv
  <2>4. \A i \in DOMAIN Segments : Segments[i].host = h => i = a
    BY <2>1, <2>2, <2>3, RowFacts DEF IInv, ListInv
  <2>5. HostHasOneContent(h)
    BY <2>1, <2>4, OneRow DEF Built, Generated
  <2>6. h = IF r = "p" THEN catalog[Coordinator].p ELSE catalog[Coordinator].m
    BY <2>1, <2>2, <2>3, RowFacts DEF IInv
  <2> QED
    BY <2>1, <2>2, <2>3, <2>5, <2>6
<1>3. /\ GetHostForContent(Coordinator, "p") = catalog[Coordinator].p
      /\ "m" \in roles => GetHostForContent(Coordinator, "m") = catalog[Coordinator].m
  BY BuiltLookup DEF LookupIsRight, ContentID, Built, Generated
<1> HIDE DEF here, lone
<1>4. ASSUME "coordinator" \notin scope, here(k) = lone("p")
      PROVE  FALSE
  BY <1>1, <1>2, <1>3, <1>4 DEF SkipHost
<1>5. ASSUME "mirrors" \notin scope, here(k) = lone("m")
      PROVE  FALSE
  BY <1>1, <1>2, <1>3, <1>5 DEF SkipHost
<1> QED
  BY <1>4, <1>5

\* The variables keep their types; the positions in the maps are of segments.
THEOREM TypeCorrect == Spec => []TypeOK
<1>1. IInv => TypeOK
  BY DEF IInv
<1> QED
  BY <1>1, Inductive, PTL

\* In every order of the rows, the getters of a built cluster give the
\* catalog's hosts: GetSegmentConfigurationFromFile does not sort.
THEOREM Lookup == Spec => []LookupIsRight
<1>1. IInv => LookupIsRight
  BY BuiltLookup
<1> QED
  BY <1>1, Inductive, PTL

\* Hostnames and ByHost describe every segment once, in the order read.
THEOREM HostsPartitioned == Spec => []HostsArePartitioned
<1>1. IInv => HostsArePartitioned
  BY BuiltHosts
<1> QED
  BY <1>1, Inductive, PTL

\* A generated command runs where its scope says: UseLocal picks bash exactly
\* on the coordinator's host or with ON_LOCAL, when the primaries were read.
THEOREM CommandsRunWhereMeant == Spec => []RunsWhereMeant
<1>1. IInv => RunsWhereMeant
  BY CommandsRun
<1> QED
  BY <1>1, Inductive, PTL

\* GenerateSSHCommandList goes over ContentIDs, which NewCluster has sorted:
\* the commands come in the order of the content ids.
THEOREM InOrder == Spec => []CommandsInOrder
<1>1. IInv /\ GenerateInv => CommandsInOrder
  BY ContentsInOrder
<1> QED
  BY <1>1, Inductive, Generating, PTL

\* No host that the scope asks for is skipped: HostHasOneContent keeps the
\* coordinator's host, and the standby's, when another segment is on it.  Every
\* content asked for gets exactly one command, because the sorted ContentIDs
\* list it once.
THEOREM AskedOnce == Spec => []EachAskedOnce
<1>1. IInv /\ GenerateInv => EachAskedOnce
  <2> SUFFICES ASSUME IInv, GenerateInv, Generated, "p" \in roles
               PROVE  EachAskedOnce
    BY DEF EachAskedOnce
  <2>1. generator \in {"content", "host"}
    BY DEF IInv, TypeOK, Generated
  <2>2. CASE generator = "host"
    BY <2>2, HostsOnce DEF EachAskedOnce
  <2>3. CASE generator = "content"
    BY <2>3, ContentsOnce DEF EachAskedOnce
  <2> QED
    BY <2>1, <2>2, <2>3
<1> QED
  BY <1>1, Inductive, Generating, PTL

\* A host with nothing but the coordinator, or the standby, is skipped by a
\* scope without them.
THEOREM LoneSkipped == Spec => []LoneCoordinatorsSpared
<1>1. IInv /\ GenerateInv => LoneCoordinatorsSpared
  BY LoneSpared
<1> QED
  BY <1>1, Inductive, Generating, PTL
=============================================================================
