--------------------------- MODULE RuleFileProofs ---------------------------
(***************************************************************************)
(* Proofs about RuleFile: SIDs and features under the lock, and what the   *)
(* healing takes away, for every value of the constants.                   *)
(***************************************************************************)
EXTENDS RuleFile, FiniteSetTheorems, SequenceTheorems, WellFoundedInduction, TLAPS

-----------------------------------------------------------------------------
(* Sets of SIDs                                                            *)

\* A finite set of numbers has a greatest: the least of its parts that reaches as high as
\* the whole has one element.
LEMMA GreatestOf ==
    ASSUME NEW S, S \subseteq Nat, S # {}, IsFiniteSet(S)
    PROVE  \E x \in S : \A y \in S : x >= y
<1> DEFINE Reaching(s) == \A x \in S : \E y \in s : x <= y
           T == {s \in SUBSET S : s # {} /\ Reaching(s)}
<1>1. S \in T  OBVIOUS
<1>2. IsWellFoundedOn(StrictSubsetOrdering(S), SUBSET S)
  BY FS_StrictSubsetOrderingWellFounded, FS_FiniteSubsetsOfFinite, Zenon
<1>3. T \subseteq SUBSET S /\ T # {}  BY <1>1
<1> HIDE DEF T
<1>4. PICK m \in T : \A s \in T : <<s, m>> \notin StrictSubsetOrdering(S)  BY <1>2, <1>3, WFMin, Zenon
<1>5. m \in SUBSET S /\ m # {} /\ Reaching(m)  BY <1>4 DEF T
<1>6. PICK a \in m : TRUE  BY <1>5
<1>7. ASSUME NEW b \in m, b # a  PROVE FALSE
  <2> DEFINE low == IF a < b THEN a ELSE b
             high == IF a < b THEN b ELSE a
             s == m \ {low}
  <2>1. a \in Nat /\ b \in Nat  BY <1>5, <1>6, <1>7
  <2>2. low \in m /\ high \in s /\ low <= high  BY <1>6, <1>7, <2>1
  <2>3. ASSUME NEW x \in S  PROVE \E y \in s : x <= y
    <3>1. PICK y \in m : x <= y  BY <1>5
    <3>2. x \in Nat /\ y \in Nat /\ low \in Nat /\ high \in Nat  BY <1>5, <2>1, <3>1
    <3>3. CASE y = low
      <4>1. x <= high  BY <2>2, <3>1, <3>2, <3>3
      <4> QED  BY <2>2, <4>1
    <3>4. CASE y # low  BY <3>1, <3>4
    <3> QED  BY <3>3, <3>4
  <2>4. s \in SUBSET S /\ s # {}  BY <1>5, <2>2
  <2>5. s \in T  BY <2>3, <2>4 DEF T
  <2>6. s \subseteq m /\ s # m  BY <2>2
  <2> HIDE DEF s
  <2>7. <<s, m>> \in StrictSubsetOrdering(S)  BY <1>5, <2>4, <2>6 DEF StrictSubsetOrdering
  <2> QED  BY <1>4, <2>5, <2>7
<1>8. \A x \in S : x <= a  BY <1>5, <1>6, <1>7
<1>9. a \in S /\ \A y \in S : a >= y  BY <1>5, <1>6, <1>8
<1> QED  BY <1>9

\* The SID that is given is above all those known.
LEMMA NextSidIsNew ==
    ASSUME NEW sids, sids \subseteq Nat, IsFiniteSet(sids)
    PROVE  NextSid(sids) \in Nat /\ NextSid(sids) \notin sids
<1>1. CASE sids = {}  BY <1>1, FileAssumption DEF NextSid
<1>2. CASE sids # {}
  <2>1. \E x \in sids : \A y \in sids : x >= y  BY <1>2, GreatestOf
  <2>2. Max(sids) \in sids /\ \A y \in sids : Max(sids) >= y  BY <2>1 DEF Max
  <2> DEFINE m == Max(sids)
  <2>3. m \in Nat /\ \A y \in sids : y \in Nat /\ m >= y  BY <2>2
  <2>4. NextSid(sids) = m + 1  BY <1>2 DEF NextSid
  <2> HIDE DEF m
  <2> QED  BY <2>3, <2>4
<1> QED  BY <1>1, <1>2

-----------------------------------------------------------------------------
(* The lines of a file                                                     *)

Generated(f) == {n \in Live(f) : ~f[n].parts[1].hand}
GeneratedSids(f) == {f[n].parts[1].sid : n \in Generated(f)}
SidsDiffer(f, ex) ==
    \A m, n \in Generated(f) : m # n /\ f[m].parts[1].sid = f[n].parts[1].sid => f[m].parts[1].sid \in ex
ContentsDiffer(f) ==
    \A m, n \in Generated(f) : m # n /\ Contents[f[m].parts[1].rule] # {} =>
                                  Contents[f[m].parts[1].rule] # Contents[f[n].parts[1].rule]
\* A generated rule that comes first on its line is alone there.
Lined(f) == /\ f \in Seq(Line)
            /\ \A n \in DOMAIN f : /\ f[n].parts # << >>
                                   /\ ~f[n].parts[1].hand => Len(f[n].parts) = 1 /\ f[n].ended
Remembered(f, features) ==
    \A n \in Generated(f) : Contents[f[n].parts[1].rule] # {} => Contents[f[n].parts[1].rule] \in features

\* What a line is made of.
LEMMA LineFacts ==
    ASSUME NEW f, Lined(f)
    PROVE  /\ Len(f) \in Nat /\ DOMAIN f = 1..Len(f)
           /\ \A n \in DOMAIN f :
                 /\ f[n] \in Line /\ f[n].parts \in Seq(Part) /\ f[n].comment \in BOOLEAN /\ f[n].ended \in BOOLEAN
                 /\ Len(f[n].parts) \in Nat /\ Len(f[n].parts) >= 1
                 /\ f[n].parts[1] \in Part /\ f[n].parts[1].sid \in Nat
                 /\ f[n].parts[1].rule \in Rules \cup HandRules /\ f[n].parts[1].hand \in BOOLEAN
<1>1. f \in Seq(Line)  BY DEF Lined
<1>2. Len(f) \in Nat /\ DOMAIN f = 1..Len(f) /\ \A n \in DOMAIN f : f[n] \in Line  BY <1>1
<1>3. ASSUME NEW n \in DOMAIN f
      PROVE  /\ f[n].parts \in Seq(Part) /\ f[n].comment \in BOOLEAN /\ f[n].ended \in BOOLEAN
             /\ Len(f[n].parts) \in Nat /\ Len(f[n].parts) >= 1
             /\ f[n].parts[1] \in Part /\ f[n].parts[1].sid \in Nat
             /\ f[n].parts[1].rule \in Rules \cup HandRules /\ f[n].parts[1].hand \in BOOLEAN
  <2>1. f[n].parts \in Seq(Part) /\ f[n].comment \in BOOLEAN /\ f[n].ended \in BOOLEAN  BY <1>2, <1>3 DEF Line
  <2>2. f[n].parts # << >>  BY <1>3 DEF Lined
  <2> DEFINE ps == f[n].parts
  <2>3. ps \in Seq(Part) /\ ps # << >>  BY <2>1, <2>2
  <2> HIDE DEF ps
  <2>4. Len(ps) \in Nat /\ Len(ps) >= 1 /\ ps[1] \in Part  BY <2>3
  <2>5. ps[1].sid \in Nat /\ ps[1].rule \in Rules \cup HandRules /\ ps[1].hand \in BOOLEAN
    <3> DEFINE q == ps[1]
    <3>1. q \in Part  BY <2>4
    <3> HIDE DEF q
    <3>2. q.sid \in Nat /\ q.rule \in Rules \cup HandRules /\ q.hand \in BOOLEAN  BY <3>1 DEF Part
    <3> QED  BY <3>2 DEF q
  <2> QED  BY <2>1, <2>4, <2>5 DEF ps
<1> QED  BY <1>2, <1>3

\* A file has finitely many SIDs.
LEMMA FileSidsAreFinite ==
    ASSUME NEW f, Lined(f)
    PROVE  FileSids(f) \subseteq Nat /\ IsFiniteSet(FileSids(f))
<1>1. Len(f) \in Nat /\ DOMAIN f = 1..Len(f) /\ \A n \in DOMAIN f : f[n].parts[1].sid \in Nat  BY LineFacts
<1>2. IsFiniteSet(DOMAIN f)  BY <1>1, FS_Interval
<1>3. IsFiniteSet(Live(f))
  <2>1. Live(f) \in SUBSET DOMAIN f  BY DEF Live
  <2> QED  BY <1>2, <2>1, FS_Subset
<1> DEFINE g == [n \in Live(f) |-> f[n].parts[1].sid]
<1>4. g \in Surjection(Live(f), FileSids(f))  BY DEF Surjection, FileSids
<1>5. IsFiniteSet(FileSids(f))
  <2> HIDE DEF g
  <2> QED  BY <1>3, <1>4, FS_Surjection
<1> QED  BY <1>1, <1>5 DEF FileSids, Live

-----------------------------------------------------------------------------
(* Fewer lines, or the same with more around them                          *)

\* The generated rules of g are those of f, or some of them.
Within(g, f) ==
    \E h \in [Generated(g) -> Generated(f)] :
       /\ \A k \in Generated(g) : g[k].parts[1] = f[h[k]].parts[1]
       /\ \A k, l \in Generated(g) : k # l => h[k] # h[l]

\* What is promised of a file holds of each part of it.
LEMMA WithinKeeps ==
    ASSUME NEW f, NEW g, Within(g, f)
    PROVE  /\ GeneratedSids(g) \subseteq GeneratedSids(f)
           /\ \A ex : SidsDiffer(f, ex) => SidsDiffer(g, ex)
           /\ ContentsDiffer(f) => ContentsDiffer(g)
           /\ \A features : Remembered(f, features) => Remembered(g, features)
<1>1. PICK h \in [Generated(g) -> Generated(f)] :
         /\ \A k \in Generated(g) : g[k].parts[1] = f[h[k]].parts[1]
         /\ \A k, l \in Generated(g) : k # l => h[k] # h[l]
  BY DEF Within
<1>2. \A k \in Generated(g) : h[k] \in Generated(f)  BY <1>1
<1> DEFINE G == Generated(g)
           F == Generated(f)
<1>3. GeneratedSids(g) \subseteq GeneratedSids(f)  BY <1>1, <1>2 DEF GeneratedSids
<1>4. ASSUME NEW ex, SidsDiffer(f, ex)  PROVE SidsDiffer(g, ex)
  <2> SUFFICES ASSUME NEW m \in Generated(g), NEW n \in Generated(g), m # n,
                      g[m].parts[1].sid = g[n].parts[1].sid
               PROVE  g[m].parts[1].sid \in ex
    BY DEF SidsDiffer
  <2>1. h[m] \in F /\ h[n] \in F /\ h[m] # h[n]  BY <1>1, <1>2
  <2>2. f[h[m]].parts[1].sid = f[h[n]].parts[1].sid  BY <1>1
  <2>3. f[h[m]].parts[1].sid \in ex  BY <1>4, <2>1, <2>2 DEF SidsDiffer
  <2> QED  BY <1>1, <2>3
<1>5. ASSUME ContentsDiffer(f)  PROVE ContentsDiffer(g)
  <2> SUFFICES ASSUME NEW m \in Generated(g), NEW n \in Generated(g), m # n, Contents[g[m].parts[1].rule] # {}
               PROVE  Contents[g[m].parts[1].rule] # Contents[g[n].parts[1].rule]
    BY DEF ContentsDiffer
  <2>1. h[m] \in F /\ h[n] \in F /\ h[m] # h[n]  BY <1>1, <1>2
  <2>2. g[m].parts[1] = f[h[m]].parts[1] /\ g[n].parts[1] = f[h[n]].parts[1]  BY <1>1
  <2>3. Contents[f[h[m]].parts[1].rule] # {}  BY <2>2
  <2>4. Contents[f[h[m]].parts[1].rule] # Contents[f[h[n]].parts[1].rule]  BY <1>5, <2>1, <2>3 DEF ContentsDiffer
  <2> QED  BY <2>2, <2>4
<1>6. ASSUME NEW features, Remembered(f, features)  PROVE Remembered(g, features)
  <2> SUFFICES ASSUME NEW n \in Generated(g), Contents[g[n].parts[1].rule] # {}
               PROVE  Contents[g[n].parts[1].rule] \in features
    BY DEF Remembered
  <2>1. h[n] \in F /\ g[n].parts[1] = f[h[n]].parts[1]  BY <1>1, <1>2
  <2> QED  BY <1>6, <2>1 DEF Remembered
<1> QED  BY <1>3, <1>4, <1>5, <1>6

\* What a reload reads of a file has every generated rule's contents.
LEMMA LoadRemembers ==
    ASSUME NEW f, Lined(f)
    PROVE  /\ Load(f) \in Memory
           /\ IsFiniteSet(Load(f).sids)
           /\ Remembered(f, Load(f).features)
           /\ GeneratedSids(f) \subseteq Load(f).sids
<1>1. FileSids(f) \subseteq Nat /\ IsFiniteSet(FileSids(f))  BY FileSidsAreFinite
<1> DEFINE all == UNION {Contents[r] : r \in Rules \cup HandRules}
           fs == {Feature(f[n]) : n \in Live(f)} \ {{}}
<1>2. ASSUME NEW n \in Live(f)  PROVE Feature(f[n]) \subseteq all
  <2> DEFINE ps == f[n].parts
  <2>1. n \in DOMAIN f  BY DEF Live
  <2>2. ps \in Seq(Part)  BY <2>1, LineFacts
  <2>3. \A k \in DOMAIN ps : ps[k] \in Part  BY <2>2
  <2>4. \A q \in Part : q.rule \in Rules \cup HandRules  BY DEF Part
  <2>5. \A k \in DOMAIN ps : ps[k].rule \in Rules \cup HandRules  BY <2>3, <2>4
  <2>6. Feature(f[n]) = UNION {Contents[ps[k].rule] : k \in DOMAIN ps}  BY DEF Feature
  <2> HIDE DEF ps
  <2> QED  BY <2>5, <2>6
<1>3. fs \in SUBSET SUBSET all  BY <1>2
<1>4. ASSUME NEW n \in Generated(f), Contents[f[n].parts[1].rule] # {}
      PROVE  Contents[f[n].parts[1].rule] \in fs
  <2>1. n \in Live(f) /\ n \in DOMAIN f /\ ~f[n].parts[1].hand  BY DEF Generated, Live
  <2> DEFINE ps == f[n].parts
  <2>2. Len(ps) = 1 /\ ps \in Seq(Part)  BY <2>1, LineFacts DEF Lined
  <2>3. DOMAIN ps = {1}  BY <2>2
  <2>4. Feature(f[n]) = UNION {Contents[ps[k].rule] : k \in DOMAIN ps}  BY DEF Feature
  <2>5. Feature(f[n]) = Contents[ps[1].rule]
    <3> HIDE DEF ps
    <3> QED  BY <2>3, <2>4
  <2> QED  BY <1>4, <2>1, <2>5
<1>5. Load(f) = [sids |-> FileSids(f), features |-> fs]  BY DEF Load
<1>6. Load(f) \in Memory
  <2> HIDE DEF fs
  <2> QED  BY <1>1, <1>3, <1>5 DEF Memory
<1>7. Load(f).sids = FileSids(f) /\ Load(f).features = fs
  <2> HIDE DEF fs
  <2> QED  BY <1>5
<1>8. Remembered(f, fs)
  <2> HIDE DEF fs
  <2> QED  BY <1>4 DEF Remembered
<1>9. GeneratedSids(f) \subseteq FileSids(f)  BY DEF GeneratedSids, Generated, FileSids
<1> QED  BY <1>1, <1>6, <1>7, <1>8, <1>9

-----------------------------------------------------------------------------
(* The lines that healing keeps                                            *)

\* The numbers kept and their places in the new file are in the same order.
LEMMA PlacesOfTheKept ==
    ASSUME NEW keep, NEW n \in Nat, keep \subseteq 1..n
    PROVE  LET place(j) == Cardinality({m \in keep : m <= j})
           IN  /\ Cardinality(keep) \in Nat
               /\ \A j \in keep : place(j) \in 1..Cardinality(keep)
               /\ \A i, j \in keep : i < j => place(i) < place(j)
               /\ \A k \in 1..Cardinality(keep) : \E j \in keep : place(j) = k
<1> DEFINE upto(j) == {m \in keep : m <= j}
           place(j) == Cardinality(upto(j))
           c == Cardinality(keep)
           p == [j \in keep |-> place(j)]
<1>1. IsFiniteSet(keep)
  <2>1. keep \in SUBSET (1..n) /\ IsFiniteSet(1..n)  BY FS_Interval
  <2> QED  BY <2>1, FS_Subset
<1>2. c \in Nat  BY <1>1, FS_CardinalityType
<1>3. ASSUME NEW j \in keep  PROVE IsFiniteSet(upto(j)) /\ place(j) \in 1..c
  <2>1. upto(j) \in SUBSET keep  OBVIOUS
  <2>2. IsFiniteSet(upto(j)) /\ place(j) <= c  BY <1>1, <2>1, FS_Subset
  <2>3. place(j) \in Nat  BY <2>2, FS_CardinalityType
  <2>4. place(j) # 0
    <3>1. j \in upto(j)  OBVIOUS
    <3> QED  BY <2>2, <3>1, FS_EmptySet
  <2> QED  BY <1>2, <2>2, <2>3, <2>4
<1>4. ASSUME NEW i \in keep, NEW j \in keep, i < j  PROVE place(i) < place(j)
  <2>1. \A m \in keep : m <= i => m <= j
    <3> SUFFICES ASSUME NEW m \in keep, m <= i  PROVE m <= j  OBVIOUS
    <3>1. m \in Nat /\ i \in Nat /\ j \in Nat  OBVIOUS
    <3> QED  BY <1>4, <3>1
  <2>0. upto(i) \in SUBSET upto(j)  BY <2>1
  <2>2. j \in upto(j) /\ j \notin upto(i)  BY <1>4
  <2>3. IsFiniteSet(upto(j)) /\ place(i) \in 1..c /\ place(j) \in 1..c  BY <1>3
  <2>4. place(i) <= place(j) /\ (place(i) = place(j) => upto(i) = upto(j))  BY <2>0, <2>3, FS_Subset
  <2>5. upto(i) # upto(j)  BY <2>2
  <2> HIDE DEF place, upto
  <2> QED  BY <1>2, <2>3, <2>4, <2>5
<1>5. p \in Injection(keep, 1..c)
  <2>1. p \in [keep -> 1..c]  BY <1>3
  <2>2. ASSUME NEW i \in keep, NEW j \in keep, p[i] = p[j]  PROVE i = j
    <3>1. place(i) = place(j) /\ i \in Nat /\ j \in Nat  BY <2>2
    <3>2. place(i) \in Nat /\ ~(place(i) < place(j)) /\ ~(place(j) < place(i))
      <4>1. place(i) \in 1..c  BY <1>3
      <4> HIDE DEF place, c
      <4>2. place(i) \in Nat  BY <1>2, <4>1
      <4> QED  BY <3>1, <4>2
    <3>3. ~(i < j) /\ ~(j < i)
      <4> HIDE DEF place
      <4> QED  BY <1>4, <3>2
    <3> QED  BY <3>1, <3>3
  <2> HIDE DEF p, c
  <2>3. \A i, j \in keep : p[i] = p[j] => i = j  BY <2>2
  <2> QED  BY <2>1, <2>3 DEF Injection, IsInjective
<1>6. p \in Surjection(keep, 1..c)
  <2>1. IsFiniteSet(1..c) /\ Cardinality(1..c) = c
    <3> HIDE DEF c
    <3>1. Cardinality(1..c) = IF 1 > c THEN 0 ELSE c - 1 + 1  BY <1>2, FS_Interval
    <3> QED  BY <1>2, <3>1, FS_Interval
  <2>2. Cardinality(keep) = Cardinality(1..c)  BY <2>1
  <2> HIDE DEF p, c
  <2> QED  BY <1>5, <2>1, <2>2, FS_Injection
<1>7. \A k \in 1..c : \E j \in keep : place(j) = k
  <2>1. \A k \in 1..c : \E j \in keep : p[j] = k
    <3> HIDE DEF p
    <3> QED  BY <1>6 DEF Surjection
  <2> QED  BY <2>1
<1> QED  BY <1>2, <1>3, <1>4, <1>7

\* The new file is made of the lines that were kept, in their order, and of all of them.
LEMMA KeptLines ==
    ASSUME NEW f, Lined(f), NEW bad
    PROVE  LET kept == Kept(f, bad)
               keep == {n \in DOMAIN f : n \notin bad \/ f[n].comment}
           IN  \E h \in [DOMAIN kept -> keep] :
                  /\ kept \in Seq(Line)
                  /\ \A k \in DOMAIN kept : kept[k] = f[h[k]]
                  /\ \A k, l \in DOMAIN kept : k < l => h[k] < h[l]
                  /\ \A n \in keep : \E k \in DOMAIN kept : h[k] = n
<1> DEFINE keep == {n \in DOMAIN f : n \notin bad \/ f[n].comment}
           place(j) == Cardinality({m \in keep : m <= j})
           c == Cardinality(keep)
           at(k) == CHOOSE n \in keep : place(n) = k
           h == [k \in 1..c |-> at(k)]
           kept == Kept(f, bad)
<1>1. Len(f) \in Nat /\ DOMAIN f = 1..Len(f) /\ \A n \in DOMAIN f : f[n] \in Line  BY LineFacts
<1>2. keep \subseteq 1..Len(f) /\ \A j \in keep : j \in Nat  BY <1>1
<1>3. /\ c \in Nat
      /\ \A j \in keep : place(j) \in 1..c
      /\ \A i, j \in keep : i < j => place(i) < place(j)
      /\ \A k \in 1..c : \E j \in keep : place(j) = k
  <2> HIDE DEF keep
  <2> QED  BY <1>1, <1>2, PlacesOfTheKept
<1>4. kept = [k \in 1..c |-> f[at(k)]]  BY DEF Kept
<1> HIDE DEF place, c, keep, kept
<1>5. \A k \in 1..c : at(k) \in keep /\ place(at(k)) = k  BY <1>3
<1>6. DOMAIN kept = 1..c /\ \A k \in 1..c : h[k] = at(k) /\ kept[k] = f[h[k]]  BY <1>4
<1> HIDE DEF at, h
<1>7. h \in [DOMAIN kept -> keep]  BY <1>5, <1>6 DEF h
<1>8. kept \in Seq(Line)
  <2>1. \A k \in 1..c : kept[k] \in Line  BY <1>1, <1>2, <1>5, <1>6
  <2>2. kept \in [1..c -> Line]  BY <1>4, <2>1
  <2> QED  BY <1>3, <2>2
<1>9. ASSUME NEW k \in DOMAIN kept, NEW l \in DOMAIN kept, k < l  PROVE h[k] < h[l]
  <2>1. h[k] \in keep /\ h[l] \in keep /\ place(h[k]) = k /\ place(h[l]) = l  BY <1>5, <1>6
  <2>2. h[k] \in Nat /\ h[l] \in Nat  BY <1>2, <2>1
  <2>4. k \in Nat /\ l \in Nat  BY <1>3, <1>6
  <2>5. ~(l < k) /\ l # k  BY <1>9, <2>4
  <2>3. ~(h[l] < h[k]) /\ h[l] # h[k]  BY <1>3, <2>1, <2>5
  <2> QED  BY <2>2, <2>3
<1>10. ASSUME NEW n \in keep  PROVE \E k \in DOMAIN kept : h[k] = n
  <2>1. place(n) \in 1..c  BY <1>3
  <2>2. h[place(n)] \in keep /\ place(h[place(n)]) = place(n)  BY <1>5, <1>6, <2>1
  <2>3. h[place(n)] \in Nat /\ n \in Nat  BY <1>2, <2>2
  <2>4. place(n) \in Nat /\ ~(place(n) < place(n))  BY <1>3, <2>1
  <2>5. ~(h[place(n)] < n) /\ ~(n < h[place(n)])  BY <1>3, <2>2, <2>4
  <2>6. h[place(n)] = n  BY <2>3, <2>5
  <2> QED  BY <1>6, <2>1, <2>6
<1> QED  BY <1>6, <1>7, <1>8, <1>9, <1>10 DEF keep, kept

-----------------------------------------------------------------------------
(* What the actions make of the file                                       *)

\* Fewer lines: the generated rules of the new file are rules of the old one.
LEMMA FewerLines ==
    ASSUME NEW f, NEW g, NEW h \in [DOMAIN g -> DOMAIN f], Lined(f), g \in Seq(Line),
           \A k \in DOMAIN g : g[k] = f[h[k]],
           \A k, l \in DOMAIN g : k < l => h[k] < h[l]
    PROVE  Lined(g) /\ Within(g, f)
<1>1. \A k \in DOMAIN g : h[k] \in DOMAIN f  OBVIOUS
<1>2. Lined(g)  BY <1>1 DEF Lined
<1>3. \A k \in Generated(g) : k \in DOMAIN g /\ h[k] \in Generated(f)  BY <1>1 DEF Generated, Live
<1>4. \A k, l \in Generated(g) : k # l => h[k] # h[l]
  <2> SUFFICES ASSUME NEW k \in Generated(g), NEW l \in Generated(g), k # l  PROVE h[k] # h[l]  OBVIOUS
  <2>1. DOMAIN g \subseteq Nat /\ DOMAIN f \subseteq Nat  BY DEF Lined
  <2>2. k \in Nat /\ l \in Nat /\ h[k] \in Nat /\ h[l] \in Nat  BY <1>1, <1>3, <2>1
  <2>3. k < l \/ l < k  BY <2>2
  <2>4. h[k] < h[l] \/ h[l] < h[k]  BY <1>3, <2>3
  <2> QED  BY <2>2, <2>4
<1> DEFINE p == [k \in Generated(g) |-> h[k]]
<1>5. p \in [Generated(g) -> Generated(f)]  BY <1>3
<1>6. \A k \in Generated(g) : g[k].parts[1] = f[p[k]].parts[1]  BY <1>3
<1>7. \A k, l \in Generated(g) : k # l => p[k] # p[l]  BY <1>4
<1>8. Within(g, f)
  <2> HIDE DEF p
  <2> QED  BY <1>5, <1>6, <1>7 DEF Within
<1> QED  BY <1>2, <1>8

\* The same places hold the same first rules, commented out as before.
LEMMA SameLines ==
    ASSUME NEW f, NEW g, \A k \in Generated(g) : k \in Generated(f) /\ g[k].parts[1] = f[k].parts[1]
    PROVE  Within(g, f)
<1> DEFINE p == [k \in Generated(g) |-> k]
<1>1. p \in [Generated(g) -> Generated(f)]  OBVIOUS
<1>2. \A k \in Generated(g) : g[k].parts[1] = f[p[k]].parts[1]  OBVIOUS
<1>3. \A k, l \in Generated(g) : k # l => p[k] # p[l]  OBVIOUS
<1> HIDE DEF p
<1> QED  BY <1>1, <1>2, <1>3 DEF Within

\* Healing makes no new lines.
LEMMA KeptIsWithin ==
    ASSUME NEW f, Lined(f), NEW bad
    PROVE  Lined(Kept(f, bad)) /\ Within(Kept(f, bad), f)
<1> DEFINE g == Kept(f, bad)
           keep == {n \in DOMAIN f : n \notin bad \/ f[n].comment}
<1>1. PICK h \in [DOMAIN g -> keep] :
         /\ g \in Seq(Line)
         /\ \A k \in DOMAIN g : g[k] = f[h[k]]
         /\ \A k, l \in DOMAIN g : k < l => h[k] < h[l]
  BY KeptLines
<1>2. keep \subseteq DOMAIN f  OBVIOUS
<1> HIDE DEF g, keep
<1>3. h \in [DOMAIN g -> DOMAIN f]  BY <1>2
<1>4. Lined(g) /\ Within(g, f)  BY <1>1, <1>3, FewerLines
<1> QED  BY <1>4 DEF g

\* Neither does a person who removes a line.
LEMMA RemovedIsWithin ==
    ASSUME NEW f, Lined(f), NEW n \in 1..Len(f)
    PROVE  Lined(RemoveAt(f, n)) /\ Within(RemoveAt(f, n), f)
<1> DEFINE g == RemoveAt(f, n)
           h == [k \in 1..(Len(f) - 1) |-> IF k < n THEN k ELSE k + 1]
<1>1. f \in Seq(Line) /\ Len(f) \in Nat /\ DOMAIN f = 1..Len(f)  BY DEF Lined
<1>2. g \in Seq(Line) /\ Len(g) = Len(f) - 1 /\ \A k \in 1..(Len(f) - 1) : g[k] = f[h[k]]
  <2> DEFINE a == SubSeq(f, 1, n - 1)
             b == SubSeq(f, n + 1, Len(f))
  <2>1. n \in Nat /\ n >= 1 /\ n <= Len(f) /\ \A k \in 1..Len(f) : f[k] \in Line  BY <1>1
  <2>2. a \in Seq(Line) /\ Len(a) = n - 1 /\ \A k \in 1..(n - 1) : a[k] = f[k]
    <3>1. \A k \in 1..(n - 1) : f[k] \in Line  BY <1>1, <2>1
    <3>2. /\ a \in Seq(Line)
          /\ Len(a) = IF 1 <= n - 1 THEN n - 1 - 1 + 1 ELSE 0
          /\ \A k \in 1..(n - 1 - 1 + 1) : a[k] = f[1 + k - 1]
      <4>1. 1 \in Int /\ n - 1 \in Int  BY <2>1
      <4> QED  BY <3>1, <4>1, SubSeqProperties, SMT
    <3> HIDE DEF a
    <3>3. Len(a) = n - 1 /\ n - 1 - 1 + 1 = n - 1  BY <2>1, <3>2
    <3>4. \A k \in 1..(n - 1) : 1 + k - 1 = k  BY <2>1
    <3> QED  BY <3>2, <3>3, <3>4
  <2>3. b \in Seq(Line) /\ Len(b) = Len(f) - n /\ \A k \in 1..(Len(f) - n) : b[k] = f[k + n]
    <3>1. \A k \in (n + 1)..Len(f) : f[k] \in Line  BY <1>1, <2>1
    <3>2. /\ b \in Seq(Line)
          /\ Len(b) = IF n + 1 <= Len(f) THEN Len(f) - (n + 1) + 1 ELSE 0
          /\ \A k \in 1..(Len(f) - (n + 1) + 1) : b[k] = f[n + 1 + k - 1]
      <4>1. n + 1 \in Int /\ Len(f) \in Int  BY <1>1, <2>1
      <4> QED  BY <3>1, <4>1, SubSeqProperties, SMT
    <3> HIDE DEF b
    <3>3. Len(b) = Len(f) - n /\ Len(f) - (n + 1) + 1 = Len(f) - n
      <4> DEFINE L == Len(f)
      <4>1. L \in Nat /\ n \in Nat /\ n <= L  BY <1>1, <2>1
      <4>2. Len(b) = IF n + 1 <= L THEN L - (n + 1) + 1 ELSE 0  BY <3>2
      <4> HIDE DEF L
      <4>3. Len(b) = L - n /\ L - (n + 1) + 1 = L - n  BY <4>1, <4>2
      <4> QED  BY <4>3 DEF L
    <3>4. \A k \in 1..(Len(f) - n) : n + 1 + k - 1 = k + n  BY <1>1, <2>1
    <3> QED  BY <3>2, <3>3, <3>4
  <2>4. g = a \o b  BY DEF RemoveAt
  <2> HIDE DEF a, b
  <2>5. /\ g \in Seq(Line)
        /\ Len(g) = Len(a) + Len(b)
        /\ \A k \in 1..(Len(a) + Len(b)) : g[k] = IF k <= Len(a) THEN a[k] ELSE b[k - Len(a)]
    <3> HIDE DEF g
    <3>1. /\ a \o b \in Seq(Line)
          /\ Len(a \o b) = Len(a) + Len(b)
          /\ \A k \in 1..(Len(a) + Len(b)) : (a \o b)[k] = IF k <= Len(a) THEN a[k] ELSE b[k - Len(a)]
      BY <2>2, <2>3, ConcatProperties, Zenon
    <3> QED  BY <2>4, <3>1
  <2> HIDE DEF g
  <2>6. Len(a) + Len(b) = Len(f) - 1  BY <1>1, <2>1, <2>2, <2>3
  <2>7. ASSUME NEW k \in 1..(Len(f) - 1)  PROVE g[k] = f[h[k]]
    <3>1. k \in Nat /\ k >= 1 /\ k <= Len(f) - 1  BY <1>1
    <3>2. CASE k < n
      <4>1. k \in 1..(n - 1) /\ k <= Len(a)  BY <2>1, <2>2, <3>1, <3>2
      <4>2. g[k] = a[k] /\ h[k] = k  BY <2>5, <2>6, <3>2, <4>1
      <4> QED  BY <2>2, <4>1, <4>2
    <3>3. CASE ~(k < n)
      <4>1. k - Len(a) \in 1..(Len(f) - n) /\ ~(k <= Len(a)) /\ k - Len(a) + n = k + 1  BY <1>1, <2>1, <2>2, <3>1, <3>3
      <4>2. g[k] = b[k - Len(a)] /\ h[k] = k + 1  BY <2>5, <2>6, <3>3, <4>1
      <4>3. b[k - Len(a)] = f[k - Len(a) + n]  BY <2>3, <4>1
      <4> QED  BY <4>1, <4>2, <4>3
    <3> QED  BY <3>2, <3>3
  <2> QED  BY <2>5, <2>6, <2>7
<1>3. h \in [1..(Len(f) - 1) -> DOMAIN f]  BY <1>1
<1>4. \A k, l \in 1..(Len(f) - 1) : k < l => h[k] < h[l]  BY <1>1
<1> HIDE DEF g, h
<1>5. DOMAIN g = 1..(Len(f) - 1)  BY <1>1, <1>2
<1>6. Lined(g) /\ Within(g, f)  BY <1>2, <1>3, <1>4, <1>5, FewerLines
<1> QED  BY <1>6 DEF g

\* Nor does a read or a rewrite that breaks off after k lines.
LEMMA FirstLines ==
    ASSUME NEW f, Lined(f), NEW k \in 0..Len(f)
    PROVE  /\ Lined(SubSeq(f, 1, k)) /\ Within(SubSeq(f, 1, k), f)
           /\ k = Len(f) => SubSeq(f, 1, k) = f
<1> DEFINE g == SubSeq(f, 1, k)
           h == [n \in 1..k |-> n]
<1>1. f \in Seq(Line) /\ Len(f) \in Nat /\ DOMAIN f = 1..Len(f) /\ \A n \in 1..Len(f) : f[n] \in Line  BY DEF Lined
<1>2. k \in Nat /\ k <= Len(f)  BY <1>1
<1>3. g \in Seq(Line) /\ Len(g) = k /\ \A n \in 1..k : g[n] = f[n]
  <2>1. \A n \in 1..k : f[n] \in Line  BY <1>1, <1>2
  <2>2. /\ g \in Seq(Line)
        /\ Len(g) = IF 1 <= k THEN k - 1 + 1 ELSE 0
        /\ \A n \in 1..(k - 1 + 1) : g[n] = f[1 + n - 1]
    BY <1>2, <2>1, SubSeqProperties, SMT
  <2> HIDE DEF g
  <2>3. Len(g) = k /\ k - 1 + 1 = k  BY <1>2, <2>2
  <2>4. \A n \in 1..k : 1 + n - 1 = n  BY <1>2
  <2> QED  BY <2>2, <2>3, <2>4
<1>4. h \in [1..k -> DOMAIN f] /\ (\A n \in 1..k : g[n] = f[h[n]]) /\ (\A m, n \in 1..k : m < n => h[m] < h[n])
  BY <1>1, <1>2, <1>3
<1> HIDE DEF g, h
<1>5. DOMAIN g = 1..k  BY <1>2, <1>3
<1>6. Lined(g) /\ Within(g, f)  BY <1>3, <1>4, <1>5, FewerLines
<1>7. k = Len(f) => g = f
  <2> SUFFICES ASSUME k = Len(f)  PROVE g = f  OBVIOUS
  <2>1. DOMAIN g = DOMAIN f /\ \A n \in DOMAIN f : g[n] = f[n]  BY <1>1, <1>3, <1>5
  <2>2. g = [n \in DOMAIN g |-> g[n]] /\ f = [n \in DOMAIN f |-> f[n]]  BY <1>1, <1>3
  <2> QED  BY <2>1, <2>2
<1> QED  BY <1>6, <1>7 DEF g

\* A line added by hand is no generated rule, and the lines before it keep what they are.
LEMMA AddedIsWithin ==
    ASSUME NEW f, Lined(f), NEW h \in HandRules, NEW comment \in BOOLEAN, NEW ended \in BOOLEAN
    PROVE  LET g == Append([n \in DOMAIN f |-> [f[n] EXCEPT !.ended = TRUE]],
                           [parts |-> << [rule |-> h, sid |-> HandSid[h], hand |-> TRUE] >>,
                            comment |-> comment, ended |-> ended])
           IN  Lined(g) /\ Within(g, f)
<1> DEFINE e == [n \in DOMAIN f |-> [f[n] EXCEPT !.ended = TRUE]]
           part == [rule |-> h, sid |-> HandSid[h], hand |-> TRUE]
           line == [parts |-> << part >>, comment |-> comment, ended |-> ended]
           g == Append(e, line)
<1>1. Len(f) \in Nat /\ DOMAIN f = 1..Len(f) /\ \A n \in DOMAIN f : f[n] \in Line  BY LineFacts
<1>2. \A n \in DOMAIN f : e[n] \in Line /\ e[n].parts = f[n].parts /\ e[n].comment = f[n].comment /\ e[n].ended = TRUE
  BY <1>1 DEF Line
<1>3. part \in Part /\ part.hand  BY FileAssumption DEF Part
<1> HIDE DEF part
<1>4. line \in Line /\ line.parts = << part >>  BY <1>3 DEF Line
<1>5. DOMAIN e = 1..Len(f)  BY <1>1
<1> HIDE DEF line, e
<1>6. e \in Seq(Line) /\ Len(e) = Len(f)
  <2>1. e \in [1..Len(f) -> Line]  BY <1>1, <1>2 DEF e
  <2> QED  BY <1>1, <2>1
<1>7. g \in Seq(Line) /\ Len(g) = Len(f) + 1 /\ DOMAIN g = 1..(Len(f) + 1)
      /\ g[Len(f) + 1] = line /\ \A n \in 1..Len(f) : g[n] = e[n]
  BY <1>1, <1>4, <1>6
<1> HIDE DEF g
<1>8. ASSUME NEW n \in DOMAIN g
      PROVE  /\ g[n].parts # << >>
             /\ ~g[n].parts[1].hand => /\ n \in DOMAIN f /\ g[n].parts = f[n].parts
                                       /\ g[n].comment = f[n].comment /\ g[n].ended
  <2>1. CASE n = Len(f) + 1
    <3>1. g[n].parts = << part >>  BY <1>4, <1>7, <2>1
    <3> QED  BY <1>3, <3>1
  <2>2. CASE n # Len(f) + 1
    <3>1. n \in DOMAIN f  BY <1>1, <1>7, <2>2
    <3>2. g[n] = e[n]  BY <1>1, <1>7, <3>1
    <3>3. f[n].parts # << >>  BY <3>1 DEF Lined
    <3> QED  BY <1>2, <3>1, <3>2, <3>3
  <2> QED  BY <2>1, <2>2
<1>9. Lined(g)  BY <1>7, <1>8 DEF Lined
<1>10. \A k \in Generated(g) : k \in Generated(f) /\ g[k].parts[1] = f[k].parts[1]
  BY <1>8 DEF Generated, Live
<1>11. Within(g, f)  BY <1>10, SameLines
<1> QED  BY <1>9, <1>11 DEF g, line, e, part

\* A generated rule that is written gets a line of its own, or is lost on the unfinished
\* line of a person; the others keep theirs.
LEMMA AppendedLines ==
    ASSUME NEW f, Lined(f), NEW part \in Part, ~part.hand
    PROVE  LET g == Appended(f, part)
           IN  /\ Lined(g)
               /\ \A k \in Generated(g) :
                     \/ k \in Generated(f) /\ g[k].parts[1] = f[k].parts[1]
                     \/ k = Len(f) + 1 /\ g[k].parts[1] = part
<1> DEFINE g == Appended(f, part)
           line == [parts |-> << part >>, comment |-> FALSE, ended |-> TRUE]
<1>1. Len(f) \in Nat /\ DOMAIN f = 1..Len(f) /\ f \in Seq(Line) /\ \A n \in DOMAIN f : f[n] \in Line
  BY LineFacts DEF Lined
<1>2. CASE f # << >> /\ ~Last(f).ended
  <2> DEFINE l == Len(f)
  <2>1. l \in DOMAIN f /\ Last(f) = f[l]  BY <1>1, <1>2 DEF Last
  <2>2. ~f[l].ended /\ f[l] \in Line /\ f[l].parts \in Seq(Part) /\ f[l].parts # << >>
    BY <1>1, <1>2, <2>1, LineFacts DEF Lined
  <2>3. f[l].parts[1].hand  BY <2>1, <2>2, LineFacts DEF Lined
  <2>4. g = [f EXCEPT ![l].parts = Append(f[l].parts, part), ![l].ended = TRUE]  BY <1>2 DEF Appended
  <2> DEFINE ps == Append(f[l].parts, part)
  <2>5. ps \in Seq(Part) /\ ps # << >> /\ ps[1] = f[l].parts[1]
    <3> DEFINE os == f[l].parts
    <3>1. os \in Seq(Part) /\ os # << >>  BY <2>2
    <3> HIDE DEF os
    <3>2. Append(os, part) \in Seq(Part) /\ Append(os, part) # << >> /\ Append(os, part)[1] = os[1]  BY <3>1
    <3> QED  BY <3>2 DEF os
  <2> HIDE DEF ps
  <2> DEFINE v == [f[l] EXCEPT !.parts = ps, !.ended = TRUE]
  <2>6. v \in Line /\ v.parts = ps  BY <2>2, <2>5 DEF Line
  <2>7. g = [f EXCEPT ![l] = v]  BY <2>1, <2>4 DEF ps
  <2> HIDE DEF g, l, v
  <2>8. DOMAIN g = DOMAIN f /\ g[l].parts = ps /\ \A n \in DOMAIN f : n # l => g[n] = f[n]
    BY <2>1, <2>6, <2>7
  <2>10. g \in Seq(Line)  BY <1>1, <2>1, <2>6, <2>7
  <2>11. \A n \in DOMAIN g : /\ g[n].parts # << >>
                             /\ ~g[n].parts[1].hand => Len(g[n].parts) = 1 /\ g[n].ended
    BY <2>3, <2>5, <2>6, <2>8 DEF Lined
  <2>12. \A k \in Generated(g) : k \in Generated(f) /\ g[k].parts[1] = f[k].parts[1]
    BY <2>3, <2>5, <2>6, <2>8 DEF Generated, Live
  <2> QED  BY <2>10, <2>11, <2>12 DEF Lined, g
<1>3. CASE ~(f # << >> /\ ~Last(f).ended)
  <2>1. g = Append(f, line)  BY <1>3 DEF Appended
  <2>2. line \in Line /\ line.parts = << part >> /\ line.ended  BY DEF Line
  <2> HIDE DEF g, line
  <2>3. g \in Seq(Line) /\ DOMAIN g = 1..(Len(f) + 1) /\ g[Len(f) + 1] = line
        /\ \A n \in 1..Len(f) : g[n] = f[n]
    BY <1>1, <2>1, <2>2
  <2>4. g[Len(f) + 1].parts # << >> /\ Len(g[Len(f) + 1].parts) = 1 /\ g[Len(f) + 1].parts[1] = part
        /\ g[Len(f) + 1].ended
    <3>1. Len(<< part >>) = 1 /\ << part >>[1] = part /\ << part >> # << >>  OBVIOUS
    <3> QED  BY <2>2, <2>3, <3>1
  <2>5. \A n \in DOMAIN g : n = Len(f) + 1 \/ (n \in DOMAIN f /\ g[n] = f[n])  BY <1>1, <2>3
  <2>6. Lined(g)  BY <2>3, <2>4, <2>5 DEF Lined
  <2>7. \A k \in Generated(g) : \/ k \in Generated(f) /\ g[k].parts[1] = f[k].parts[1]
                                \/ k = Len(f) + 1 /\ g[k].parts[1] = part
    BY <2>4, <2>5 DEF Generated, Live
  <2> QED  BY <2>6, <2>7 DEF g
<1> QED  BY <1>2, <1>3

-----------------------------------------------------------------------------
(* The inductive invariant                                                 *)

WorkerRecord == [at: At, inst: Instances, todo: Seq(Rules), sid: Nat, written: BOOLEAN, round: Nat,
                 bad: SUBSET Nat, clean: BOOLEAN]
Holds(r) == r.at \in {"append", "test", "delete"}

\* Who writes or heals has the lock; a rule that is about to be written is not in the file,
\* nor is its SID unless it is excused; a pass that nobody disturbed deletes what the file's test refused.
WorkerOK(w, r, f, m, held, c, ex) ==
    /\ r \in WorkerRecord
    /\ Holds(r) => held = w
    /\ r.at \in {"write", "append"} => w \in Tasks /\ r.todo # << >>
    /\ r.inst <= c
    /\ w \in Instances /\ w > c => r.at = "done"
    /\ r.at = "append" => /\ r.sid \notin GeneratedSids(f) \/ r.sid \in ex
                          /\ \/ Contents[Head(r.todo)] = {}
                             \/ Contents[Head(r.todo)] \notin m[r.inst].features
    /\ r.at = "delete" /\ r.clean => r.bad = Refused(f)

\* SIDs that the file may have twice: those given out without scanning it, unless the one
\* memory there is knows all of its generated rules.
Excused == IF current = 1 /\ ~unread THEN {} ELSE blind

MemoriesOK(m, c) == m \in Seq(Memory) /\ Len(m) = c /\ \A i \in 1..c : IsFiniteSet(m[i].sids)

FileOK(f, m, c, u, ex) ==
    /\ Lined(f)
    /\ SidsDiffer(f, ex)
    /\ c = 1 /\ ~u => /\ Remembered(f, m[1].features) /\ ContentsDiffer(f)
                      /\ GeneratedSids(f) \subseteq m[1].sids

FileInv == /\ current \in 1..MaxInstances
           /\ lock \in Workers \cup {None}
           /\ unread \in BOOLEAN
           /\ MemoriesOK(mem, current)
           /\ FileOK(file, mem, current, unread, Excused)
           /\ worker \in [Workers -> WorkerRecord]
           /\ \A w \in Workers : WorkerOK(w, worker[w], file, mem, lock, current, Excused)

\* The promises of a worker without the lock are about nothing the others change.
LEMMA Undisturbed ==
    ASSUME NEW w, NEW r, NEW f, NEW m, NEW held, NEW c, NEW ex, WorkerOK(w, r, f, m, held, c, ex),
           ~Holds(r),
           NEW f2, NEW m2, NEW held2, NEW ex2
    PROVE  WorkerOK(w, r, f2, m2, held2, c, ex2)
BY DEF WorkerOK, Holds

\* What is excused depends on the instances and on the history of reading alone.
LEMMA SameExcuses == UNCHANGED <<current, blind, unread>> => Excused' = Excused
BY DEF Excused

\* One at most has the lock.
LEMMA OnlyOneHolds ==
    ASSUME FileInv, NEW w, lock \in {None, w}, NEW v \in Workers, v # w
    PROVE  ~Holds(worker[v])
BY FileAssumption DEF FileInv, WorkerOK

\* A worker that moves alone and keeps its own promises keeps the invariant.
LEMMA AloneKeepsInv ==
    ASSUME FileInv, NEW w \in Workers, NEW r,
           worker' = [worker EXCEPT ![w] = r],
           WorkerOK(w, r, file, mem, lock', current, Excused),
           lock' = lock \/ (lock \in {None, w} /\ lock' \in {None, w}),
           UNCHANGED <<file, mem, current, blind, unread>>
    PROVE  FileInv'
<1>1. r \in WorkerRecord  BY DEF WorkerOK
<1>2. worker' \in [Workers -> WorkerRecord]  BY <1>1 DEF FileInv
<1>3. worker'[w] = r /\ \A v \in Workers : v # w => worker'[v] = worker[v]  BY DEF FileInv
<1>4. ASSUME NEW v \in Workers, v # w  PROVE WorkerOK(v, worker[v], file, mem, lock', current, Excused)
  <2>1. WorkerOK(v, worker[v], file, mem, lock, current, Excused)  BY DEF FileInv
  <2>2. CASE lock' = lock  BY <2>1, <2>2
  <2>3. CASE lock \in {None, w}
    <3>1. ~Holds(worker[v])  BY <1>4, <2>3, OnlyOneHolds
    <3> QED  BY <2>1, <3>1, Undisturbed
  <2> QED  BY <2>2, <2>3
<1>5. \A v \in Workers : WorkerOK(v, worker'[v], file, mem, lock', current, Excused)  BY <1>3, <1>4
<1>6. lock' \in Workers \cup {None}  BY DEF FileInv
<1>7. Excused' = Excused  BY SameExcuses
<1> QED  BY <1>2, <1>5, <1>6, <1>7 DEF FileInv

\* Where a task goes after a rule of its batch.
LEMMA NextOfBatch ==
    ASSUME NEW todo \in Seq(Rules), todo # << >>, NEW written \in BOOLEAN
    PROVE  /\ Tail(todo) \in Seq(Rules) /\ Head(todo) \in Rules
           /\ Onward(Tail(todo), written) \in {"write", "heal", "done"}
           /\ Onward(Tail(todo), written) = "write" => Tail(todo) # << >>
<1>1. Tail(todo) \in Seq(Rules) /\ Head(todo) \in Rules  BY HeadTailProperties
<1> QED  BY <1>1 DEF Onward

LEMMA StartTaskKeepsInv ==
    ASSUME FileInv, NEW t \in Tasks, StartTask(t)  PROVE FileInv'
<1> DEFINE r == [worker[t] EXCEPT !.at = "write", !.inst = current, !.todo = Batch[t]]
<1>1. t \in Workers /\ t \notin Instances  BY FileAssumption DEF Workers
<1>2. WorkerOK(t, worker[t], file, mem, lock, current, Excused) /\ worker[t] \in WorkerRecord
      /\ current \in Instances /\ current \in Nat
  BY <1>1, FileAssumption DEF FileInv, Instances
<1>3. Batch[t] \in Seq(Rules) /\ Batch[t] # << >>  BY FileAssumption
<1>4. "write" \in At  BY DEF At
<1>5. r \in WorkerRecord /\ r.at = "write" /\ r.inst = current /\ r.todo = Batch[t]
  BY <1>2, <1>3, <1>4 DEF WorkerRecord
<1>6. worker' = [worker EXCEPT ![t] = r]  BY DEF StartTask
<1> HIDE DEF r
<1>7. WorkerOK(t, r, file, mem, lock', current, Excused)  BY <1>1, <1>2, <1>3, <1>5 DEF WorkerOK, Holds
<1> QED  BY <1>1, <1>6, <1>7, AloneKeepsInv DEF StartTask, reading

\* A task that goes on to its next rule, having let go of the lock if it held it.
LEMMA OnwardKeepsInv ==
    ASSUME FileInv, NEW t \in Tasks, worker[t].at \in {"write", "append"}, NEW r,
           r = [worker[t] EXCEPT !.todo = Tail(worker[t].todo),
                                 !.at = Onward(Tail(worker[t].todo), worker[t].written)] \/
           r = [worker[t] EXCEPT !.todo = Tail(worker[t].todo), !.sid = 0,
                                 !.at = Onward(Tail(worker[t].todo), worker[t].written)],
           worker' = [worker EXCEPT ![t] = r],
           lock \in {None, t}, lock' = None,
           UNCHANGED <<file, mem, current, blind, unread>>
    PROVE  FileInv'
<1>1. t \in Workers /\ t \notin Instances  BY FileAssumption DEF Workers
<1>2. WorkerOK(t, worker[t], file, mem, lock, current, Excused) /\ worker[t] \in WorkerRecord  BY <1>1 DEF FileInv
<1> DEFINE todo == worker[t].todo
           at == Onward(Tail(todo), worker[t].written)
<1>3. todo \in Seq(Rules) /\ todo # << >> /\ worker[t].written \in BOOLEAN  BY <1>2 DEF WorkerOK, WorkerRecord
<1>4. /\ Tail(todo) \in Seq(Rules)
      /\ at \in {"write", "heal", "done"}
      /\ at = "write" => Tail(todo) # << >>
  BY <1>3, NextOfBatch
<1>5. at \in At  BY <1>4 DEF At
<1>6. r \in WorkerRecord /\ r.at = at /\ r.todo = Tail(todo) /\ r.inst = worker[t].inst
  <2> DEFINE w == worker[t]
             rest == Tail(todo)
  <2>1. r = [w EXCEPT !.todo = rest, !.at = at] \/ r = [w EXCEPT !.todo = rest, !.sid = 0, !.at = at]
    OBVIOUS
  <2>2. rest \in Seq(Rules) /\ w \in WorkerRecord  BY <1>2, <1>4
  <2> HIDE DEF at, rest, w
  <2>3. r \in WorkerRecord /\ r.at = at /\ r.todo = rest /\ r.inst = w.inst
    <3>1. CASE r = [w EXCEPT !.todo = rest, !.at = at]  BY <1>5, <2>2, <3>1 DEF WorkerRecord
    <3>2. CASE r = [w EXCEPT !.todo = rest, !.sid = 0, !.at = at]  BY <1>5, <2>2, <3>2 DEF WorkerRecord
    <3> QED  BY <2>1, <3>1, <3>2
  <2> QED  BY <2>3 DEF rest, w
<1> HIDE DEF at, todo
<1>7. WorkerOK(t, r, file, mem, lock', current, Excused)  BY <1>1, <1>2, <1>4, <1>6 DEF WorkerOK, Holds
<1> QED  BY <1>1, <1>7, AloneKeepsInv

LEMMA SkipKeepsInv ==
    ASSUME FileInv, NEW t \in Tasks, Skip(t)  PROVE FileInv'
<1> DEFINE r == [worker[t] EXCEPT !.todo = Tail(worker[t].todo),
                                  !.at = Onward(Tail(worker[t].todo), worker[t].written)]
<1>1. worker' = [worker EXCEPT ![t] = r]  BY DEF Skip
<1>2. worker[t].at = "write" /\ lock = None /\ lock' = None /\ UNCHANGED <<file, mem, current, blind, unread>>
  BY DEF Skip, reading
<1> QED  BY <1>1, <1>2, OnwardKeepsInv

LEMMA AppendFailsKeepsInv ==
    ASSUME FileInv, NEW t \in Tasks, AppendFails(t)  PROVE FileInv'
<1> DEFINE r == [worker[t] EXCEPT !.todo = Tail(worker[t].todo), !.sid = 0,
                                  !.at = Onward(Tail(worker[t].todo), worker[t].written)]
<1>1. worker' = [worker EXCEPT ![t] = r]  BY DEF AppendFails
<1>2. worker[t].at = "append" /\ lock' = None /\ UNCHANGED <<file, mem, current, blind, unread>>
  BY DEF AppendFails, reading
<1>3. lock = t  BY <1>2 DEF FileInv, WorkerOK, Holds, Workers
<1> QED  BY <1>1, <1>2, <1>3, OnwardKeepsInv

LEMMA TickKeepsInv ==
    ASSUME FileInv, NEW i \in 1..current, Tick(i)  PROVE FileInv'
<1> DEFINE r == [worker[i] EXCEPT !.at = "heal"]
<1>1. i \in Workers /\ i \in Nat /\ i <= current  BY FileAssumption DEF Workers, Instances, FileInv
<1>2. WorkerOK(i, worker[i], file, mem, lock, current, Excused) /\ worker[i] \in WorkerRecord  BY <1>1 DEF FileInv
<1>3. "heal" \in At  BY DEF At
<1>4. r \in WorkerRecord /\ r.at = "heal" /\ r.inst = worker[i].inst  BY <1>2, <1>3 DEF WorkerRecord
<1>5. worker' = [worker EXCEPT ![i] = r]  BY DEF Tick
<1>6. current \in Nat  BY FileAssumption DEF FileInv
<1> HIDE DEF r
<1>7. WorkerOK(i, r, file, mem, lock', current, Excused)  BY <1>1, <1>2, <1>4, <1>6 DEF WorkerOK, Holds
<1> QED  BY <1>1, <1>5, <1>7, AloneKeepsInv DEF Tick, reading

\* A worker between passes does not await anything of the file.
LEMMA AtRest ==
    ASSUME NEW w \in Workers, NEW r, NEW old, NEW f, NEW m, NEW held, NEW held2, NEW c, NEW ex,
           WorkerOK(w, old, f, m, held, c, ex), old.at # "done",
           r \in WorkerRecord, r.inst = old.inst, r.at = "reload" \/ (Holds(r) /\ r.at # "append" /\ held2 = w),
           r.at = "delete" => r.bad = Refused(f)
    PROVE  WorkerOK(w, r, f, m, held2, c, ex)
BY DEF WorkerOK, Holds

LEMMA TestKeepsInv ==
    ASSUME FileInv, NEW w \in Workers, Test(w) \/ TestFails(w)  PROVE FileInv'
<1> DEFINE tested == [worker[w] EXCEPT !.at = "reload", !.round = 0]
           found == [worker[w] EXCEPT !.at = "delete", !.bad = Refused(file)]
<1>1. WorkerOK(w, worker[w], file, mem, lock, current, Excused) /\ worker[w] \in WorkerRecord  BY DEF FileInv
<1>2. worker[w].at \in {"heal", "test"} /\ lock \in {None, w}  BY DEF Test, TestFails, MayTest
<1>3. "reload" \in At /\ "delete" \in At  BY DEF At
<1>4. Refused(file) \in SUBSET Nat  BY LineFacts DEF Refused, Live, FileInv, FileOK
<1>5. tested \in WorkerRecord /\ tested.at = "reload" /\ tested.inst = worker[w].inst  BY <1>1, <1>3 DEF WorkerRecord
<1>6. found \in WorkerRecord /\ found.at = "delete" /\ found.inst = worker[w].inst /\ found.bad = Refused(file)
  <2> DEFINE bad == Refused(file)
  <2>1. bad \in SUBSET Nat  BY <1>4
  <2> HIDE DEF bad
  <2>2. [worker[w] EXCEPT !.at = "delete", !.bad = bad] \in WorkerRecord  BY <1>1, <1>3, <2>1 DEF WorkerRecord
  <2>3. LET x == [worker[w] EXCEPT !.at = "delete", !.bad = bad]
        IN  x.at = "delete" /\ x.inst = worker[w].inst /\ x.bad = bad
    BY <1>1 DEF WorkerRecord
  <2> QED  BY <2>2, <2>3 DEF bad
<1>7. \/ worker' = [worker EXCEPT ![w] = tested] /\ lock' = None
      \/ worker' = [worker EXCEPT ![w] = found] /\ lock' = w
  BY DEF Test, TestFails, Tested
<1>8. UNCHANGED <<file, mem, current, blind, unread>>  BY DEF Test, TestFails, reading
<1> HIDE DEF tested, found
<1>9. CASE worker' = [worker EXCEPT ![w] = tested] /\ lock' = None
  <2>1. WorkerOK(w, tested, file, mem, lock', current, Excused)  BY <1>1, <1>2, <1>5, AtRest
  <2> QED  BY <1>2, <1>8, <1>9, <2>1, AloneKeepsInv
<1>10. CASE worker' = [worker EXCEPT ![w] = found] /\ lock' = w
  <2>1. Holds(found) /\ found.at # "append"  BY <1>6 DEF Holds
  <2>2. WorkerOK(w, found, file, mem, lock', current, Excused)  BY <1>1, <1>2, <1>6, <1>10, <2>1, AtRest
  <2> QED  BY <1>2, <1>8, <1>10, <2>2, AloneKeepsInv
<1> QED  BY <1>7, <1>9, <1>10

\* An idle worker promises nothing.
LEMMA IdleIsOK ==
    ASSUME NEW w, NEW at \in {"new", "sleep", "done"}, NEW f, NEW m, NEW held, NEW c \in Nat, c >= 1, NEW ex,
           w \in Instances /\ w > c => at = "done"
    PROVE  WorkerOK(w, Idle(at), f, m, held, c, ex) /\ Idle(at) \in WorkerRecord
<1>1. << >> \in Seq(Rules) /\ 1 \in Instances /\ at \in At  BY FileAssumption DEF Instances, At
<1>2. Idle(at) \in WorkerRecord /\ Idle(at).at = at /\ Idle(at).inst = 1  BY <1>1 DEF Idle, WorkerRecord
<1> QED  BY <1>2 DEF WorkerOK, Holds

LEMMA ReloadKeepsInv ==
    ASSUME FileInv, NEW w \in Workers, Reload(w) \/ ReloadFails(w)  PROVE FileInv'
<1> DEFINE at == IF w \in Tasks THEN "done" ELSE "sleep"
<1>1. WorkerOK(w, worker[w], file, mem, lock, current, Excused) /\ worker[w].at = "reload"
  BY DEF FileInv, Reload, ReloadFails
<1>2. worker' = [worker EXCEPT ![w] = Idle(at)] /\ UNCHANGED <<file, mem, current, lock, blind, unread>>
  BY DEF Reload, ReloadFails, Finished, reading
<1>3. current \in Nat /\ current >= 1  BY FileAssumption DEF FileInv
<1>4. w \in Instances /\ w > current => at = "done"  BY <1>1 DEF WorkerOK
<1>5. at \in {"new", "sleep", "done"}  OBVIOUS
<1> HIDE DEF at
<1>6. WorkerOK(w, Idle(at), file, mem, lock', current, Excused)  BY <1>3, <1>4, <1>5, IdleIsOK
<1> QED  BY <1>2, <1>6, AloneKeepsInv

\* A worker that has the lock, or takes it, may change the file and the memories.
LEMMA HolderKeepsInv ==
    ASSUME FileInv, NEW w \in Workers, NEW r,
           worker' = [worker EXCEPT ![w] = r],
           lock \in {None, w}, lock' \in {None, w}, current' = current, unread' \in BOOLEAN,
           MemoriesOK(mem', current), FileOK(file', mem', current, unread', Excused'),
           WorkerOK(w, r, file', mem', lock', current, Excused')
    PROVE  FileInv'
<1>1. r \in WorkerRecord  BY DEF WorkerOK
<1>2. worker' \in [Workers -> WorkerRecord]  BY <1>1 DEF FileInv
<1>3. worker'[w] = r /\ \A v \in Workers : v # w => worker'[v] = worker[v]  BY DEF FileInv
<1>4. ASSUME NEW v \in Workers, v # w  PROVE WorkerOK(v, worker[v], file', mem', lock', current, Excused')
  <2>1. WorkerOK(v, worker[v], file, mem, lock, current, Excused)  BY DEF FileInv
  <2>2. ~Holds(worker[v])  BY <1>4, OnlyOneHolds
  <2> QED  BY <2>1, <2>2, Undisturbed
<1>5. \A v \in Workers : WorkerOK(v, worker'[v], file', mem', lock', current, Excused')  BY <1>3, <1>4
<1>6. lock' \in Workers \cup {None}  OBVIOUS
<1> QED  BY <1>2, <1>5, <1>6 DEF FileInv

\* A memory that is replaced leaves the others as they are.
LEMMA MemoryReplaced ==
    ASSUME NEW m, NEW c \in Nat, MemoriesOK(m, c), NEW i \in 1..c, NEW x \in Memory, IsFiniteSet(x.sids),
           NEW m2, m2 = [m EXCEPT ![i] = x]
    PROVE  MemoriesOK(m2, c)
<1>1. m \in Seq(Memory) /\ DOMAIN m = 1..c  BY DEF MemoriesOK
<1>2. m2 \in Seq(Memory) /\ Len(m2) = c  BY <1>1 DEF MemoriesOK
<1>3. m2[i] = x /\ \A j \in 1..c : j # i => m2[j] = m[j]  BY <1>1
<1>4. \A j \in 1..c : IsFiniteSet(m2[j].sids)  BY <1>3 DEF MemoriesOK
<1> QED  BY <1>2, <1>3, <1>4 DEF MemoriesOK

\* The memory that a worker uses is that of an instance there is.
LEMMA MemoryOfWorker ==
    ASSUME FileInv, NEW w \in Workers
    PROVE  LET i == worker[w].inst
           IN  mem[i] \in Memory /\ IsFiniteSet(mem[i].sids) /\ i \in 1..current /\ current \in Nat
               /\ DOMAIN mem = 1..current
<1>1. WorkerOK(w, worker[w], file, mem, lock, current, Excused) /\ worker[w] \in WorkerRecord  BY DEF FileInv
<1>2. current \in Nat /\ MemoriesOK(mem, current)  BY FileAssumption DEF FileInv
<1>3. worker[w].inst \in 1..current
  <2>1. worker[w].inst \in Nat /\ worker[w].inst >= 1  BY <1>1, FileAssumption DEF WorkerRecord, Instances
  <2> QED  BY <1>1, <1>2, <2>1 DEF WorkerOK
<1> QED  BY <1>2, <1>3 DEF MemoriesOK

\* With or without the SIDs in the file, a task gets a SID that its memory did not have.
LEMMA AllocationKeepsInv ==
    ASSUME FileInv, NEW t \in Tasks, NEW sids, NEW r, Allocate(t) \/ AllocateBlind(t),
           sids = mem[worker[t].inst].sids \cup FileSids(file) \/ sids = mem[worker[t].inst].sids,
           r = [worker[t] EXCEPT !.at = "append", !.sid = NextSid(sids)],
           worker' = [worker EXCEPT ![t] = r],
           mem' = [mem EXCEPT ![worker[t].inst].sids = sids],
           Excused \subseteq Excused', unread' = unread,
           NextSid(sids) \notin GeneratedSids(file) \/ NextSid(sids) \in Excused'
    PROVE  FileInv'
<1> DEFINE i == worker[t].inst
           after == [mem[i] EXCEPT !.sids = sids]
           sid == NextSid(sids)
<1>1. t \in Workers /\ t \notin Instances  BY FileAssumption DEF Workers
<1>2. WorkerOK(t, worker[t], file, mem, lock, current, Excused) /\ worker[t] \in WorkerRecord  BY <1>1 DEF FileInv
<1>3. worker[t].at = "write" /\ lock = None /\ lock' = t /\ ~IsDuplicate(i, Head(worker[t].todo))
      /\ UNCHANGED <<file, current>>
  BY DEF Allocate, AllocateBlind
<1>4. current \in Nat /\ MemoriesOK(mem, current) /\ FileOK(file, mem, current, unread, Excused) /\ Lined(file)
      /\ unread \in BOOLEAN
  BY FileAssumption DEF FileInv, FileOK
<1>5. i \in 1..current /\ i <= current
  <2>1. i \in Nat /\ i >= 1  BY <1>2, FileAssumption DEF WorkerRecord, Instances
  <2> QED  BY <1>2, <1>4, <2>1 DEF WorkerOK
<1>6. mem[i] \in Memory /\ IsFiniteSet(mem[i].sids)  BY <1>4, <1>5 DEF MemoriesOK
<1>7. sids \subseteq Nat /\ IsFiniteSet(sids) /\ mem[i].sids \subseteq sids
  <2>1. FileSids(file) \subseteq Nat /\ IsFiniteSet(FileSids(file))  BY <1>4, FileSidsAreFinite
  <2>2. mem[i].sids \subseteq Nat  BY <1>6 DEF Memory
  <2>3. IsFiniteSet(mem[i].sids \cup FileSids(file))  BY <1>6, <2>1, FS_Union
  <2> QED  BY <1>6, <2>1, <2>2, <2>3
<1>8. sid \in Nat  BY <1>7, NextSidIsNew
<1>10. mem' = [mem EXCEPT ![i] = after]  OBVIOUS
<1>11. after \in Memory /\ after.sids = sids /\ after.features = mem[i].features  BY <1>6, <1>7 DEF Memory
<1> HIDE DEF sid
<1>12. r \in WorkerRecord /\ r.at = "append" /\ r.sid = sid /\ r.inst = i /\ r.todo = worker[t].todo
  <2>1. "append" \in At  BY DEF At
  <2>2. r = [worker[t] EXCEPT !.at = "append", !.sid = sid]  BY DEF sid
  <2> QED  BY <1>2, <1>8, <2>1, <2>2 DEF WorkerRecord
<1> HIDE DEF after, i
<1>13. MemoriesOK(mem', current) /\ mem'[i] = after /\ \A j \in 1..current : j # i => mem'[j] = mem[j]
  <2>1. current \in Nat /\ MemoriesOK(mem, current) /\ i \in 1..current /\ after \in Memory /\ IsFiniteSet(after.sids)
        /\ mem' = [mem EXCEPT ![i] = after]
    BY <1>4, <1>5, <1>7, <1>10, <1>11
  <2>2. MemoriesOK(mem', current)  BY <2>1, MemoryReplaced, Zenon
  <2>3. DOMAIN mem = 1..current  BY <1>4 DEF MemoriesOK
  <2> QED  BY <2>1, <2>2, <2>3
<1>14. FileOK(file', mem', current, unread', Excused')
  <2>1. current = 1 => mem'[1].features = mem[1].features /\ mem[1].sids \subseteq mem'[1].sids
    BY <1>5, <1>7, <1>11, <1>13
  <2>2. SidsDiffer(file, Excused')  BY <1>4 DEF FileOK, SidsDiffer
  <2> QED  BY <1>3, <1>4, <2>1, <2>2 DEF FileOK
<1>15. WorkerOK(t, r, file', mem', lock', current, Excused')
  <2>1. worker[t].todo # << >>  BY <1>2, <1>3 DEF WorkerOK
  <2>2. Contents[Head(r.todo)] = {} \/ Contents[Head(r.todo)] \notin mem'[i].features
    BY <1>3, <1>11, <1>12, <1>13 DEF IsDuplicate, i
  <2>3. r.sid \notin GeneratedSids(file') \/ r.sid \in Excused'  BY <1>3, <1>12 DEF sid
  <2> QED  BY <1>1, <1>3, <1>5, <1>12, <2>1, <2>2, <2>3 DEF WorkerOK
<1> QED  BY <1>1, <1>3, <1>4, <1>13, <1>14, <1>15, HolderKeepsInv

LEMMA AllocateKeepsInv ==
    ASSUME FileInv, NEW t \in Tasks, Allocate(t)  PROVE FileInv'
<1> DEFINE i == worker[t].inst
           sids == mem[i].sids \cup FileSids(file)
           sid == NextSid(sids)
           r == [worker[t] EXCEPT !.at = "append", !.sid = sid]
<1>1. t \in Workers  BY DEF Workers
<1>2. mem[i] \in Memory /\ IsFiniteSet(mem[i].sids) /\ Lined(file)  BY <1>1, MemoryOfWorker DEF FileInv, FileOK
<1>3. sids \subseteq Nat /\ IsFiniteSet(sids)
  <2>1. FileSids(file) \subseteq Nat /\ IsFiniteSet(FileSids(file))  BY <1>2, FileSidsAreFinite
  <2>2. mem[i].sids \subseteq Nat  BY <1>2 DEF Memory
  <2> QED  BY <1>2, <2>1, <2>2, FS_Union
<1>4. sid \notin sids  BY <1>3, NextSidIsNew
<1>5. GeneratedSids(file) \subseteq sids  BY DEF GeneratedSids, Generated, FileSids
<1>6. sid \notin GeneratedSids(file)  BY <1>4, <1>5
<1>7. worker' = [worker EXCEPT ![t] = r] /\ mem' = [mem EXCEPT ![i].sids = sids]
      /\ UNCHANGED <<current, blind, unread>>
  BY DEF Allocate, reading
<1>8. Excused' = Excused  BY <1>7, SameExcuses
<1> QED  BY <1>6, <1>7, <1>8, AllocationKeepsInv

\* A SID that is given out blindly is new if the one memory knows all the file's, and else excused.
LEMMA AllocateBlindKeepsInv ==
    ASSUME FileInv, NEW t \in Tasks, AllocateBlind(t)  PROVE FileInv'
<1> DEFINE i == worker[t].inst
           sids == mem[i].sids
           sid == NextSid(sids)
           r == [worker[t] EXCEPT !.at = "append", !.sid = sid]
<1>1. t \in Workers  BY DEF Workers
<1>2. mem[i] \in Memory /\ IsFiniteSet(sids) /\ i \in 1..current /\ current \in Nat /\ DOMAIN mem = 1..current
  BY <1>1, MemoryOfWorker
<1>3. sids \subseteq Nat  BY <1>2 DEF Memory
<1>4. sid \notin sids  BY <1>2, <1>3, NextSidIsNew
<1>5. worker' = [worker EXCEPT ![t] = r] /\ mem' = mem /\ blind' = blind \cup {sid} /\ UNCHANGED <<file, current, unread>>
  BY DEF AllocateBlind
<1>6. mem' = [mem EXCEPT ![i].sids = sids]
  <2>1. [mem[i] EXCEPT !.sids = sids] = mem[i]  BY <1>2 DEF Memory
  <2>2. MemoriesOK(mem, current)  BY DEF FileInv
  <2> QED  BY <1>2, <1>5, <2>1, <2>2 DEF MemoriesOK
<1> HIDE DEF sid, r
<1>7. Excused \subseteq Excused'  BY <1>5 DEF Excused
<1>8. sid \notin GeneratedSids(file) \/ sid \in Excused'
  <2>1. CASE current = 1 /\ ~unread
    <3>1. i = 1  BY <1>2, <2>1
    <3>2. GeneratedSids(file) \subseteq mem[1].sids  BY <2>1 DEF FileInv, FileOK
    <3> QED  BY <1>4, <3>1, <3>2
  <2>2. CASE ~(current = 1 /\ ~unread)
    <3>1. Excused' = blind'  BY <1>5, <2>2 DEF Excused
    <3> QED  BY <1>5, <3>1
  <2> QED  BY <2>1, <2>2
<1> QED  BY <1>5, <1>6, <1>7, <1>8, AllocationKeepsInv DEF sid, r

\* The file with a generated rule more, whose SID and contents it did not have.
LEMMA AppendedIsOK ==
    ASSUME NEW f, NEW ex, NEW features, Lined(f), SidsDiffer(f, ex), NEW part \in Part, ~part.hand,
           part.sid \notin GeneratedSids(f) \/ part.sid \in ex
    PROVE  LET g == Appended(f, part)
               more == features \cup ({Contents[part.rule]} \ {{}})
           IN  /\ Lined(g) /\ SidsDiffer(g, ex) /\ GeneratedSids(g) \subseteq GeneratedSids(f) \cup {part.sid}
               /\ Remembered(f, features) /\ ContentsDiffer(f)
                  /\ (Contents[part.rule] = {} \/ Contents[part.rule] \notin features)
                  => Remembered(g, more) /\ ContentsDiffer(g)
<1> DEFINE g == Appended(f, part)
           l == Len(f) + 1
           more == features \cup ({Contents[part.rule]} \ {{}})
           Old(k) == k \in Generated(f) /\ g[k].parts[1] = f[k].parts[1]
           Last1(k) == k = l /\ g[k].parts[1] = part
           contents(k) == Contents[g[k].parts[1].rule]
<1>1. Lined(g) /\ \A k \in Generated(g) : Old(k) \/ Last1(k)  BY AppendedLines
<1> HIDE DEF g, l
<1>2. ASSUME NEW m \in Generated(g), NEW n \in Generated(g), m # n, g[m].parts[1].sid = g[n].parts[1].sid
      PROVE  g[m].parts[1].sid \in ex
  <2>1. CASE Old(m) /\ Old(n)  BY <1>2, <2>1 DEF SidsDiffer
  <2>2. CASE Old(m) /\ Last1(n)  BY <1>2, <2>2 DEF GeneratedSids
  <2>3. CASE Last1(m) /\ Old(n)  BY <1>2, <2>3 DEF GeneratedSids
  <2>4. ~(Last1(m) /\ Last1(n))  BY <1>2
  <2> QED  BY <1>1, <2>1, <2>2, <2>3, <2>4
<1>3. ASSUME Remembered(f, features)  PROVE Remembered(g, more)
  <2> SUFFICES ASSUME NEW k \in Generated(g), contents(k) # {}  PROVE contents(k) \in more
    BY DEF Remembered
  <2>1. CASE Old(k)  BY <1>3, <2>1 DEF Remembered
  <2>2. CASE Last1(k)  BY <2>2
  <2> QED  BY <1>1, <2>1, <2>2
<1>4. ASSUME Remembered(f, features), ContentsDiffer(f),
             Contents[part.rule] = {} \/ Contents[part.rule] \notin features,
             NEW m \in Generated(g), NEW n \in Generated(g), m # n, contents(m) # {}
      PROVE  contents(m) # contents(n)
  <2>1. CASE Old(m) /\ Old(n)  BY <1>4, <2>1 DEF ContentsDiffer
  <2>2. CASE Old(m) /\ Last1(n)
    <3>1. contents(m) \in features  BY <1>4, <2>2 DEF Remembered
    <3> QED  BY <1>4, <2>2, <3>1
  <2>3. CASE Last1(m) /\ Old(n)
    <3>1. contents(m) \notin features  BY <1>4, <2>3
    <3>2. contents(n) # {} => contents(n) \in features  BY <1>4, <2>3 DEF Remembered
    <3> QED  BY <1>4, <3>1, <3>2
  <2>4. ~(Last1(m) /\ Last1(n))  BY <1>4
  <2> QED  BY <1>1, <2>1, <2>2, <2>3, <2>4
<1>5. SidsDiffer(g, ex)  BY <1>2 DEF SidsDiffer
<1>7. GeneratedSids(g) \subseteq GeneratedSids(f) \cup {part.sid}  BY <1>1 DEF GeneratedSids
<1>6. Remembered(f, features) /\ ContentsDiffer(f)
      /\ (Contents[part.rule] = {} \/ Contents[part.rule] \notin features) => ContentsDiffer(g)
  BY <1>4 DEF ContentsDiffer
<1> QED  BY <1>1, <1>3, <1>5, <1>6, <1>7 DEF g

LEMMA AppendRuleKeepsInv ==
    ASSUME FileInv, NEW t \in Tasks, AppendRule(t)  PROVE FileInv'
<1> DEFINE w == worker[t]
           i == w.inst
           rule == Head(w.todo)
           rest == Tail(w.todo)
           part == [rule |-> rule, sid |-> w.sid, hand |-> FALSE]
           after == Remember(mem[i], part)
           at == Onward(rest, TRUE)
           r == [w EXCEPT !.todo = rest, !.sid = 0, !.written = TRUE, !.at = at]
<1>1. t \in Workers /\ t \notin Instances  BY FileAssumption DEF Workers
<1>2. WorkerOK(t, w, file, mem, lock, current, Excused) /\ w \in WorkerRecord  BY <1>1 DEF FileInv
<1>3. w.at = "append" /\ lock' = None /\ current' = current /\ file' = Appended(file, part)
      /\ mem' = [mem EXCEPT ![i] = after] /\ worker' = [worker EXCEPT ![t] = r]
      /\ unread' = unread /\ Excused' = Excused
  BY SameExcuses DEF AppendRule, reading
<1>4. current \in Nat /\ MemoriesOK(mem, current) /\ FileOK(file, mem, current, unread, Excused)  BY FileAssumption DEF FileInv
<1>5. i \in 1..current
  <2>1. i \in Nat /\ i >= 1  BY <1>2, FileAssumption DEF WorkerRecord, Instances
  <2> QED  BY <1>2, <1>4, <2>1 DEF WorkerOK
<1>6. lock = t /\ w.todo \in Seq(Rules) /\ w.todo # << >> /\ w.sid \in Nat
      /\ (w.sid \notin GeneratedSids(file) \/ w.sid \in Excused)
      /\ (Contents[rule] = {} \/ Contents[rule] \notin mem[i].features)
  BY <1>2, <1>3 DEF WorkerOK, Holds, WorkerRecord
<1>7. rest \in Seq(Rules) /\ rule \in Rules /\ at \in {"write", "heal", "done"} /\ (at = "write" => rest # << >>)
  BY <1>6, NextOfBatch
<1>8. part \in Part /\ ~part.hand /\ part.sid = w.sid /\ part.rule = rule  BY <1>6, <1>7 DEF Part
<1>9. r \in WorkerRecord /\ r.at = at /\ r.todo = rest /\ r.inst = i
  <2>1. at \in At  BY <1>7 DEF At
  <2> HIDE DEF at, rest
  <2> QED  BY <1>2, <1>7, <2>1 DEF WorkerRecord
<1>10. after = [sids |-> mem[i].sids \cup {w.sid}, features |-> mem[i].features \cup ({Contents[rule]} \ {{}})]
  BY DEF Remember
<1>11. after \in Memory /\ IsFiniteSet(after.sids) /\ after.sids = mem[i].sids \cup {w.sid}
       /\ after.features = mem[i].features \cup ({Contents[rule]} \ {{}})
  <2>1. mem[i] \in Memory /\ IsFiniteSet(mem[i].sids)  BY <1>4, <1>5 DEF MemoriesOK
  <2> DEFINE all == UNION {Contents[q] : q \in Rules \cup HandRules}
             sids == mem[i].sids \cup {w.sid}
             features == mem[i].features \cup ({Contents[rule]} \ {{}})
  <2>2. mem[i].sids \subseteq Nat /\ mem[i].features \subseteq SUBSET all  BY <2>1 DEF Memory
  <2>3. sids \subseteq Nat  BY <1>6, <2>2
  <2>4. features \subseteq SUBSET all
    <3>1. Contents[rule] \subseteq all  BY <1>7
    <3> QED  BY <2>2, <3>1
  <2>5. IsFiniteSet(sids)  BY <2>1, FS_AddElement
  <2>6. after = [sids |-> sids, features |-> features]  BY <1>10
  <2> HIDE DEF sids, features, after
  <2>7. after \in Memory /\ after.sids = sids /\ after.features = features  BY <2>3, <2>4, <2>6 DEF Memory
  <2> QED  BY <2>5, <2>7 DEF features, sids
<1> HIDE DEF after, r, at, part, rest, rule, i, w
<1>12. MemoriesOK(mem', current) /\ mem'[i] = after
  <2>1. current \in Nat /\ MemoriesOK(mem, current) /\ i \in 1..current /\ after \in Memory /\ IsFiniteSet(after.sids)
        /\ mem' = [mem EXCEPT ![i] = after]
    BY <1>3, <1>4, <1>5, <1>11
  <2>2. MemoriesOK(mem', current)  BY <2>1, MemoryReplaced, Zenon
  <2>3. DOMAIN mem = 1..current  BY <1>4 DEF MemoriesOK
  <2> QED  BY <2>1, <2>2, <2>3
<1>13. FileOK(file', mem', current, unread', Excused')
  <2>1. part.sid \notin GeneratedSids(file) \/ part.sid \in Excused  BY <1>6, <1>8
  <2>2. Lined(file) /\ SidsDiffer(file, Excused)  BY <1>4 DEF FileOK
  <2> DEFINE features == mem[1].features
             more == features \cup ({Contents[part.rule]} \ {{}})
  <2>3. /\ Lined(file') /\ SidsDiffer(file', Excused) /\ GeneratedSids(file') \subseteq GeneratedSids(file) \cup {part.sid}
        /\ Remembered(file, features) /\ ContentsDiffer(file)
           /\ (Contents[part.rule] = {} \/ Contents[part.rule] \notin features)
           => Remembered(file', more) /\ ContentsDiffer(file')
    <3> DEFINE g == Appended(file, part)
    <3> HIDE DEF features
    <3>1. /\ Lined(g) /\ SidsDiffer(g, Excused) /\ GeneratedSids(g) \subseteq GeneratedSids(file) \cup {part.sid}
          /\ Remembered(file, features) /\ ContentsDiffer(file)
             /\ (Contents[part.rule] = {} \/ Contents[part.rule] \notin features)
             => Remembered(g, more) /\ ContentsDiffer(g)
      BY <1>8, <2>1, <2>2, AppendedIsOK
    <3>2. file' = g  BY <1>3
    <3> HIDE DEF g, more
    <3> QED  BY <3>1, <3>2
  <2>4. ASSUME current = 1, ~unread
        PROVE  Remembered(file', mem'[1].features) /\ ContentsDiffer(file') /\ GeneratedSids(file') \subseteq mem'[1].sids
    <3>1. i = 1  BY <1>5, <2>4
    <3>2. Remembered(file, mem[1].features) /\ ContentsDiffer(file) /\ GeneratedSids(file) \subseteq mem[1].sids
      BY <1>4, <2>4 DEF FileOK
    <3>3. Contents[part.rule] = {} \/ Contents[part.rule] \notin mem[1].features  BY <1>6, <1>8, <3>1
    <3>4. mem'[1].features = mem[1].features \cup ({Contents[part.rule]} \ {{}})  BY <1>8, <1>11, <1>12, <3>1
    <3>5. GeneratedSids(file') \subseteq mem'[1].sids  BY <1>8, <1>11, <1>12, <2>3, <3>1, <3>2
    <3> QED  BY <2>3, <3>2, <3>3, <3>4, <3>5
  <2> QED  BY <1>3, <2>3, <2>4 DEF FileOK
<1>14. WorkerOK(t, r, file', mem', lock', current, Excused')
  BY <1>1, <1>2, <1>5, <1>7, <1>9 DEF WorkerOK, Holds
<1>15. unread' \in BOOLEAN  BY <1>3 DEF FileInv
<1> QED  BY <1>1, <1>3, <1>6, <1>12, <1>13, <1>14, <1>15, HolderKeepsInv

LEMMA DeleteBadRulesKeepsInv ==
    ASSUME FileInv, NEW w \in Workers, DeleteBadRules(w)  PROVE FileInv'
<1> DEFINE i == Inst(w)
           kept == Kept(file, worker[w].bad)
           again == kept # file /\ worker[w].round + 1 < ROUNDS
           at == IF again THEN "test" ELSE "reload"
           round == IF again THEN worker[w].round + 1 ELSE 0
           r == [worker[w] EXCEPT !.at = at, !.round = round, !.bad = {}, !.clean = TRUE]
<1>1. WorkerOK(w, worker[w], file, mem, lock, current, Excused) /\ worker[w] \in WorkerRecord  BY DEF FileInv
<1>2. worker[w].at = "delete" /\ UNCHANGED <<current, blind>> /\ file' = kept
      /\ lock' = (IF again THEN w ELSE None) /\ worker' = [worker EXCEPT ![w] = r]
      /\ IF kept # file
         THEN \E k \in 0..Len(kept) : mem' = [mem EXCEPT ![i] = Load(SubSeq(kept, 1, k))] /\ ReadUpTo(kept, k)
         ELSE UNCHANGED <<mem, ioErrors, unread>>
  BY DEF DeleteBadRules
<1>3. current \in Nat /\ current >= 1 /\ MemoriesOK(mem, current) /\ FileOK(file, mem, current, unread, Excused)
  BY FileAssumption DEF FileInv
<1>4. lock = w  BY <1>1, <1>2 DEF WorkerOK, Holds
<1>5. i \in 1..current
  <2>1. CASE w \in Tasks
    <3>1. i = worker[w].inst /\ i \in Nat /\ i >= 1 /\ i <= current
      BY <1>1, <2>1, FileAssumption DEF WorkerRecord, Instances, Inst, WorkerOK
    <3> QED  BY <1>3, <3>1
  <2>2. CASE w \notin Tasks
    <3>1. w \in Instances /\ i = w  BY <2>2 DEF Workers, Inst
    <3>2. i \in Nat /\ i >= 1  BY <3>1, FileAssumption DEF Instances
    <3>3. ~(i > current)  BY <1>1, <1>2, <3>1 DEF WorkerOK
    <3> QED  BY <1>3, <3>2, <3>3
  <2> QED  BY <2>1, <2>2
<1>6. Lined(kept) /\ Within(kept, file)  BY <1>3, KeptIsWithin DEF FileOK
<1>8. at \in {"test", "reload"} /\ (at = "test" => lock' = w) /\ lock' \in {None, w}
  BY <1>2
<1>9. round \in Nat
  <2>1. worker[w].round \in Nat  BY <1>1 DEF WorkerRecord
  <2> QED  BY <2>1
<1> HIDE DEF at, round, again, kept, i
<1>10. r \in WorkerRecord /\ r.at = at /\ r.inst = worker[w].inst
  <2>1. at \in At  BY <1>8 DEF At
  <2> QED  BY <1>1, <1>9, <2>1 DEF WorkerRecord
<1> HIDE DEF r
<1>11. /\ MemoriesOK(mem', current) /\ unread' \in BOOLEAN /\ Excused \subseteq Excused'
       /\ current = 1 /\ ~unread' => Remembered(kept, mem'[1].features) /\ GeneratedSids(kept) \subseteq mem'[1].sids
                                    /\ ~unread
  <2>1. CASE kept # file
    <3>1. PICK k \in 0..Len(kept) : mem' = [mem EXCEPT ![i] = Load(SubSeq(kept, 1, k))] /\ ReadUpTo(kept, k)
      BY <1>2, <2>1
    <3> DEFINE new == Load(SubSeq(kept, 1, k))
    <3>2. Lined(SubSeq(kept, 1, k)) /\ (k = Len(kept) => SubSeq(kept, 1, k) = kept)  BY <1>6, FirstLines
    <3>3. new \in Memory /\ IsFiniteSet(new.sids)  BY <3>2, LoadRemembers
    <3>4. k = Len(kept) => Remembered(kept, new.features) /\ GeneratedSids(kept) \subseteq new.sids
      BY <3>2, LoadRemembers
    <3>5. unread' = (IF k = Len(kept) THEN unread ELSE TRUE)  BY <3>1 DEF ReadUpTo
    <3>6. unread' \in BOOLEAN /\ (~unread' => k = Len(kept) /\ ~unread)  BY <3>5 DEF FileInv
    <3> HIDE DEF new
    <3>7. mem' = [mem EXCEPT ![i] = new]  BY <3>1 DEF new
    <3>8. MemoriesOK(mem', current)  BY <1>3, <1>5, <3>3, <3>7, MemoryReplaced
    <3>9. current = 1 => mem'[1] = new
      <4>1. current = 1 => i = 1 /\ DOMAIN mem = 1..1  BY <1>3, <1>5 DEF MemoriesOK
      <4> QED  BY <3>7, <4>1
    <3>10. Excused \subseteq Excused'  BY <1>2, <3>6 DEF Excused
    <3> QED  BY <3>4, <3>6, <3>8, <3>9, <3>10
  <2>2. CASE kept = file
    <3>1. UNCHANGED <<mem, unread, blind, current>>  BY <1>2, <2>2
    <3>2. Excused' = Excused  BY <3>1, SameExcuses
    <3>3. unread \in BOOLEAN  BY DEF FileInv
    <3> QED  BY <1>3, <2>2, <3>1, <3>2, <3>3 DEF FileOK
  <2> QED  BY <2>1, <2>2
<1>12. FileOK(file', mem', current, unread', Excused')
  <2>1. /\ \A ex : SidsDiffer(file, ex) => SidsDiffer(kept, ex)
        /\ ContentsDiffer(file) => ContentsDiffer(kept)
    BY <1>6, WithinKeeps
  <2>2. SidsDiffer(file, Excused')  BY <1>3, <1>11 DEF FileOK, SidsDiffer
  <2>3. current = 1 /\ ~unread => ContentsDiffer(file)  BY <1>3 DEF FileOK
  <2> QED  BY <1>2, <1>6, <1>11, <2>1, <2>2, <2>3 DEF FileOK
<1>13. WorkerOK(w, r, file', mem', lock', current, Excused')
  <2>1. Holds(r) => lock' = w  BY <1>8, <1>10 DEF Holds
  <2>2. r.at \notin {"write", "append", "delete", "done"} /\ worker[w].at # "done"  BY <1>2, <1>8, <1>10
  <2> QED  BY <1>1, <1>10, <2>1, <2>2 DEF WorkerOK
<1> QED  BY <1>2, <1>4, <1>8, <1>11, <1>12, <1>13, HolderKeepsInv

\* A deletion that fails leaves the file, or the first of the lines kept, and every memory as it was.
LEMMA DeletionFailsKeepsInv ==
    ASSUME FileInv, NEW w \in Workers, DeletionFails(w)  PROVE FileInv'
<1> DEFINE kept == Kept(file, worker[w].bad)
           r == [worker[w] EXCEPT !.at = "reload", !.round = 0, !.bad = {}, !.clean = TRUE]
<1>1. WorkerOK(w, worker[w], file, mem, lock, current, Excused) /\ worker[w] \in WorkerRecord  BY DEF FileInv
<1>2. worker[w].at = "delete" /\ UNCHANGED <<mem, current, blind, unread>> /\ lock' = None
      /\ worker' = [worker EXCEPT ![w] = r]
  BY DEF DeletionFails
<1>3. file' = file \/ \E k \in 0..Len(kept) : file' = SubSeq(kept, 1, k)  BY DEF DeletionFails
<1>4. FileOK(file, mem, current, unread, Excused) /\ MemoriesOK(mem, current) /\ unread \in BOOLEAN
  BY DEF FileInv
<1>5. lock = w  BY <1>1, <1>2 DEF WorkerOK, Holds
<1>6. Excused' = Excused  BY <1>2, SameExcuses
<1>7. r \in WorkerRecord /\ r.at = "reload" /\ r.inst = worker[w].inst
  <2>1. "reload" \in At  BY DEF At
  <2> QED  BY <1>1, <2>1 DEF WorkerRecord
<1> HIDE DEF r
<1>8. FileOK(file', mem', current, unread', Excused')
  <2>1. CASE file' = file  BY <1>2, <1>4, <1>6, <2>1
  <2>2. ASSUME NEW k \in 0..Len(kept), file' = SubSeq(kept, 1, k)  PROVE FileOK(file', mem', current, unread', Excused')
    <3>1. Lined(kept) /\ Within(kept, file)  BY <1>4, KeptIsWithin DEF FileOK
    <3> HIDE DEF kept
    <3>2. Lined(file') /\ Within(file', kept)  BY <2>2, <3>1, FirstLines
    <3>3. /\ GeneratedSids(file') \subseteq GeneratedSids(file)
          /\ \A ex : SidsDiffer(file, ex) => SidsDiffer(file', ex)
          /\ ContentsDiffer(file) => ContentsDiffer(file')
          /\ \A features : Remembered(file, features) => Remembered(file', features)
      BY <3>1, <3>2, WithinKeeps
    <3> QED  BY <1>2, <1>4, <1>6, <3>2, <3>3 DEF FileOK
  <2> QED  BY <1>3, <2>1, <2>2
<1>9. WorkerOK(w, r, file', mem', lock', current, Excused')
  <2>1. ~Holds(r)  BY <1>7 DEF Holds
  <2> QED  BY <1>1, <1>2, <1>7, <2>1 DEF WorkerOK
<1> QED  BY <1>2, <1>4, <1>5, <1>8, <1>9, HolderKeepsInv

\* A worker goes on beside a new instance: its own is an earlier one.
LEMMA WorkerGoesOn ==
    ASSUME NEW w \in Workers, NEW r, NEW f, NEW m, NEW held, NEW c \in Nat, NEW ex,
           WorkerOK(w, r, f, m, held, c, ex), NEW ex2, ex \subseteq ex2, NEW m2, \A i \in 1..c : m2[i] = m[i]
    PROVE  WorkerOK(w, r, f, m2, held, c + 1, ex2)
<1>1. r.inst \in Nat /\ r.inst >= 1  BY FileAssumption DEF WorkerOK, WorkerRecord, Instances
<1>2. r.inst \in 1..c /\ r.inst <= c + 1  BY <1>1 DEF WorkerOK
<1>3. w \in Instances => w \in Nat  BY FileAssumption DEF Instances
<1>4. w \in Instances /\ w > c + 1 => r.at = "done"  BY <1>3 DEF WorkerOK
<1>5. r.at = "append" => /\ r.sid \notin GeneratedSids(f) \/ r.sid \in ex2
                         /\ Contents[Head(r.todo)] = {} \/ Contents[Head(r.todo)] \notin m2[r.inst].features
  BY <1>2 DEF WorkerOK
<1> QED  BY <1>2, <1>4, <1>5 DEF WorkerOK

\* The memory of a new instance is read from the file.
LEMMA NewMemory ==
    ASSUME FileInv, current < MaxInstances, current' = current + 1, NEW k \in 0..Len(file),
           mem' = Append(mem, Load(SubSeq(file, 1, k))), UNCHANGED <<file, blind>>
    PROVE  /\ current \in Nat /\ current >= 1 /\ current' \in 1..MaxInstances /\ current + 1 \in Workers
           /\ MemoriesOK(mem', current') /\ FileOK(file', mem', current', unread', Excused')
           /\ \A i \in 1..current : mem'[i] = mem[i]
           /\ Excused \subseteq Excused'
<1>1. current \in Nat /\ current >= 1 /\ current' \in 1..MaxInstances /\ current + 1 \in Workers
  BY FileAssumption DEF FileInv, Workers, Instances
<1>2. MemoriesOK(mem, current) /\ FileOK(file, mem, current, unread, Excused)  BY DEF FileInv
<1> DEFINE new == Load(SubSeq(file, 1, k))
<1>3. new \in Memory /\ IsFiniteSet(new.sids)
  <2>1. Lined(SubSeq(file, 1, k))  BY <1>2, FirstLines DEF FileOK
  <2> QED  BY <2>1, LoadRemembers
<1> HIDE DEF new
<1>4. mem \in Seq(Memory) /\ Len(mem) = current  BY <1>2 DEF MemoriesOK
<1>5. mem' = Append(mem, new)  BY DEF new
<1>6. /\ mem' \in Seq(Memory) /\ Len(mem') = current + 1
      /\ mem'[current + 1] = new /\ \A i \in 1..current : mem'[i] = mem[i]
  BY <1>1, <1>3, <1>4, <1>5
<1>7. \A i \in 1..(current + 1) : IsFiniteSet(mem'[i].sids)
  <2> TAKE i \in 1..(current + 1)
  <2>1. CASE i = current + 1  BY <1>3, <1>6, <2>1
  <2>2. CASE i # current + 1
    <3>1. i \in 1..current  BY <1>1, <2>2
    <3> QED  BY <1>2, <1>6, <3>1 DEF MemoriesOK
  <2> QED  BY <2>1, <2>2
<1>8. MemoriesOK(mem', current')  BY <1>6, <1>7 DEF MemoriesOK
<1>10. Excused \subseteq Excused'
  <2>1. current' # 1  BY <1>1
  <2> QED  BY <2>1 DEF Excused
<1>9. FileOK(file', mem', current', unread', Excused')
  <2>1. current' # 1  BY <1>1
  <2>2. SidsDiffer(file, Excused')  BY <1>2, <1>10 DEF FileOK, SidsDiffer
  <2> QED  BY <1>2, <2>1, <2>2 DEF FileOK
<1> QED  BY <1>1, <1>6, <1>8, <1>9, <1>10

LEMMA ReloadAnalyzerKeepsInv ==
    ASSUME FileInv, ReloadAnalyzer  PROVE FileInv'
<1>1. current < MaxInstances /\ current' = current + 1
      /\ worker' = [worker EXCEPT ![current + 1] = Idle("sleep")] /\ UNCHANGED <<file, lock, blind>>
  BY DEF ReloadAnalyzer
<1>0. PICK k \in 0..Len(file) : mem' = Append(mem, Load(SubSeq(file, 1, k))) /\ ReadUpTo(file, k)
  BY DEF ReloadAnalyzer
<1>7. unread' \in BOOLEAN  BY <1>0 DEF FileInv, ReadUpTo
<1>2. /\ current \in Nat /\ current >= 1 /\ current' \in 1..MaxInstances /\ current + 1 \in Workers
      /\ MemoriesOK(mem', current') /\ FileOK(file', mem', current', unread', Excused')
      /\ \A i \in 1..current : mem'[i] = mem[i]
      /\ Excused \subseteq Excused'
  BY <1>0, <1>1, NewMemory
<1>3. WorkerOK(current + 1, Idle("sleep"), file', mem', lock', current', Excused') /\ Idle("sleep") \in WorkerRecord
  <2>1. current' \in Nat /\ current' >= 1 /\ ~(current + 1 > current')  BY <1>1, <1>2
  <2> QED  BY <2>1, IdleIsOK
<1>4. worker' \in [Workers -> WorkerRecord] /\ worker'[current + 1] = Idle("sleep")
      /\ \A w \in Workers : w # current + 1 => worker'[w] = worker[w]
  BY <1>1, <1>2, <1>3 DEF FileInv
<1>5. ASSUME NEW w \in Workers  PROVE WorkerOK(w, worker'[w], file', mem', lock', current', Excused')
  <2>1. CASE w = current + 1  BY <1>3, <1>4, <2>1
  <2>2. CASE w # current + 1
    <3>1. WorkerOK(w, worker[w], file, mem, lock, current, Excused)  BY DEF FileInv
    <3>2. WorkerOK(w, worker[w], file, mem', lock, current + 1, Excused')  BY <1>2, <3>1, WorkerGoesOn, Zenon
    <3> QED  BY <1>1, <1>4, <2>2, <3>2
  <2> QED  BY <2>1, <2>2
<1>6. lock' \in Workers \cup {None}  BY <1>1 DEF FileInv
<1> QED  BY <1>2, <1>4, <1>5, <1>6, <1>7 DEF FileInv

LEMMA RestartKeepsInv ==
    ASSUME FileInv, Restart  PROVE FileInv'
<1>0. PICK k \in 0..Len(file) : mem' = Append(mem, Load(SubSeq(file, 1, k))) /\ unread' = (unread \/ k < Len(file))
  BY DEF Restart
<1>6. unread' \in BOOLEAN  BY <1>0 DEF FileInv
<1>1. current < MaxInstances /\ current' = current + 1 /\ lock' = None
      /\ UNCHANGED <<file, blind>>
      /\ worker' = [w \in Workers |->
                      CASE w = current + 1 -> Idle("sleep")
                        [] w \in Tasks /\ worker[w].at = "new" -> worker[w]
                        [] OTHER -> Idle("done")]
  BY DEF Restart
<1>2. /\ current \in Nat /\ current >= 1 /\ current' \in 1..MaxInstances /\ current + 1 \in Workers
      /\ MemoriesOK(mem', current') /\ FileOK(file', mem', current', unread', Excused')
      /\ \A i \in 1..current : mem'[i] = mem[i]
      /\ Excused \subseteq Excused'
  BY <1>0, <1>1, NewMemory
<1>3. current' \in Nat /\ current' >= 1 /\ ~(current + 1 > current') /\ current + 1 \notin Tasks
  BY <1>1, <1>2, FileAssumption DEF Instances
<1>4. ASSUME NEW w \in Workers
      PROVE  worker'[w] \in WorkerRecord /\ WorkerOK(w, worker'[w], file', mem', lock', current', Excused')
  <2>1. CASE w = current + 1
    <3>1. worker'[w] = Idle("sleep")  BY <1>1, <1>3, <2>1
    <3> QED  BY <1>3, <2>1, <3>1, IdleIsOK
  <2>2. CASE w # current + 1 /\ w \in Tasks /\ worker[w].at = "new"
    <3>1. worker'[w] = worker[w]  BY <1>1, <2>2
    <3>2. WorkerOK(w, worker[w], file, mem, lock, current, Excused) /\ worker[w] \in WorkerRecord  BY DEF FileInv
    <3>3. WorkerOK(w, worker[w], file, mem', lock, current + 1, Excused')  BY <1>2, <3>2, WorkerGoesOn, Zenon
    <3>4. ~Holds(worker[w])  BY <2>2 DEF Holds
    <3> QED  BY <1>1, <3>1, <3>2, <3>3, <3>4, Undisturbed
  <2>3. CASE w # current + 1 /\ ~(w \in Tasks /\ worker[w].at = "new")
    <3>1. worker'[w] = Idle("done")  BY <1>1, <2>3
    <3> QED  BY <1>3, <3>1, IdleIsOK
  <2> QED  BY <2>1, <2>2, <2>3
<1>5. worker' \in [Workers -> WorkerRecord]
  <2>1. DOMAIN worker' = Workers /\ worker' = [w \in Workers |-> worker'[w]]  BY <1>1
  <2> QED  BY <1>4, <2>1
<1> QED  BY <1>1, <1>2, <1>4, <1>5, <1>6 DEF FileInv

\* An edit by hand, whatever the workers are at: it brings no generated rule.
LEMMA EditKeepsInv ==
    ASSUME FileInv, Edit, Lined(file'), Within(file', file)  PROVE FileInv'
<1>1. worker' = [w \in Workers |-> [worker[w] EXCEPT !.clean = worker[w].at # "delete"]]
      /\ UNCHANGED <<lock, current, mem, unread>> /\ Excused' = Excused
  BY SameExcuses DEF Edit, reading
<1>2. /\ GeneratedSids(file') \subseteq GeneratedSids(file)
      /\ \A ex : SidsDiffer(file, ex) => SidsDiffer(file', ex)
      /\ ContentsDiffer(file) => ContentsDiffer(file')
      /\ \A features : Remembered(file, features) => Remembered(file', features)
  BY WithinKeeps
<1>3. FileOK(file', mem', current', unread', Excused')  BY <1>1, <1>2 DEF FileOK, FileInv
<1>4. ASSUME NEW w \in Workers
      PROVE  worker'[w] \in WorkerRecord /\ WorkerOK(w, worker'[w], file', mem', lock', current', Excused')
  <2> DEFINE old == worker[w]
             clean == old.at # "delete"
             r == [old EXCEPT !.clean = clean]
  <2>1. WorkerOK(w, old, file, mem, lock, current, Excused) /\ old \in WorkerRecord  BY DEF FileInv
  <2>2. worker'[w] = r /\ clean \in BOOLEAN  BY <1>1
  <2> HIDE DEF clean
  <2>3. r \in WorkerRecord /\ r.at = old.at /\ r.todo = old.todo /\ r.sid = old.sid /\ r.inst = old.inst
        /\ r.clean = clean
    BY <2>1, <2>2 DEF WorkerRecord
  <2>4. r.at = "delete" => ~r.clean  BY <2>3 DEF clean
  <2> HIDE DEF r, old
  <2>0. w \in Instances /\ w > current => r.at = "done"  BY <2>1, <2>3 DEF WorkerOK
  <2>6. r.at = "append" => /\ r.sid \notin GeneratedSids(file') \/ r.sid \in Excused'
                           /\ Contents[Head(r.todo)] = {} \/ Contents[Head(r.todo)] \notin mem[r.inst].features
    BY <1>1, <1>2, <2>1, <2>3 DEF WorkerOK
  <2>7. Holds(r) => lock = w  BY <2>1, <2>3 DEF WorkerOK, Holds
  <2>5. WorkerOK(w, r, file', mem, lock, current, Excused')
    BY <2>0, <2>1, <2>3, <2>4, <2>6, <2>7 DEF WorkerOK
  <2> QED  BY <1>1, <2>2, <2>3, <2>5
<1>5. worker' \in [Workers -> WorkerRecord]
  <2>1. DOMAIN worker' = Workers /\ worker' = [w \in Workers |-> worker'[w]]  BY <1>1
  <2> QED  BY <1>4, <2>1
<1> QED  BY <1>1, <1>3, <1>4, <1>5 DEF FileInv

LEMMA HandAddKeepsInv ==
    ASSUME FileInv, NEW h \in HandRules, NEW c \in BOOLEAN, NEW e \in BOOLEAN, HandAdd(h, c, e)  PROVE FileInv'
<1>1. Lined(file)  BY DEF FileInv, FileOK
<1>2. Lined(file') /\ Within(file', file)
  <2> DEFINE g == Append([n \in DOMAIN file |-> [file[n] EXCEPT !.ended = TRUE]],
                         [parts |-> << [rule |-> h, sid |-> HandSid[h], hand |-> TRUE] >>,
                          comment |-> c, ended |-> e])
  <2>1. Lined(g) /\ Within(g, file)  BY <1>1, AddedIsWithin
  <2>2. file' = g  BY DEF HandAdd
  <2> HIDE DEF g
  <2> QED  BY <2>1, <2>2
<1> QED  BY <1>2, EditKeepsInv DEF HandAdd

LEMMA HandRemoveKeepsInv ==
    ASSUME FileInv, NEW n \in 1..Len(file), HandRemove(n)  PROVE FileInv'
<1>1. Lined(file)  BY DEF FileInv, FileOK
<1>2. Lined(file') /\ Within(file', file)
  <2> DEFINE g == RemoveAt(file, n)
  <2>1. Lined(g) /\ Within(g, file)  BY <1>1, RemovedIsWithin
  <2>2. file' = g  BY DEF HandRemove
  <2> HIDE DEF g
  <2> QED  BY <2>1, <2>2
<1> QED  BY <1>2, EditKeepsInv DEF HandRemove

\* A file of hand-written rules, and nothing under way.
LEMMA InitEstablishesInv ==
    ASSUME Init  PROVE FileInv
<1>1. PICK h \in SUBSET HandRules : \E s \in SetToSeqs(h) :
         file = [n \in DOMAIN s |-> [parts |-> << [rule |-> s[n], sid |-> HandSid[s[n]], hand |-> TRUE] >>,
                                     comment |-> FALSE, ended |-> TRUE]]
  BY DEF Init
<1>2. PICK s \in SetToSeqs(h) :
         file = [n \in DOMAIN s |-> [parts |-> << [rule |-> s[n], sid |-> HandSid[s[n]], hand |-> TRUE] >>,
                                     comment |-> FALSE, ended |-> TRUE]]
  BY <1>1
<1>3. Cardinality(h) \in Nat /\ s \in [1..Cardinality(h) -> h]
  <2>1. h \in SUBSET HandRules /\ IsFiniteSet(HandRules)  BY FileAssumption
  <2>2. IsFiniteSet(h)  BY <2>1, FS_Subset
  <2>3. Cardinality(h) \in Nat  BY <2>2, FS_CardinalityType
  <2>4. s \in [1..Cardinality(h) -> h]  BY DEF SetToSeqs
  <2> QED  BY <2>3, <2>4
<1> DEFINE c == Cardinality(h)
           part(n) == [rule |-> s[n], sid |-> HandSid[s[n]], hand |-> TRUE]
           line(n) == [parts |-> << part(n) >>, comment |-> FALSE, ended |-> TRUE]
<1>4. file = [n \in 1..c |-> line(n)]  BY <1>2, <1>3
<1>5. \A n \in 1..c : part(n) \in Part /\ part(n).hand
  <2> TAKE n \in 1..c
  <2>1. s[n] \in HandRules  BY <1>3
  <2> QED  BY <2>1, FileAssumption DEF Part
<1> HIDE DEF part
<1>6. \A n \in 1..c : line(n) \in Line /\ line(n).parts = << part(n) >>  BY <1>5 DEF Line
<1> HIDE DEF line, c
<1>7. c \in Nat  BY <1>3 DEF c
<1>8. file \in Seq(Line) /\ DOMAIN file = 1..c /\ \A n \in 1..c : file[n] = line(n)
  <2>1. DOMAIN file = 1..c /\ \A n \in 1..c : file[n] = line(n)  BY <1>4
  <2>2. \A n \in 1..c : line(n) \in Line  BY <1>6
  <2>3. file \in [1..c -> Line]  BY <1>4, <2>2
  <2> QED  BY <1>7, <2>1, <2>3
<1>9. \A n \in DOMAIN file : file[n].parts # << >> /\ file[n].parts[1].hand
  <2> TAKE n \in DOMAIN file
  <2>1. n \in 1..c /\ file[n] = line(n)  BY <1>8
  <2>2. file[n].parts = << part(n) >> /\ part(n).hand  BY <1>5, <1>6, <2>1
  <2> QED  BY <2>2
<1>10. Lined(file) /\ Generated(file) = {}
  <2>1. Lined(file)  BY <1>8, <1>9 DEF Lined
  <2>2. Generated(file) = {}  BY <1>9 DEF Generated, Live
  <2> QED  BY <2>1, <2>2
<1>11. FileOK(file, mem, current, unread, Excused)  BY <1>10 DEF FileOK, SidsDiffer, ContentsDiffer, Remembered, GeneratedSids
<1>16. unread \in BOOLEAN  BY DEF Init
<1>12. current = 1 /\ current \in 1..MaxInstances /\ lock = None  BY FileAssumption DEF Init
<1>13. MemoriesOK(mem, current)
  <2>0. PICK k \in 0..Len(file) : mem = << Load(SubSeq(file, 1, k)) >>  BY DEF Init
  <2> DEFINE new == Load(SubSeq(file, 1, k))
  <2>1. new \in Memory /\ IsFiniteSet(new.sids)
    <3>1. Lined(SubSeq(file, 1, k))  BY <1>10, FirstLines
    <3> QED  BY <3>1, LoadRemembers
  <2>2. mem = << new >>  BY <2>0
  <2> HIDE DEF new
  <2>3. mem \in Seq(Memory) /\ Len(mem) = 1 /\ mem[1] = new  BY <2>1, <2>2
  <2>4. \A i \in 1..1 : mem[i] = new  BY <2>3
  <2> QED  BY <1>12, <2>1, <2>3, <2>4 DEF MemoriesOK
<1>14. ASSUME NEW w \in Workers
       PROVE  worker[w] \in WorkerRecord /\ WorkerOK(w, worker[w], file, mem, lock, current, Excused)
  <2> DEFINE at == IF w \in Tasks THEN "new" ELSE IF w = 1 THEN "sleep" ELSE "done"
  <2>1. worker[w] = Idle(at)
    <3>1. 1 \notin Tasks  BY FileAssumption DEF Instances
    <3>2. worker = [v \in Workers |-> Idle(CASE v \in Tasks -> "new" [] v = 1 -> "sleep" [] OTHER -> "done")]
      BY DEF Init
    <3> QED  BY <3>1, <3>2
  <2>2. w \in Instances => w \notin Tasks /\ w \in Nat  BY FileAssumption DEF Instances
  <2>3. w \in Instances /\ w > 1 => at = "done"  BY <2>2
  <2>4. at \in {"new", "sleep", "done"}  OBVIOUS
  <2> HIDE DEF at
  <2> QED  BY <1>12, <2>1, <2>3, <2>4, IdleIsOK
<1>15. worker \in [Workers -> WorkerRecord]
  <2>1. worker = [w \in Workers |-> worker[w]]  BY DEF Init
  <2> QED  BY <1>14, <2>1
<1> QED  BY <1>11, <1>12, <1>13, <1>14, <1>15, <1>16 DEF FileInv

LEMMA StutterKeepsInv == ASSUME FileInv, UNCHANGED vars  PROVE FileInv'
<1>1. Excused' = Excused  BY SameExcuses DEF vars, reading
<1> QED  BY <1>1 DEF vars, reading, FileInv

LEMMA NextKeepsInv == ASSUME FileInv, [Next]_vars  PROVE FileInv'
<1>1. ASSUME NEW t \in Tasks, StartTask(t) \/ Write(t) \/ AllocateBlind(t) \/ AppendFails(t)  PROVE FileInv'
  BY <1>1, StartTaskKeepsInv, SkipKeepsInv, AllocateKeepsInv, AllocateBlindKeepsInv, AppendRuleKeepsInv,
     AppendFailsKeepsInv DEF Write
<1>2. ASSUME NEW w \in Workers, Heal(w) \/ TestFails(w) \/ DeletionFails(w) \/ ReloadFails(w)  PROVE FileInv'
  BY <1>2, TestKeepsInv, DeleteBadRulesKeepsInv, DeletionFailsKeepsInv, ReloadKeepsInv DEF Heal
<1> QED
  BY <1>1, <1>2, TickKeepsInv, ReloadAnalyzerKeepsInv, RestartKeepsInv, HandAddKeepsInv, HandRemoveKeepsInv,
     StutterKeepsInv DEF Next

-----------------------------------------------------------------------------
(* What is promised                                                        *)

\* In every reachable state the lock has one holder at most, and what is about to be
\* written or deleted still fits the file.
THEOREM FileInvariant == Spec => []FileInv
BY InitEstablishesInv, NextKeepsInv, PTL DEF Spec

\* Two generated rules have the same SID only if it was given out without scanning the file, and
\* then not by an only instance that had read all of it (rule_writer.py, _next_sid).
THEOREM SidsStayDifferent == Spec => []GeneratedSidsDiffer
<1>1. FileInv => GeneratedSidsDiffer
  BY FileAssumption DEF FileInv, FileOK, SidsDiffer, Generated, Excused, GeneratedSidsDiffer
<1> QED  BY <1>1, FileInvariant, PTL

\* One instance that has read the whole file writes no two rules with the same contents
\* (rule_writer.py, write_rule).
THEOREM FeaturesStayDifferent == Spec => []NoFeatureTwice
<1>1. FileInv => NoFeatureTwice
  BY DEF FileInv, FileOK, ContentsDiffer, Generated, NoFeatureTwice
<1> QED  BY <1>1, FileInvariant, PTL

\* A file without its refused lines has every rule that Suricata accepted.
LEMMA HealingKeepsTheGood ==
    ASSUME NEW f, Lined(f)
    PROVE  Loadable(f) \subseteq Loadable(Kept(f, Refused(f)))
<1> DEFINE g == Kept(f, Refused(f))
           keep == {n \in DOMAIN f : n \notin Refused(f) \/ f[n].comment}
<1>1. PICK h \in [DOMAIN g -> keep] :
         /\ g \in Seq(Line)
         /\ \A k \in DOMAIN g : g[k] = f[h[k]]
         /\ \A k, l \in DOMAIN g : k < l => h[k] < h[l]
         /\ \A n \in keep : \E k \in DOMAIN g : h[k] = n
  BY KeptLines
<1>2. keep \subseteq DOMAIN f  OBVIOUS
<1>3. \A n \in DOMAIN f : Good(f, n) => n \in keep  BY DEF Refused
<1> HIDE DEF g, keep
<1>4. ASSUME NEW n \in DOMAIN f, Good(f, n)
      PROVE  \E k \in DOMAIN g : Good(g, k) /\ g[k].parts[1] = f[n].parts[1]
  <2>1. PICK k \in DOMAIN g : h[k] = n  BY <1>1, <1>3, <1>4
  <2>2. g[k] = f[n]  BY <1>1, <2>1
  <2>3. k \in Live(g) /\ Len(g[k].parts) = 1 /\ g[k].parts[1].rule \in Valid  BY <1>4, <2>2 DEF Good, Live
  <2>4. ASSUME NEW l \in Live(g), l < k  PROVE g[l].parts[1].sid # g[k].parts[1].sid
    <3>1. l \in DOMAIN g /\ g[l] = f[h[l]] /\ h[l] < n  BY <1>1, <2>1, <2>4 DEF Live
    <3>2. h[l] \in Live(f)  BY <1>1, <1>2, <2>4, <3>1 DEF Live
    <3> QED  BY <1>4, <2>2, <3>1, <3>2 DEF Good
  <2>5. Good(g, k)  BY <2>3, <2>4 DEF Good
  <2> QED  BY <2>2, <2>5
<1>5. Loadable(f) \subseteq Loadable(g)  BY <1>4 DEF Loadable
<1> QED  BY <1>5 DEF g

\* Who is neither the healer nor dead while it heals leaves it where it is.
LEMMA HealingStep ==
    ASSUME FileInv, [Next]_vars, NEW w \in Workers,
           worker[w].at = "delete", worker'[w].at # "delete", worker[w].clean
    PROVE  Loadable(file) \subseteq Loadable(file') \/ (ioErrors' = ioErrors + 1 /\ mem' = mem)
<1>1. CASE file' = file  BY <1>1
<1>2. CASE file' # file
  <2>0. worker \in [Workers -> WorkerRecord] /\ Tasks \subseteq Workers  BY DEF FileInv, Workers
  <2>1. ASSUME NEW t \in Tasks, AppendRule(t)  PROVE FALSE
    <3>1. t # w  BY <2>1 DEF AppendRule
    <3>2. worker'[w] = worker[w]
      <4> DEFINE r == worker'[t]
      <4>1. \A v \in Workers : v # t => worker'[v] = worker[v]  BY <2>0, <2>1 DEF AppendRule
      <4> QED  BY <3>1, <4>1
    <3> QED  BY <3>2
  <2>2. ASSUME NEW v \in Workers, DeleteBadRules(v)  PROVE Loadable(file) \subseteq Loadable(file')
    <3>1. CASE v = w
      <4>1. worker[w].bad = Refused(file) /\ Lined(file)  BY DEF FileInv, FileOK, WorkerOK
      <4>2. file' = Kept(file, Refused(file))  BY <2>2, <3>1, <4>1 DEF DeleteBadRules
      <4> QED  BY <4>1, <4>2, HealingKeepsTheGood
    <3>2. CASE v # w
      <4>1. \A u \in Workers : u # v => worker'[u] = worker[u]  BY <2>0, <2>2 DEF DeleteBadRules
      <4> QED  BY <3>2, <4>1
    <3> QED  BY <3>1, <3>2
  <2>4. ASSUME NEW v \in Workers, DeletionFails(v)  PROVE ioErrors' = ioErrors + 1 /\ mem' = mem
    BY <2>4 DEF DeletionFails, IoError
  <2>3. ASSUME Edit  PROVE FALSE
    <3>1. worker'[w] = [worker[w] EXCEPT !.clean = worker[w].at # "delete"]  BY <2>3 DEF Edit
    <3>2. worker'[w].at = worker[w].at  BY <2>0, <3>1 DEF WorkerRecord
    <3> QED  BY <3>2
  <2> QED
    BY <1>2, <2>1, <2>2, <2>3, <2>4
    DEF Next, vars, StartTask, Write, Skip, Allocate, AllocateBlind, AppendFails, Tick, Heal, Test, Reload, TestFails, ReloadFails,
        ReloadAnalyzer, Restart, HandAdd, HandRemove
<1> QED  BY <1>1, <1>2

\* The failed reads and rewrites are counted.
Counted == ioErrors \in Nat

LEMMA CountGoesOn == ASSUME Counted, [Next]_vars  PROVE Counted'
<1>1. CASE ioErrors' \in {ioErrors, ioErrors + 1}  BY <1>1 DEF Counted
<1>2. ASSUME NEW t \in Tasks, StartTask(t) \/ Write(t) \/ AllocateBlind(t) \/ AppendFails(t)
      PROVE  ioErrors' \in {ioErrors, ioErrors + 1}
  BY <1>2 DEF StartTask, Write, Skip, Allocate, AllocateBlind, AppendRule, AppendFails, IoError, reading
<1>3. ASSUME NEW w \in Workers, DeleteBadRules(w)  PROVE ioErrors' \in {ioErrors, ioErrors + 1}
  BY <1>3 DEF DeleteBadRules, ReadUpTo, IoError
<1>4. ASSUME NEW w \in Workers, Test(w) \/ Reload(w) \/ TestFails(w) \/ DeletionFails(w) \/ ReloadFails(w)
      PROVE  ioErrors' \in {ioErrors, ioErrors + 1}
  BY <1>4 DEF Test, Reload, TestFails, DeletionFails, ReloadFails, IoError, reading
<1>5. ASSUME ReloadAnalyzer \/ Restart  PROVE ioErrors' \in {ioErrors, ioErrors + 1}
  BY <1>5 DEF ReloadAnalyzer, Restart, ReadUpTo, IoError
<1>6. ASSUME Edit  PROVE ioErrors' \in {ioErrors, ioErrors + 1}  BY <1>6 DEF Edit, reading
<1>7. ASSUME NEW i \in 1..current, Tick(i)  PROVE ioErrors' \in {ioErrors, ioErrors + 1}  BY <1>7 DEF Tick, reading
<1>8. CASE UNCHANGED vars  BY <1>1, <1>8 DEF vars, reading
<1> QED
  BY <1>1, <1>2, <1>3, <1>4, <1>5, <1>6, <1>7, <1>8 DEF Next, Heal, HandAdd, HandRemove

LEMMA IoErrorsCounted == Spec => []Counted
<1>1. Init => Counted  BY DEF Init, Counted
<1> QED  BY <1>1, CountGoesOn, PTL DEF Spec

\* Healing takes away no rule that Suricata accepts (rule_writer.py, _delete_bad_rules), unless
\* a person edits the file between its test and the deletion, or the rewrite breaks off.
THEOREM HealingSpares == Spec => HealingSparesGoodRules
<1> DEFINE Spared ==
      \A w \in Workers : worker[w].at = "delete" /\ worker'[w].at # "delete" /\ worker[w].clean
         => \/ Loadable(file) \subseteq Loadable(file')
            \/ ioErrors' > ioErrors /\ mem' = mem
<1>1. ASSUME FileInv, Counted, [Next]_vars  PROVE Spared
  <2>1. ioErrors' = ioErrors + 1 => ioErrors' > ioErrors  BY <1>1 DEF Counted
  <2> QED  BY <1>1, <2>1, HealingStep
<1>2. FileInv /\ Counted /\ [Next]_vars => [Spared]_vars  BY <1>1
<1> HIDE DEF Spared
<1>3. Spec => [][Spared]_vars  BY <1>2, FileInvariant, IoErrorsCounted, PTL DEF Spec
<1> QED  BY <1>3 DEF Spared, HealingSparesGoodRules
=============================================================================
