---------------------------- MODULE ServerProofs ----------------------------
(***************************************************************************)
(* Proofs about the two ends of the server that have no lock of their own: *)
(* services/apis/httpapi/httpapi.go, for any variables, queries, bodies    *)
(* and requests, and the settings of main.go and misc/confs/confs.go, for  *)
(* any command line, environment and configuration file.                   *)
(***************************************************************************)
EXTENDS HttpTree, Startup, FiniteSetTheorems, SequenceTheorems, WellFoundedInduction, TLAPS

(***************************************************************************)
(* HttpTree: paths                                                         *)
(***************************************************************************)

(* The words of names and queries, and the paths made of them. *)
Words == (UNION {Range(n) : n \in Names}) \cup (UNION {Range(q.base) : q \in Queries}) \cup {Own}
Paths == Seq(Words)

LEMMA NamesArePaths ==
  /\ \A n \in Names : n \in Paths /\ n # <<>> /\ Len(n) \in Nat /\ Len(n) > 0
  /\ \A q \in Queries : q.base \in Paths /\ q.wild \in BOOLEAN
  /\ \A n \in Names \ Refused : \A i \in 1..Len(n) : n[i] # Own
  /\ <<Own>> \in Paths /\ <<>> \in Paths
<1>1. \A n \in Names : n \in Paths /\ n # <<>>
  <2> SUFFICES ASSUME NEW n \in Names PROVE n \in Paths /\ n # <<>>
    OBVIOUS
  <2>1. n \in Seq(Range(n)) /\ n # <<>>
    BY HttpAssumption
  <2>2. Range(n) \subseteq Words
    BY DEF Words
  <2>3. n \in Seq(Words)
    BY <2>1, <2>2, SeqMonotonic
  <2> QED BY <2>1, <2>3 DEF Paths
<1>2. \A q \in Queries : q.base \in Paths /\ q.wild \in BOOLEAN
  <2> SUFFICES ASSUME NEW q \in Queries PROVE q.base \in Paths /\ q.wild \in BOOLEAN
    OBVIOUS
  <2>1. q.base \in Seq(Range(q.base)) /\ q.wild \in BOOLEAN
    BY HttpAssumption
  <2>2. Range(q.base) \subseteq Words
    BY DEF Words
  <2>3. q.base \in Seq(Words)
    BY <2>1, <2>2, SeqMonotonic
  <2> QED BY <2>1, <2>3 DEF Paths
<1>3. \A n \in Names : Len(n) \in Nat /\ Len(n) > 0 /\ DOMAIN n = 1..Len(n)
  BY <1>1, EmptySeq, LenProperties DEF Paths
<1>4. \A n \in Names \ Refused : \A i \in 1..Len(n) : n[i] # Own
  <2> SUFFICES ASSUME NEW n \in Names \ Refused, NEW i \in 1..Len(n) PROVE n[i] # Own
    OBVIOUS
  <2>1. Own \notin Range(n)
    BY HttpAssumption
  <2> QED BY <1>3, <2>1 DEF Range
<1>5. Own \in Words
  BY DEF Words
<1> QED BY <1>1, <1>2, <1>3, <1>4, <1>5 DEF Paths

LEMMA PathLen ==
  ASSUME NEW p \in Paths
  PROVE  Len(p) \in Nat /\ DOMAIN p = 1..Len(p) /\ (p = <<>> <=> Len(p) = 0)
  BY EmptySeq, LenProperties DEF Paths

(* Prefixes, word by word. *)
LEMMA UnderIs ==
  ASSUME NEW s \in Paths, NEW t \in Paths
  PROVE  /\ Under(s, t) <=> Len(s) <= Len(t) /\ \A i \in 1..Len(s) : s[i] = t[i]
         /\ Below(s, t) <=> Len(s) < Len(t) /\ \A i \in 1..Len(s) : s[i] = t[i]
<1> DEFINE a == Len(s)
           b == Len(t)
<1>1. a \in Nat /\ b \in Nat
  BY PathLen
<1>2. Under(s, t) <=> a <= b /\ \A i \in 1..a : s[i] = t[i]
  <2>1. CASE a <= b
    <3> DEFINE x == SubSeq(s, 1, a)
               y == SubSeq(t, 1, a)
    <3>1. x = s
      BY SubSeqFull DEF Paths
    <3>2. y \in Paths /\ Len(y) = a /\ \A i \in 1..a : y[i] = t[i]
      <4>1. \A i \in 1..a : i \in 1..b
        BY <1>1, <2>1
      <4>2. SubSeq(t, 1, a) = [i \in 1..a |-> t[i]]
        BY <1>1
      <4>3. \A i \in 1..a : t[i] \in Words
        BY <4>1, ElementOfSeq DEF Paths
      <4>4. [i \in 1..a |-> t[i]] \in Paths
        BY <1>1, <4>3, IsASeq DEF Paths
      <4>5. Len([i \in 1..a |-> t[i]]) = a
        BY <1>1
      <4> QED BY <4>2, <4>4, <4>5
    <3>3. Under(s, t) <=> x = y
      BY <2>1 DEF Under, IsPrefix
    <3> HIDE DEF x, y
    <3>4. s = y <=> \A i \in 1..a : s[i] = y[i]
      BY <3>2, SeqEqual DEF Paths
    <3> QED BY <2>1, <3>1, <3>2, <3>3, <3>4
  <2>2. CASE ~(a <= b)
    BY <2>2 DEF Under, IsPrefix
  <2> QED BY <2>1, <2>2
<1>3. Below(s, t) <=> Under(s, t) /\ s # t
  BY DEF Below, Under, IsStrictPrefix
<1>4. (\A i \in 1..a : s[i] = t[i]) /\ a = b => s = t
  BY SeqEqual DEF Paths
<1>5. s = t => a = b
  OBVIOUS
<1> HIDE DEF a, b
<1>6. Below(s, t) <=> a < b /\ \A i \in 1..a : s[i] = t[i]
  BY <1>1, <1>2, <1>3, <1>4, <1>5
<1> QED BY <1>2, <1>6 DEF a, b

LEMMA PathsEqual ==
  ASSUME NEW s \in Paths, NEW t \in Paths, Len(s) = Len(t), \A i \in 1..Len(s) : s[i] = t[i]
  PROVE  s = t
  BY SeqEqual DEF Paths

LEMMA WithOwn ==
  ASSUME NEW p \in Paths
  PROVE  /\ Append(p, Own) \in Paths /\ Append(p, Own) # <<>> /\ Len(Append(p, Own)) = Len(p) + 1
         /\ Append(p, Own)[Len(p) + 1] = Own
         /\ \A i \in 1..Len(p) : Append(p, Own)[i] = p[i]
<1>1. Own \in Words
  BY DEF Words
<1> QED BY <1>1, AppendProperties DEF Paths

(* The path without the word for the own value. *)
Strip(p) == IF Last(p) = Own THEN Front(p) ELSE p

LEMMA StripIs ==
  ASSUME NEW p \in Paths, p # <<>>
  PROVE  /\ Strip(p) \in Paths
         /\ p[Len(p)] # Own => Strip(p) = p
         /\ p[Len(p)] = Own => /\ Len(Strip(p)) = Len(p) - 1
                               /\ \A i \in 1..(Len(p) - 1) : Strip(p)[i] = p[i]
<1>1. Len(p) \in Nat /\ Len(p) > 0
  BY PathLen
<1>2. CASE p[Len(p)] # Own
  BY <1>2 DEF Strip, Last
<1>3. CASE p[Len(p)] = Own
  <2> DEFINE m == Len(p) - 1
  <2>1. m \in Nat /\ \A i \in 1..m : i \in 1..Len(p)
    BY <1>1
  <2>2. Strip(p) = SubSeq(p, 1, m)
    BY <1>3 DEF Strip, Last, Front
  <2>3. SubSeq(p, 1, m) = [i \in 1..m |-> p[i]]
    BY <2>1
  <2> HIDE DEF m
  <2>4. \A i \in 1..m : p[i] \in Words
    BY <2>1, ElementOfSeq DEF Paths
  <2>5. [i \in 1..m |-> p[i]] \in Paths
    BY <2>1, <2>4, IsASeq DEF Paths
  <2>6. Len([i \in 1..m |-> p[i]]) = m
    BY <2>1
  <2>7. Strip(p) \in Paths /\ Len(Strip(p)) = m /\ \A i \in 1..m : Strip(p)[i] = p[i]
    BY <2>2, <2>3, <2>5, <2>6
  <2> QED BY <1>3, <2>7 DEF m
<1> QED BY <1>2, <1>3

LEMMA StripWithOwn ==
  ASSUME NEW p \in Paths
  PROVE  Strip(Append(p, Own)) = p
<1> DEFINE q == Append(p, Own)
<1>1. /\ q \in Paths /\ Len(q) = Len(p) + 1 /\ q[Len(p) + 1] = Own
      /\ \A i \in 1..Len(p) : q[i] = p[i]
  BY WithOwn
<1>2. Len(p) \in Nat
  BY PathLen
<1> HIDE DEF q
<1>3. q # <<>> /\ q[Len(q)] = Own
  BY <1>1, <1>2, PathLen
<1>4. Strip(q) \in Paths /\ Len(Strip(q)) = Len(q) - 1 /\ \A i \in 1..(Len(q) - 1) : Strip(q)[i] = q[i]
  BY <1>1, <1>3, StripIs
<1>5. Len(q) - 1 = Len(p)
  BY <1>1, <1>2
<1>6. Len(Strip(q)) = Len(p) /\ \A i \in 1..Len(p) : Strip(q)[i] = p[i]
  BY <1>1, <1>4, <1>5
<1>7. Strip(q) = p
  BY <1>4, <1>6, PathsEqual
<1> QED BY <1>7 DEF q

(* PathOf for the record of a request. *)
Path(j, n) ==
  IF j.full THEN n
  ELSE IF n = j.query.base THEN IF j.count = 1 THEN n ELSE <<Own>>
  ELSE SubSeq(n, Len(j.query.base) + 1, Len(n))

Asked(j) == j.query \in Queries /\ j.full \in BOOLEAN

LEMMA PathOfIs ==
  ASSUME NEW r, NEW n, job[r].full \in BOOLEAN
  PROVE  PathOf(r, n) = Path(job[r], n)
<1>1. CASE job[r].full
  BY <1>1, Zenon DEF PathOf, Path
<1>2. CASE ~job[r].full
  BY <1>2, Zenon DEF PathOf, Path
<1> QED BY <1>1, <1>2

LEMMA PathIs ==
  ASSUME NEW j, Asked(j), NEW n \in Names, Covered(j.query, n)
  PROVE  /\ Path(j, n) \in Paths /\ Path(j, n) # <<>>
         /\ ~j.full /\ n # j.query.base =>
               /\ Below(j.query.base, n)
               /\ Len(Path(j, n)) = Len(n) - Len(j.query.base)
               /\ \A i \in 1..(Len(n) - Len(j.query.base)) : Path(j, n)[i] = n[Len(j.query.base) + i]
<1> DEFINE b == j.query.base
<1>1. n \in Paths /\ n # <<>> /\ b \in Paths /\ <<Own>> \in Paths /\ <<Own>> # <<>>
  BY NamesArePaths DEF Asked
<1>2. CASE j.full \/ n = b
  <2>1. Path(j, n) \in {n, <<Own>>}
    BY <1>2 DEF Path
  <2> QED BY <1>1, <1>2, <2>1
<1>3. CASE ~j.full /\ n # b
  <2> DEFINE x == Len(b)
             y == Len(n)
             p == Path(j, n)
  <2>1. Below(b, n)
    BY <1>3 DEF Covered
  <2>2. x \in Nat /\ y \in Nat /\ x < y
    BY <1>1, <2>1, UnderIs, PathLen
  <2>3. p = SubSeq(n, x + 1, y)
    BY <1>3 DEF Path
  <2> HIDE DEF x, y
  <2>4. \A i \in (x + 1)..y : n[i] \in Words
    <3>1. \A i \in (x + 1)..y : i \in 1..Len(n)
      BY <2>2 DEF y
    <3> QED BY <1>1, <3>1, ElementOfSeq DEF Paths
  <2>5. /\ SubSeq(n, x + 1, y) \in Seq(Words)
        /\ Len(SubSeq(n, x + 1, y)) = IF x + 1 <= y THEN y - (x + 1) + 1 ELSE 0
        /\ \A i \in 1..(y - (x + 1) + 1) : SubSeq(n, x + 1, y)[i] = n[(x + 1) + i - 1]
    <3>1. x + 1 \in Int /\ y \in Int
      BY <2>2
    <3> QED BY <2>4, <3>1, SubSeqProperties
  <2> HIDE DEF p
  <2>6. p \in Paths /\ Len(p) = y - x
    BY <2>2, <2>3, <2>5 DEF Paths
  <2>7. \A i \in 1..(y - x) : p[i] = n[x + i]
    <3> SUFFICES ASSUME NEW i \in 1..(y - x) PROVE p[i] = n[x + i]
      OBVIOUS
    <3>1. i \in 1..(y - (x + 1) + 1) /\ (x + 1) + i - 1 = x + i
      BY <2>2
    <3> QED BY <2>3, <2>5, <3>1
  <2>8. p # <<>>
    BY <2>2, <2>6, PathLen
  <2> QED BY <1>3, <2>1, <2>6, <2>7, <2>8 DEF p, x, y
<1> QED BY <1>2, <1>3

(* A path has the word for the own value only as a whole. *)
LEMMA PathClean ==
  ASSUME NEW j, Asked(j), NEW n \in Names \ Refused, Covered(j.query, n)
  PROVE  \/ Path(j, n) = <<Own>> /\ n = j.query.base /\ ~j.full /\ j.count # 1
         \/ \A i \in 1..Len(Path(j, n)) : Path(j, n)[i] # Own
<1> DEFINE b == j.query.base
<1>1. \A i \in 1..Len(n) : n[i] # Own
  BY NamesArePaths
<1>2. CASE j.full \/ (n = b /\ j.count = 1)
  <2>1. Path(j, n) = n
    BY <1>2 DEF Path, Asked
  <2> QED BY <1>1, <2>1
<1>3. CASE ~j.full /\ n = b /\ j.count # 1
  BY <1>3 DEF Path
<1>4. CASE ~j.full /\ n # b
  <2>1. /\ Below(b, n) /\ Len(Path(j, n)) = Len(n) - Len(b)
        /\ \A i \in 1..(Len(n) - Len(b)) : Path(j, n)[i] = n[Len(b) + i]
    BY <1>4, PathIs
  <2>2. n \in Paths /\ b \in Paths
    BY NamesArePaths DEF Asked
  <2>3. Len(n) \in Nat /\ Len(b) \in Nat
    BY <2>2, PathLen
  <2>4. \A i \in 1..(Len(n) - Len(b)) : Len(b) + i \in 1..Len(n)
    BY <2>3
  <2> QED BY <1>1, <2>1, <2>4
<1> QED BY <1>2, <1>3, <1>4 DEF Asked

(* Paths are in the order of the names. *)
LEMMA PathOrder ==
  ASSUME NEW j, Asked(j), j.count # 1,
         NEW n \in Names \ Refused, Covered(j.query, n), j.full \/ n # j.query.base,
         NEW m \in Names \ Refused, Covered(j.query, m),
         Under(Path(j, n), Path(j, m))
  PROVE  Under(n, m)
<1> DEFINE b == j.query.base
           x == Path(j, n)
           y == Path(j, m)
<1>1. n \in Paths /\ m \in Paths /\ b \in Paths
  BY NamesArePaths DEF Asked
<1>2. x \in Paths /\ x # <<>> /\ y \in Paths /\ y # <<>>
  BY PathIs
<1>3. Len(x) <= Len(y) /\ \A i \in 1..Len(x) : x[i] = y[i]
  BY <1>2, UnderIs
<1>4. CASE j.full
  BY <1>4 DEF Path
<1>5. CASE ~j.full /\ m = b
  <2>1. y = <<Own>>
    BY <1>5 DEF Path
  <2>2. 1 \in 1..Len(x)
    BY <1>2, PathLen
  <2>3. x[1] = Own
    BY <1>3, <2>1, <2>2
  <2>4. \A i \in 1..Len(x) : x[i] # Own
    BY <1>5, PathClean
  <2> QED BY <2>2, <2>3, <2>4
<1>6. CASE ~j.full /\ m # b
  <2>1. /\ Below(b, n) /\ Len(x) = Len(n) - Len(b)
        /\ \A i \in 1..(Len(n) - Len(b)) : x[i] = n[Len(b) + i]
    BY <1>6, PathIs
  <2>2. /\ Below(b, m) /\ Len(y) = Len(m) - Len(b)
        /\ \A i \in 1..(Len(m) - Len(b)) : y[i] = m[Len(b) + i]
    BY <1>6, PathIs
  <2> HIDE DEF x, y, b
  <2>3. /\ Len(b) < Len(n) /\ \A i \in 1..Len(b) : b[i] = n[i]
        /\ Len(b) < Len(m) /\ \A i \in 1..Len(b) : b[i] = m[i]
    BY <1>1, <2>1, <2>2, UnderIs
  <2>4. Len(b) \in Nat /\ Len(n) \in Nat /\ Len(m) \in Nat
    BY <1>1, PathLen
  <2>5. Len(n) <= Len(m)
    BY <1>3, <2>1, <2>2, <2>4
  <2>6. ASSUME NEW i \in 1..Len(n) PROVE n[i] = m[i]
    <3>1. CASE i <= Len(b)
      BY <2>3, <2>4, <3>1
    <3>2. CASE ~(i <= Len(b))
      <4>1. PICK k \in 1..(Len(n) - Len(b)) : i = Len(b) + k
        <5>1. i - Len(b) \in 1..(Len(n) - Len(b)) /\ i = Len(b) + (i - Len(b))
          BY <2>4, <3>2
        <5> QED BY <5>1
      <4>2. k \in 1..Len(x) /\ k \in 1..(Len(m) - Len(b))
        BY <2>1, <2>4, <2>5, <4>1
      <4>3. x[k] = n[i] /\ y[k] = m[i]
        BY <2>1, <2>2, <4>1, <4>2
      <4> QED BY <1>3, <4>2, <4>3
    <3> QED BY <3>1, <3>2
  <2> QED BY <1>1, <2>5, <2>6, UnderIs
<1> QED BY <1>4, <1>5, <1>6 DEF Asked

(* Where the value of a variable may be in the object. *)
Spot(j, n, p) == p = Path(j, n) \/ (p = Append(Path(j, n), Own) /\ Path(j, n) # <<Own>>)

(* What a client reads at such a place is the name. *)
LEMMA SpotIsRead ==
  ASSUME NEW j, Asked(j), NEW n \in Names \ Refused, Covered(j.query, n), NEW p, Spot(j, n, p)
  PROVE  /\ p \in Paths /\ p # <<>>
         /\ j.full \/ (n = j.query.base /\ j.count = 1) => Strip(p) = n
         /\ ~(j.full \/ (n = j.query.base /\ j.count = 1)) => j.query.base \o Strip(p) = n
         /\ Path(j, n) # <<Own>> => Strip(p) = Path(j, n)
         /\ Path(j, n) = <<Own>> => p = <<Own>>
         /\ \A i \in 1..(Len(p) - 1) : p[i] # Own
<1> DEFINE b == j.query.base
           x == Path(j, n)
<1>1. n \in Paths /\ b \in Paths /\ x \in Paths /\ x # <<>>
  BY NamesArePaths, PathIs DEF Asked
<1>2. Len(x) \in Nat /\ Len(x) > 0
  BY <1>1, PathLen
<1>3. \/ x = <<Own>> /\ n = b /\ ~j.full /\ j.count # 1
      \/ \A i \in 1..Len(x) : x[i] # Own
  BY PathClean
<1>4. CASE x = <<Own>>
  <2>1. p = <<Own>>
    BY <1>4 DEF Spot
  <2>2. n = b /\ ~j.full /\ j.count # 1
    <3>1. Len(<<Own>>) = 1 /\ <<Own>>[1] = Own
      OBVIOUS
    <3>2. ~(\A i \in 1..Len(x) : x[i] # Own)
      BY <1>4, <3>1
    <3> QED BY <1>3, <3>2
  <2>3. Strip(<<Own>>) = <<>>
    <3>1. <<Own>> \in Paths /\ <<Own>> # <<>> /\ Len(<<Own>>) = 1 /\ <<Own>>[1] = Own
      BY NamesArePaths
    <3>2. Strip(<<Own>>) \in Paths /\ Len(Strip(<<Own>>)) = 0
      BY <3>1, StripIs
    <3> QED BY <3>2, PathLen
  <2>4. b \o <<>> = b
    BY <1>1, ConcatEmptySeq DEF Paths
  <2>5. \A i \in 1..(Len(p) - 1) : p[i] # Own
    BY <2>1
  <2> QED BY <1>1, <1>4, <2>1, <2>2, <2>3, <2>4, <2>5
<1>5. CASE x # <<Own>>
  <2>1. \A i \in 1..Len(x) : x[i] # Own
    BY <1>3, <1>5
  <2>2. p = x \/ p = Append(x, Own)
    BY DEF Spot
  <2> HIDE DEF x, b
  <2>3. Strip(p) = x /\ p \in Paths /\ p # <<>>
    <3>1. CASE p = x
      <4>1. x[Len(x)] # Own
        BY <1>2, <2>1
      <4> QED BY <1>1, <3>1, <4>1, StripIs
    <3>2. CASE p = Append(x, Own)
      <4>1. Append(x, Own) \in Paths /\ Append(x, Own) # <<>>
        BY <1>1, WithOwn
      <4> QED BY <1>1, <3>2, <4>1, StripWithOwn
    <3> QED BY <2>2, <3>1, <3>2
  <2>4. \A i \in 1..(Len(p) - 1) : p[i] # Own
    <3>1. CASE p = x
      <4>1. \A i \in 1..(Len(x) - 1) : i \in 1..Len(x)
        BY <1>2
      <4> QED BY <2>1, <3>1, <4>1
    <3>2. CASE p = Append(x, Own)
      <4>1. Len(p) = Len(x) + 1 /\ \A i \in 1..Len(x) : p[i] = x[i]
        BY <1>1, <3>2, WithOwn
      <4>2. Len(p) - 1 = Len(x)
        BY <1>2, <4>1
      <4> QED BY <2>1, <4>1, <4>2
    <3> QED BY <2>2, <3>1, <3>2
  <2>5. j.full \/ (n = b /\ j.count = 1) => x = n
    BY DEF Path, Asked, x, b
  <2>6. ASSUME ~(j.full \/ (n = b /\ j.count = 1)) PROVE b \o x = n
    <3>1. ~j.full /\ n # b
      BY <1>5, <2>6 DEF Path, x, b
    <3>2. Below(b, n) /\ Len(x) = Len(n) - Len(b) /\ \A i \in 1..(Len(n) - Len(b)) : x[i] = n[Len(b) + i]
      BY <3>1, PathIs DEF x, b
    <3>3. /\ b \o x \in Paths /\ Len(b \o x) = Len(b) + Len(x)
          /\ \A i \in 1..(Len(b) + Len(x)) : (b \o x)[i] = IF i <= Len(b) THEN b[i] ELSE x[i - Len(b)]
      BY <1>1, ConcatProperties DEF Paths
    <3>4. Len(b) < Len(n) /\ \A i \in 1..Len(b) : b[i] = n[i]
      BY <1>1, <3>2, UnderIs
    <3>5. Len(b) \in Nat /\ Len(n) \in Nat
      BY <1>1, PathLen
    <3>6. Len(b) + Len(x) = Len(n)
      BY <3>2, <3>5
    <3> DEFINE c == b \o x
    <3> HIDE DEF c
    <3>7. ASSUME NEW i \in 1..Len(n) PROVE c[i] = n[i]
      <4>1. c[i] = IF i <= Len(b) THEN b[i] ELSE x[i - Len(b)]
        BY <3>3, <3>6 DEF c
      <4>2. CASE i <= Len(b)
        BY <3>4, <3>5, <4>1, <4>2
      <4>3. CASE ~(i <= Len(b))
        <5>1. PICK k \in 1..(Len(n) - Len(b)) : i = Len(b) + k /\ k = i - Len(b)
          <6>1. i - Len(b) \in 1..(Len(n) - Len(b)) /\ i = Len(b) + (i - Len(b))
            BY <3>5, <4>3
          <6> QED BY <6>1
        <5>2. c[i] = x[k]
          BY <4>1, <4>3, <5>1
        <5>3. x[k] = n[Len(b) + k]
          BY <3>2, <5>1
        <5>4. n[Len(b) + k] = n[i]
          BY <5>1
        <5> QED BY <5>2, <5>3, <5>4
      <4> QED BY <4>2, <4>3
    <3>8. c \in Paths /\ Len(c) = Len(n)
      BY <3>3, <3>6 DEF c
    <3>9. c = n
      BY <1>1, <3>7, <3>8, PathsEqual
    <3> QED BY <3>9 DEF c
  <2> QED BY <1>5, <2>3, <2>4, <2>5, <2>6 DEF x, b
<1> QED BY <1>4, <1>5

(***************************************************************************)
(* HttpTree: the object of an answer                                       *)
(***************************************************************************)

(* A variable asked for that had the value t while the request was served. *)
Seen(j, n, t) == n \in Names \ Refused /\ Covered(j.query, n) /\ t \in j.seen[n] \cap Texts

HasEntry(j, e) ==
  \/ \E n, t : Seen(j, n, t) /\ e = <<n, t>>
  \/ e = <<j.query.base, Empty>> /\ j.count = 1 /\ j.pc # "read"

HasLeaf(j, d) ==
  \/ \E n, t : Seen(j, n, t) /\ Spot(j, n, d[1]) /\ d = <<d[1], Json[t]>>
  \/ d = <<j.query.base, Json[Empty]>> /\ j.count = 1

ValsOK(j) ==
  /\ IsFiniteSet(j.vals)
  /\ \A e \in j.vals : HasEntry(j, e)
  /\ \A e, f \in j.vals : e[1] = f[1] => e = f

(* The object while insertNested fills it.  The second conjunct from the   *)
(* end is what the order of GetVars is for: a variable yet to be inserted  *)
(* is not below one that is there.                                         *)
DocOK(j) ==
  /\ (j.count = 1) => (\A e, f \in j.vals : e = f) /\ (j.vals # {} => j.doc = {})
  /\ \A d \in j.doc : HasLeaf(j, d)
  /\ \A d, f \in j.doc : d[1] = f[1] \/ Below(d[1], f[1]) => d = f
  /\ (j.count # 1) => \A e \in j.vals, d \in j.doc : ~Under(Strip(d[1]), Path(j, e[1]))
  /\ \A n \in Names, t \in Texts :
        Covered(j.query, n) /\ j.seen[n] = {t} =>
           \/ <<n, t>> \in j.vals
           \/ n \notin Refused /\ \E d \in j.doc : Spot(j, n, d[1]) /\ d[2] = Json[t]

SameRequest(j, k) == k.query = j.query /\ k.full = j.full /\ k.count = j.count /\ k.seen = j.seen

LEMMA SamePaths ==
  ASSUME NEW j, NEW k, SameRequest(j, k)
  PROVE  /\ \A n : Path(k, n) = Path(j, n)
         /\ \A n, p : Spot(k, n, p) <=> Spot(j, n, p)
         /\ \A n, t : Seen(k, n, t) <=> Seen(j, n, t)
         /\ \A d : HasLeaf(k, d) <=> HasLeaf(j, d)
<1>1. \A n : Path(k, n) = Path(j, n)
  BY DEF SameRequest, Path
<1>2. \A n, p : Spot(k, n, p) <=> Spot(j, n, p)
  BY <1>1, Zenon DEF Spot
<1>3. \A n, t : Seen(k, n, t) <=> Seen(j, n, t)
  BY DEF SameRequest, Seen
<1>4. k.query = j.query /\ k.count = j.count
  BY DEF SameRequest
<1>5. \A d : HasLeaf(k, d) <=> HasLeaf(j, d)
  BY <1>2, <1>3, <1>4, Zenon DEF HasLeaf
<1> QED BY <1>1, <1>2, <1>3, <1>5

LEMMA LeafPath ==
  ASSUME NEW j, Asked(j), NEW d, HasLeaf(j, d)
  PROVE  /\ d = <<d[1], d[2]>> /\ d[1] \in Paths
         /\ d[2] \in Scalars
         /\ j.count # 1 => d[1] # <<>> /\ \A i \in 1..(Len(d[1]) - 1) : d[1][i] # Own
<1>1. CASE \E n, t : Seen(j, n, t) /\ Spot(j, n, d[1]) /\ d = <<d[1], Json[t]>>
  <2>1. PICK n, t : Seen(j, n, t) /\ Spot(j, n, d[1]) /\ d = <<d[1], Json[t]>>
    BY <1>1
  <2>2. n \in Names \ Refused /\ Covered(j.query, n) /\ t \in Texts
    BY <2>1 DEF Seen
  <2>3. d[1] \in Paths /\ d[1] # <<>> /\ \A i \in 1..(Len(d[1]) - 1) : d[1][i] # Own
    BY <2>1, <2>2, SpotIsRead
  <2>4. d[2] = Json[t]
    BY <2>1
  <2>5. Json[t] \in Scalars
    BY <2>2 DEF Scalars
  <2> QED BY <2>1, <2>3, <2>4, <2>5
<1>2. CASE d = <<j.query.base, Json[Empty]>> /\ j.count = 1
  <2>1. j.query.base \in Paths
    BY NamesArePaths DEF Asked
  <2>2. Json[Empty] \in Scalars
    BY DEF Scalars
  <2> QED BY <1>2, <2>1, <2>2
<1> QED BY <1>1, <1>2 DEF HasLeaf

(* insertNested when no scalar is in the way. *)
PlaceIn(doc, path) == IF \E d \in doc : Below(path, d[1]) THEN Append(path, Own) ELSE path

LEMMA InsertIs ==
  ASSUME NEW doc, NEW path, path # <<>>, NEW v,
         \A d \in doc : d = <<d[1], d[2]>> /\ ~Below(d[1], path) /\ d[1] # PlaceIn(doc, path)
  PROVE  InsertNested(doc, path, v) = doc \cup {<<PlaceIn(doc, path), v>>}
<1> DEFINE opened == {<<IF Below(e[1], path) THEN Append(e[1], Own) ELSE e[1], e[2]>> : e \in doc}
           place == IF \E e \in opened : Below(path, e[1]) THEN Append(path, Own) ELSE path
<1>1. opened = doc
  OBVIOUS
<1>2. place = PlaceIn(doc, path)
  BY <1>1, Zenon DEF PlaceIn
<1>3. InsertNested(doc, path, v) = {e \in opened : e[1] # place} \cup {<<place, v>>}
  BY Zenon DEF InsertNested
<1> HIDE DEF opened, place
<1>4. {e \in doc : e[1] # PlaceIn(doc, path)} = doc
  OBVIOUS
<1> QED BY <1>1, <1>2, <1>3, <1>4

LEMMA StripUnder ==
  ASSUME NEW p \in Paths, p # <<>>, NEW q \in Paths, Under(p, q)
  PROVE  Under(Strip(p), q)
<1>1. Len(p) \in Nat /\ Len(q) \in Nat /\ Len(p) > 0
  BY PathLen
<1>2. Len(p) <= Len(q) /\ \A i \in 1..Len(p) : p[i] = q[i]
  BY UnderIs
<1>3. Strip(p) \in Paths
  BY StripIs
<1>4. CASE p[Len(p)] # Own
  BY <1>4, StripIs
<1>5. CASE p[Len(p)] = Own
  <2>1. Len(Strip(p)) = Len(p) - 1 /\ \A i \in 1..(Len(p) - 1) : Strip(p)[i] = p[i]
    BY <1>5, StripIs
  <2>2. \A i \in 1..(Len(p) - 1) : i \in 1..Len(p)
    BY <1>1
  <2>3. Len(Strip(p)) <= Len(q)
    BY <1>1, <1>2, <2>1
  <2>4. \A i \in 1..Len(Strip(p)) : Strip(p)[i] = q[i]
    BY <1>2, <2>1, <2>2
  <2> QED BY <1>3, <2>3, <2>4, UnderIs
<1> QED BY <1>4, <1>5

LEMMA UnderWithOwn ==
  ASSUME NEW p \in Paths, NEW q \in Paths, Below(p, Append(q, Own))
  PROVE  Under(p, q)
<1> DEFINE a == Append(q, Own)
<1>1. a \in Paths /\ Len(a) = Len(q) + 1 /\ \A i \in 1..Len(q) : a[i] = q[i]
  BY WithOwn
<1>2. Len(p) < Len(a) /\ \A i \in 1..Len(p) : p[i] = a[i]
  BY <1>1, UnderIs
<1>3. Len(p) \in Nat /\ Len(q) \in Nat
  BY PathLen
<1> HIDE DEF a
<1>4. Len(p) <= Len(q) /\ \A i \in 1..Len(p) : i \in 1..Len(q)
  BY <1>1, <1>2, <1>3
<1>5. \A i \in 1..Len(p) : p[i] = q[i]
  BY <1>1, <1>2, <1>4
<1> QED BY <1>4, <1>5, UnderIs

(* A single variable. *)
LEMMA InsertsSingle ==
  ASSUME NEW j, NEW k, Asked(j), SameRequest(j, k), j.pc # "read", k.pc # "read",
         ValsOK(j), DocOK(j), j.count = 1, NEW e \in j.vals,
         k.vals = j.vals \ {e}, k.doc = InsertNested(j.doc, Path(j, e[1]), Json[e[2]])
  PROVE  ValsOK(k) /\ DocOK(k)
<1> DEFINE path == Path(j, e[1])
<1>1. j.vals = {e} /\ j.doc = {}
  BY DEF DocOK
<1>2. k.vals = {}
  BY <1>1
<1>3. ValsOK(k)
  BY <1>2, FS_EmptySet DEF ValsOK
<1>4. \A d \in k.doc : d = <<path, Json[e[2]]>>
  <2>1. CASE path = <<>>
    <3>1. k.doc = {}
      BY <1>1, <2>1, Zenon DEF InsertNested
    <3> QED BY <3>1
  <2>2. CASE path # <<>>
    <3>1. PlaceIn({}, path) = path
      BY DEF PlaceIn
    <3>2. k.doc = {} \cup {<<path, Json[e[2]]>>}
      BY <1>1, <2>2, <3>1, InsertIs
    <3> QED BY <3>2
  <2> QED BY <2>1, <2>2
<1>5. path # <<>> => <<path, Json[e[2]]>> \in k.doc
  <2> SUFFICES ASSUME path # <<>> PROVE <<path, Json[e[2]]>> \in k.doc
    OBVIOUS
  <2>1. PlaceIn({}, path) = path
    BY DEF PlaceIn
  <2>2. k.doc = {} \cup {<<path, Json[e[2]]>>}
    BY <1>1, <2>1, InsertIs
  <2> QED BY <2>2
<1>6. HasEntry(j, e)
  BY DEF ValsOK
<1>7. \A n, t : e = <<n, t>> => e[1] = n /\ e[2] = t
  OBVIOUS
<1>8. HasLeaf(j, <<path, Json[e[2]]>>)
  <2> DEFINE d == <<path, Json[e[2]]>>
  <2>1. d[1] = path /\ d[2] = Json[e[2]]
    OBVIOUS
  <2>2. CASE \E n, t : Seen(j, n, t) /\ e = <<n, t>>
    <3>1. PICK n, t : Seen(j, n, t) /\ e = <<n, t>>
      BY <2>2
    <3>2. path = Path(j, n) /\ e[2] = t
      BY <1>7, <3>1
    <3>3. Spot(j, n, d[1]) /\ d = <<d[1], Json[t]>>
      BY <2>1, <3>2 DEF Spot
    <3> QED BY <3>1, <3>3 DEF HasLeaf
  <2>3. CASE e = <<j.query.base, Empty>>
    <3>1. path = j.query.base
      BY <1>7, <2>3 DEF Path
    <3>2. d = <<j.query.base, Json[Empty]>>
      BY <1>7, <2>3, <3>1
    <3> QED BY <3>2 DEF HasLeaf
  <2> QED BY <1>6, <2>2, <2>3 DEF HasEntry
<1>9. \A d \in k.doc : HasLeaf(k, d)
  BY <1>4, <1>8, SamePaths
<1>10. \A d, f \in k.doc : d = f
  BY <1>4
<1>11. ASSUME NEW n \in Names, NEW t \in Texts, Covered(k.query, n), k.seen[n] = {t}
       PROVE  n \notin Refused /\ \E d \in k.doc : Spot(k, n, d[1]) /\ d[2] = Json[t]
  <2>1. Covered(j.query, n) /\ j.seen[n] = {t}
    BY <1>11 DEF SameRequest
  <2>2. <<n, t>> \in j.vals
    BY <1>1, <2>1 DEF DocOK
  <2>3. e = <<n, t>>
    BY <1>1, <2>2
  <2>4. n \notin Refused
    <3>1. t # Empty
      BY HttpAssumption
    <3>2. PICK m, u : Seen(j, m, u) /\ e = <<m, u>>
      BY <1>6, <1>7, <2>3, <3>1 DEF HasEntry
    <3>3. m = n
      BY <1>7, <2>3, <3>2
    <3> QED BY <3>2, <3>3 DEF Seen
  <2>5. path = Path(j, n) /\ path # <<>> /\ e[2] = t
    BY <1>7, <2>1, <2>3, PathIs
  <2> DEFINE d == <<path, Json[e[2]]>>
  <2>6. d \in k.doc /\ d[1] = Path(j, n) /\ d[2] = Json[t]
    BY <1>5, <2>5
  <2>7. Spot(k, n, d[1])
    BY <2>6, SamePaths DEF Spot
  <2> QED BY <2>4, <2>6, <2>7
<1>12. DocOK(k)
  <2>1. k.count = 1
    BY DEF SameRequest
  <2> QED BY <1>2, <1>9, <1>10, <1>11, <2>1 DEF DocOK
<1> QED BY <1>3, <1>12

(* One of several: what the choice of ChildsFirst gives. *)
LEMMA InsertsOne ==
  ASSUME NEW j, NEW k, Asked(j), SameRequest(j, k), j.pc # "read", k.pc # "read",
         ValsOK(j), DocOK(j), j.count # 1, NEW e \in j.vals,
         \A f \in j.vals : ~Below(e[1], f[1]),
         k.vals = j.vals \ {e}, k.doc = InsertNested(j.doc, Path(j, e[1]), Json[e[2]])
  PROVE  ValsOK(k) /\ DocOK(k)
<1>0. \A x, y : <<x, y>>[1] = x /\ <<x, y>>[2] = y
  OBVIOUS
<1>1. ASSUME NEW f \in j.vals PROVE \E n, t : Seen(j, n, t) /\ f = <<n, t>>
  BY DEF ValsOK, HasEntry
<1>2. PICK m, u : Seen(j, m, u) /\ e = <<m, u>>
  BY <1>1
<1>3. m \in Names \ Refused /\ Covered(j.query, m) /\ e[1] = m /\ e[2] = u
  BY <1>0, <1>2 DEF Seen
<1> DEFINE path == Path(j, m)
           doc == j.doc
           place == PlaceIn(doc, path)
           leaf == <<place, Json[u]>>
<1>4. path \in Paths /\ path # <<>>
  BY <1>3, PathIs
<1>5. ASSUME NEW d \in doc
      PROVE  /\ d = <<d[1], d[2]>> /\ d[1] \in Paths /\ d[1] # <<>> /\ HasLeaf(j, d)
             /\ \A i \in 1..(Len(d[1]) - 1) : d[1][i] # Own
             /\ ~Under(Strip(d[1]), path) /\ ~Under(d[1], path) /\ ~Below(d[1], path)
  <2>1. HasLeaf(j, d) /\ ~Under(Strip(d[1]), path)
    BY <1>3 DEF DocOK
  <2>2. d = <<d[1], d[2]>> /\ d[1] \in Paths /\ d[1] # <<>> /\ \A i \in 1..(Len(d[1]) - 1) : d[1][i] # Own
    BY <2>1, LeafPath
  <2>3. ~Under(d[1], path)
    BY <1>4, <2>1, <2>2, StripUnder
  <2>4. ~Below(d[1], path)
    BY <2>3 DEF Below, Under, IsStrictPrefix
  <2> QED BY <2>1, <2>2, <2>3, <2>4
<1>6. Append(path, Own) \in Paths /\ Append(path, Own) # <<>>
  BY <1>4, WithOwn
<1>7. place = path \/ (place = Append(path, Own) /\ \E d \in doc : Below(path, d[1]))
  BY DEF PlaceIn
<1>8. (\E d \in doc : Below(path, d[1])) => path # <<Own>>
  <2> SUFFICES ASSUME NEW d \in doc, Below(path, d[1]), path = <<Own>> PROVE FALSE
    OBVIOUS
  <2>1. d[1] \in Paths /\ \A i \in 1..(Len(d[1]) - 1) : d[1][i] # Own
    BY <1>5
  <2>2. Len(path) = 1 /\ path[1] = Own
    OBVIOUS
  <2>3. Len(path) < Len(d[1]) /\ \A i \in 1..Len(path) : path[i] = d[1][i]
    <3> HIDE DEF path
    <3> QED BY <1>4, <2>1, UnderIs
  <2>4. Len(d[1]) \in Nat
    BY <2>1, PathLen
  <2> HIDE DEF path
  <2>5. 1 < Len(d[1]) /\ d[1][1] = Own
    BY <2>2, <2>3
  <2> QED BY <2>1, <2>4, <2>5
<1> HIDE DEF path, place
<1>9. Spot(j, m, place)
  BY <1>7, <1>8 DEF Spot, path
<1>10. ASSUME NEW d \in doc PROVE d[1] # place
  <2>1. d[1] \in Paths /\ ~Under(Strip(d[1]), path) /\ ~Under(d[1], path)
    BY <1>5
  <2>2. Under(path, path)
    BY <1>4, UnderIs, PathLen
  <2>3. CASE place = path
    BY <2>1, <2>2, <2>3
  <2>4. CASE place = Append(path, Own)
    <3>1. Strip(place) = path
      BY <1>4, <2>4, StripWithOwn
    <3> QED BY <2>1, <2>2, <3>1
  <2> QED BY <1>7, <2>3, <2>4
<1>11. k.doc = doc \cup {leaf}
  <2>1. k.doc = InsertNested(doc, path, Json[u])
    BY <1>3 DEF path
  <2>2. \A d \in doc : d = <<d[1], d[2]>> /\ ~Below(d[1], path) /\ d[1] # PlaceIn(doc, path)
    BY <1>5, <1>10 DEF place
  <2> HIDE DEF doc
  <2>3. InsertNested(doc, path, Json[u]) = doc \cup {<<PlaceIn(doc, path), Json[u]>>}
    BY <1>4, <2>2, InsertIs
  <2> QED BY <2>1, <2>3 DEF place
<1>12. leaf[1] = place /\ leaf[2] = Json[u] /\ leaf = <<leaf[1], Json[u]>>
  BY <1>0
<1> HIDE DEF leaf
<1>13. HasLeaf(j, leaf)
  BY <1>2, <1>9, <1>12 DEF HasLeaf
<1>14. place \in Paths /\ place # <<>>
  BY <1>4, <1>6, <1>7
<1>15. ASSUME NEW d \in doc PROVE ~Below(d[1], place) /\ ~Below(place, d[1])
  <2>1. d[1] \in Paths /\ ~Under(d[1], path) /\ ~Below(d[1], path) /\ \A i \in 1..(Len(d[1]) - 1) : d[1][i] # Own
    BY <1>5
  <2>2. CASE place = path
    <3>1. \A f \in doc : ~Below(path, f[1])
      <4>1. path # Append(path, Own)
        <5>1. Len(Append(path, Own)) = Len(path) + 1 /\ Len(path) \in Nat
          BY <1>4, WithOwn, PathLen
        <5> QED BY <5>1
      <4> QED BY <2>2, <4>1 DEF place, PlaceIn
    <3> QED BY <2>1, <2>2, <3>1
  <2>3. CASE place = Append(path, Own)
    <3>1. ~Below(d[1], place)
      BY <1>4, <2>1, <2>3, UnderWithOwn
    <3>2. ASSUME Below(place, d[1]) PROVE FALSE
      <4>1. Len(place) < Len(d[1]) /\ \A i \in 1..Len(place) : place[i] = d[1][i]
        BY <1>14, <2>1, <3>2, UnderIs
      <4>2. Len(place) = Len(path) + 1 /\ place[Len(path) + 1] = Own
        BY <1>4, <2>3, WithOwn
      <4>3. Len(path) \in Nat /\ Len(d[1]) \in Nat
        BY <1>4, <2>1, PathLen
      <4>4. Len(path) + 1 \in 1..Len(place) /\ Len(path) + 1 \in 1..(Len(d[1]) - 1)
        BY <4>1, <4>2, <4>3
      <4> QED BY <2>1, <4>1, <4>2, <4>4
    <3> QED BY <3>1, <3>2
  <2> QED BY <1>7, <2>2, <2>3
<1>16. \A d, f \in k.doc : d[1] = f[1] \/ Below(d[1], f[1]) => d = f
  <2>1. ~Below(place, place)
    BY DEF Below, IsStrictPrefix
  <2>2. \A d, f \in doc : d[1] = f[1] \/ Below(d[1], f[1]) => d = f
    BY DEF DocOK
  <2> HIDE DEF doc
  <2> QED BY <1>10, <1>11, <1>12, <1>15, <2>1, <2>2
<1>17. ASSUME NEW f \in k.vals PROVE ~Under(Strip(place), Path(j, f[1]))
  <2>1. f \in j.vals /\ f # e
    BY <1>17
  <2>2. PICK n, t : Seen(j, n, t) /\ f = <<n, t>>
    BY <1>1, <2>1
  <2>3. n \in Names \ Refused /\ Covered(j.query, n) /\ f[1] = n
    BY <1>0, <2>2 DEF Seen
  <2>4. n # m /\ ~Below(m, n)
    <3>1. f[1] # e[1]
      BY <2>1 DEF ValsOK
    <3>2. ~Below(e[1], f[1])
      BY <2>1
    <3> QED BY <1>3, <2>3, <3>1, <3>2
  <2>5. ~Under(m, n)
    BY <2>4 DEF Under, Below, IsStrictPrefix
  <2>6. CASE path = <<Own>>
    <3>1. m = j.query.base
      <4>1. Len(<<Own>>) = 1 /\ <<Own>>[1] = Own
        OBVIOUS
      <4>2. ~(\A i \in 1..Len(path) : path[i] # Own)
        BY <2>6, <4>1
      <4> QED BY <1>3, <4>2, PathClean DEF path
    <3>2. Below(m, n)
      BY <2>3, <2>4, <3>1 DEF Covered
    <3> QED BY <2>4, <3>2
  <2>7. CASE path # <<Own>>
    <3>1. Strip(place) = path
      BY <1>3, <1>9, <2>7, SpotIsRead DEF path
    <3>2. j.full \/ m # j.query.base
      BY <2>7 DEF path, Path, Asked
    <3>3. ~Under(path, Path(j, n))
      BY <1>3, <2>3, <2>5, <3>2, PathOrder DEF path
    <3> QED BY <2>3, <3>1, <3>3
  <2> QED BY <2>6, <2>7
<1>18. \A f \in k.vals, d \in k.doc : ~Under(Strip(d[1]), Path(k, f[1]))
  <2> SUFFICES ASSUME NEW f \in k.vals, NEW d \in k.doc PROVE ~Under(Strip(d[1]), Path(k, f[1]))
    OBVIOUS
  <2>1. Path(k, f[1]) = Path(j, f[1]) /\ f \in j.vals
    BY SamePaths
  <2>2. CASE d \in doc
    <3>1. ~Under(Strip(d[1]), Path(j, f[1]))
      BY <2>1, <2>2 DEF DocOK
    <3> QED BY <2>1, <3>1
  <2>3. CASE d = leaf
    <3>1. ~Under(Strip(place), Path(j, f[1]))
      BY <1>17
    <3> QED BY <1>12, <2>1, <2>3, <3>1
  <2> HIDE DEF doc
  <2> QED BY <1>11, <2>2, <2>3
<1>19. ASSUME NEW n \in Names, NEW t \in Texts, Covered(k.query, n), k.seen[n] = {t}
       PROVE  \/ <<n, t>> \in k.vals
              \/ n \notin Refused /\ \E d \in k.doc : Spot(k, n, d[1]) /\ d[2] = Json[t]
  <2>1. Covered(j.query, n) /\ j.seen[n] = {t}
    BY <1>19 DEF SameRequest
  <2>2. CASE <<n, t>> = e
    <3>1. n = m /\ t = u
      BY <1>0, <1>2, <2>2
    <3>2. leaf \in k.doc /\ Spot(k, n, leaf[1]) /\ leaf[2] = Json[t]
      BY <1>9, <1>11, <1>12, <3>1, SamePaths
    <3> QED BY <1>3, <3>1, <3>2
  <2>3. CASE <<n, t>> \in j.vals /\ <<n, t>> # e
    BY <2>3
  <2>4. CASE n \notin Refused /\ \E d \in doc : Spot(j, n, d[1]) /\ d[2] = Json[t]
    BY <1>11, <2>4, SamePaths
  <2> QED BY <2>1, <2>2, <2>3, <2>4 DEF DocOK
<1>20. ValsOK(k)
  <2>1. IsFiniteSet(k.vals)
    BY FS_Subset DEF ValsOK
  <2>2. ASSUME NEW f \in k.vals PROVE HasEntry(k, f)
    <3>1. PICK n, t : Seen(j, n, t) /\ f = <<n, t>>
      BY <1>1
    <3>2. Seen(k, n, t)
      BY <3>1, SamePaths
    <3> QED BY <3>1, <3>2 DEF HasEntry
  <2>3. \A f, g \in k.vals : f[1] = g[1] => f = g
    BY DEF ValsOK
  <2> QED BY <2>1, <2>2, <2>3 DEF ValsOK
<1>21. \A d \in k.doc : HasLeaf(k, d)
  <2>1. \A d \in doc : HasLeaf(j, d)
    BY DEF DocOK
  <2>2. \A d : HasLeaf(k, d) <=> HasLeaf(j, d)
    BY SamePaths
  <2> HIDE DEF doc
  <2> QED BY <1>11, <1>13, <2>1, <2>2
<1>22. DocOK(k)
  <2>1. k.count # 1
    BY DEF SameRequest
  <2> QED BY <1>16, <1>18, <1>19, <1>21, <2>1 DEF DocOK
<1> QED BY <1>20, <1>22

(***************************************************************************)
(* HttpTree: the requests                                                  *)
(***************************************************************************)

GetFields == {"pc", "kind", "answer", "query", "full", "todo", "vals", "count", "doc", "arrays", "seen"}
PostFields == {"pc", "kind", "answer", "todo", "name"}

(* While GetVars reads: what had one value all the time is read, or yet to be. *)
ReadOK(j) ==
  /\ j.doc = {}
  /\ \A n \in j.todo : Covered(j.query, n)
  /\ \A e \in j.vals : e[1] \notin j.todo
  /\ \A n \in Names, t \in Texts :
        Covered(j.query, n) /\ j.seen[n] = {t} => n \in j.todo \/ <<n, t>> \in j.vals

ScalarOK(j) ==
  /\ j.count = 1
  /\ \E t : /\ j.doc = {<<j.query.base, Inferred(t)>>}
            /\ HasEntry(j, <<j.query.base, t>>)
            /\ \A n \in Names, u \in Texts :
                  Covered(j.query, n) /\ j.seen[n] = {u} => n = j.query.base /\ u = t

(* The elements of an array are those of the keys of the object. *)
ArraysOK(j) ==
  \A p \in j.arrays : {Index[k] : k \in KeysAt(j.doc, p)} = 0..(Cardinality(KeysAt(j.doc, p)) - 1)

GetOK(j) ==
  /\ DOMAIN j = GetFields /\ j.kind = "get" /\ Asked(j)
  /\ j.pc \in {"read", "insert", "answered"} /\ j.answer \in {"none", "json", "scalar"}
  /\ (j.pc = "answered") <=> (j.answer # "none")
  /\ j.todo \subseteq Names
  /\ j.seen \in [Names -> SUBSET (Texts \cup {Empty})] /\ \A n \in Names : j.seen[n] # {}
  /\ ValsOK(j)
  /\ (j.pc = "read") => ReadOK(j)
  /\ (j.pc # "read" /\ j.answer # "scalar") => DocOK(j)
  /\ (j.answer = "json") => j.vals = {}
  /\ (j.answer = "scalar") => ScalarOK(j)
  /\ (j.answer # "json") => j.arrays = {}
  /\ ArraysOK(j)

IsIdle(j) == /\ DOMAIN j = {"pc", "kind", "answer", "name"} /\ j.pc = "answered" /\ j.kind = "none"
             /\ j.answer \in {"none", "204", "403"}

IsPost(j) == /\ DOMAIN j = PostFields /\ j.kind = "post" /\ j.pc \in {"set", "answered"}
             /\ j.answer \in {"none", "204", "aborted"}
             /\ (j.pc = "set") <=> (j.answer = "none")
             /\ j.todo \subseteq Names \X (Texts \cup {Empty, Null})

Values == /\ value \in [Names -> Texts \cup {Empty}]
          /\ \A n \in Unstored : value[n] = Empty

ReaderOK(g) ==
  \/ job[g] = NoJob
  \/ /\ GetOK(job[g])
     /\ (job[g].pc # "answered") => \A n \in Names : value[n] \in job[g].seen[n]

HttpInv ==
  /\ Values
  /\ DOMAIN job = Requests
  /\ \A w \in Writers : IsIdle(job[w]) \/ IsPost(job[w])
  /\ \A g \in Readers : ReaderOK(g)

LEMMA NoJobIs ==
  /\ NoJob.pc = "answered" /\ NoJob.kind = "none" /\ NoJob.answer = "none"
  /\ IsIdle(NoJob) /\ \A a \in {"204", "403"} : IsIdle([NoJob EXCEPT !.answer = a])
  /\ \A a \in {"204", "403"} : \A n : IsIdle([NoJob EXCEPT !.answer = a, !.name = n])
  BY DEF NoJob, IsIdle

(* A value that a variable gets while a GET is served. *)
LEMMA SeenGrows ==
  ASSUME NEW j, GetOK(j), j.pc # "answered", NEW m \in Names, NEW v \in Texts \cup {Empty}
  PROVE  /\ GetOK([j EXCEPT !.seen[m] = @ \cup {v}])
         /\ [j EXCEPT !.seen[m] = @ \cup {v}].pc = j.pc
         /\ v \in [j EXCEPT !.seen[m] = @ \cup {v}].seen[m]
         /\ \A n \in Names : j.seen[n] \subseteq [j EXCEPT !.seen[m] = @ \cup {v}].seen[n]
<1> DEFINE k == [j EXCEPT !.seen[m] = @ \cup {v}]
<1>1. DOMAIN j = GetFields /\ j.seen \in [Names -> SUBSET (Texts \cup {Empty})] /\ \A n \in Names : j.seen[n] # {}
  BY DEF GetOK
<1>2. k = [j EXCEPT !.seen = [j.seen EXCEPT ![m] = j.seen[m] \cup {v}]]
  OBVIOUS
<1> HIDE DEF k
<1>3. /\ DOMAIN k = GetFields /\ k.kind = j.kind /\ k.query = j.query /\ k.full = j.full /\ k.pc = j.pc
      /\ k.answer = j.answer /\ k.todo = j.todo /\ k.vals = j.vals /\ k.count = j.count /\ k.doc = j.doc
      /\ k.arrays = j.arrays /\ k.seen = [j.seen EXCEPT ![m] = j.seen[m] \cup {v}]
  BY <1>1, <1>2 DEF GetFields
<1>4. /\ k.seen \in [Names -> SUBSET (Texts \cup {Empty})]
      /\ \A n \in Names : j.seen[n] \subseteq k.seen[n]
      /\ v \in k.seen[m]
  BY <1>1, <1>3
<1>5. \A t : \A n \in Names : k.seen[n] = {t} => j.seen[n] = {t}
  BY <1>1, <1>4
<1>6. \A n : Path(k, n) = Path(j, n)
  BY <1>3 DEF Path
<1>7. \A n, p : Spot(k, n, p) <=> Spot(j, n, p)
  BY <1>6, Zenon DEF Spot
<1>8. \A n, t : Seen(j, n, t) => Seen(k, n, t)
  BY <1>3, <1>4 DEF Seen
<1>9. \A e : HasEntry(j, e) => HasEntry(k, e)
  BY <1>3, <1>8, Zenon DEF HasEntry
<1>10. \A d : HasLeaf(j, d) => HasLeaf(k, d)
  BY <1>3, <1>7, <1>8, Zenon DEF HasLeaf
<1>11. ValsOK(k)
  BY <1>3, <1>9 DEF GetOK, ValsOK
<1>12. ReadOK(j) => ReadOK(k)
  BY <1>3, <1>5 DEF ReadOK
<1>13. DocOK(j) => DocOK(k)
  <2> SUFFICES ASSUME DocOK(j) PROVE DocOK(k)
    OBVIOUS
  <2>1. \A d \in k.doc : HasLeaf(k, d)
    BY <1>3, <1>10 DEF DocOK
  <2>2. (k.count # 1) => \A e \in k.vals, d \in k.doc : ~Under(Strip(d[1]), Path(k, e[1]))
    BY <1>3, <1>6 DEF DocOK
  <2>3. ASSUME NEW n \in Names, NEW t \in Texts, Covered(k.query, n), k.seen[n] = {t}
        PROVE  \/ <<n, t>> \in k.vals
               \/ n \notin Refused /\ \E d \in k.doc : Spot(k, n, d[1]) /\ d[2] = Json[t]
    <3>1. Covered(j.query, n) /\ j.seen[n] = {t}
      BY <1>3, <1>5, <2>3
    <3> QED BY <1>3, <1>7, <3>1 DEF DocOK
  <2> QED BY <1>3, <2>1, <2>2, <2>3 DEF DocOK
<1>14. GetOK(k)
  <2>1. j.answer = "none"
    BY DEF GetOK
  <2>2. Asked(k)
    BY <1>3 DEF GetOK, Asked
  <2>3. \A n \in Names : k.seen[n] # {}
    BY <1>1, <1>4
  <2>4. (k.pc = "read") => ReadOK(k)
    BY <1>3, <1>12 DEF GetOK
  <2>5. (k.pc # "read" /\ k.answer # "scalar") => DocOK(k)
    BY <1>3, <1>13 DEF GetOK
  <2>6. /\ k.kind = "get" /\ k.pc \in {"read", "insert", "answered"} /\ k.answer = "none" /\ k.pc # "answered"
        /\ k.todo \subseteq Names
    BY <1>3, <2>1 DEF GetOK
  <2>7. k.arrays = {} /\ ArraysOK(k)
    BY <1>3, <2>1 DEF GetOK, ArraysOK
  <2> QED BY <1>3, <1>4, <1>11, <2>2, <2>3, <2>4, <2>5, <2>6, <2>7 DEF GetOK
<1> QED BY <1>3, <1>4, <1>14 DEF k

(* A writer goes on without a write, and with one. *)
LEMMA WriterMoves ==
  ASSUME HttpInv, NEW r \in Writers, UNCHANGED value, DOMAIN job' = Requests,
         \A s \in Requests \ {r} : job'[s] = job[s],
         IsIdle(job'[r]) \/ IsPost(job'[r])
  PROVE  HttpInv'
<1>1. \A g \in Readers : g \in Requests \ {r}
  BY HttpAssumption DEF Requests
<1>2. \A g \in Readers : ReaderOK(g)'
  <2> SUFFICES ASSUME NEW g \in Readers PROVE ReaderOK(g)'
    OBVIOUS
  <2>1. job'[g] = job[g] /\ ReaderOK(g)
    BY <1>1 DEF HttpInv
  <2> QED BY <2>1 DEF ReaderOK
<1>3. \A w \in Writers : IsIdle(job'[w]) \/ IsPost(job'[w])
  <2> SUFFICES ASSUME NEW w \in Writers PROVE IsIdle(job'[w]) \/ IsPost(job'[w])
    OBVIOUS
  <2>1. CASE w = r
    BY <2>1
  <2>2. CASE w # r
    <3>1. job'[w] = job[w]
      BY <2>2 DEF Requests
    <3> QED BY <3>1 DEF HttpInv
  <2> QED BY <2>1, <2>2
<1>4. Values'
  BY DEF HttpInv, Values
<1> QED BY <1>2, <1>3, <1>4 DEF HttpInv

LEMMA WriterWrites ==
  ASSUME HttpInv, NEW r \in Writers, NEW n \in Names, NEW u \in Texts \cup {Empty}, NEW j,
         n \in Refused => u = Empty, SetVar(r, n, u, j), IsIdle(j) \/ IsPost(j)
  PROVE  HttpInv'
<1> DEFINE t == IF n \in Starred THEN value[n] ELSE u
<1>1. value' = [value EXCEPT ![n] = t] /\ job' = [Noted(n, t) EXCEPT ![r] = j]
  BY DEF SetVar
<1>2. value \in [Names -> Texts \cup {Empty}] /\ \A m \in Unstored : value[m] = Empty
  BY DEF HttpInv, Values
<1>20. t \in Texts \cup {Empty} /\ (n \in Unstored => t = Empty)
  BY <1>2 DEF Unstored
<1> HIDE DEF t
<1>3. /\ value' \in [Names -> Texts \cup {Empty}] /\ value'[n] = t
      /\ \A m \in Names \ {n} : value'[m] = value[m]
  BY <1>1, <1>2, <1>20
<1>4. Values'
  BY <1>2, <1>3, <1>20, HttpAssumption DEF Values, Unstored
<1>5. DOMAIN Noted(n, t) = Requests /\ r \in Requests
  BY DEF Noted, Requests
<1>6. DOMAIN job' = Requests /\ job'[r] = j /\ \A s \in Requests \ {r} : job'[s] = Noted(n, t)[s]
  BY <1>1, <1>5
<1>7. \A s \in Requests : Noted(n, t)[s] = IF s \in Gets /\ ~Stage(s, "answered")
                                           THEN [job[s] EXCEPT !.seen[n] = @ \cup {t}] ELSE job[s]
  BY DEF Noted
<1>8. ASSUME NEW w \in Writers PROVE IsIdle(job'[w]) \/ IsPost(job'[w])
  <2>1. IsIdle(job[w]) \/ IsPost(job[w])
    BY DEF HttpInv
  <2>2. w \in Requests /\ w \notin Gets
    BY <2>1 DEF Requests, Gets, IsIdle, IsPost
  <2>3. CASE w = r
    BY <1>6, <2>3
  <2>4. CASE w # r
    BY <1>6, <1>7, <2>1, <2>2, <2>4
  <2> QED BY <2>3, <2>4
<1>9. ASSUME NEW g \in Readers PROVE ReaderOK(g)'
  <2>1. ReaderOK(g) /\ g \in Requests \ {r}
    BY HttpAssumption DEF HttpInv, Requests
  <2>2. job'[g] = IF g \in Gets /\ ~Stage(g, "answered") THEN [job[g] EXCEPT !.seen[n] = @ \cup {t}] ELSE job[g]
    BY <1>6, <1>7, <2>1
  <2>3. CASE job[g] = NoJob
    <3>1. g \notin Gets
      BY <2>3, NoJobIs DEF Gets
    <3> QED BY <2>2, <2>3, <3>1 DEF ReaderOK
  <2>4. CASE GetOK(job[g]) /\ job[g].pc = "answered"
    <3>1. job'[g] = job[g]
      BY <2>2, <2>4 DEF Stage
    <3> QED BY <2>4, <3>1 DEF ReaderOK
  <2>5. CASE GetOK(job[g]) /\ job[g].pc # "answered" /\ \A m \in Names : value[m] \in job[g].seen[m]
    <3> DEFINE k == [job[g] EXCEPT !.seen[n] = @ \cup {t}]
    <3>1. g \in Gets /\ ~Stage(g, "answered")
      BY <2>1, <2>5 DEF Gets, Stage, GetOK
    <3>2. job'[g] = k
      BY <2>2, <3>1
    <3>3. GetOK(k) /\ t \in k.seen[n] /\ \A m \in Names : job[g].seen[m] \subseteq k.seen[m]
      BY <1>20, <2>5, SeenGrows
    <3> HIDE DEF k
    <3>4. \A m \in Names : value'[m] \in k.seen[m]
      BY <1>3, <2>5, <3>3
    <3> QED BY <3>2, <3>3, <3>4 DEF ReaderOK
  <2> QED BY <2>1, <2>3, <2>4, <2>5 DEF ReaderOK
<1> QED BY <1>4, <1>6, <1>8, <1>9 DEF HttpInv

LEMMA PostStage ==
  ASSUME HttpInv, NEW r \in Requests, Stage(r, "set")
  PROVE  r \in Writers /\ IsPost(job[r]) /\ job[r].answer = "none"
<1>1. r \notin Readers
  <2> SUFFICES ASSUME r \in Readers PROVE FALSE
    OBVIOUS
  <2>1. job[r] = NoJob \/ GetOK(job[r])
    BY DEF HttpInv, ReaderOK
  <2> QED BY <2>1, NoJobIs DEF Stage, GetOK
<1>2. r \in Writers
  BY <1>1 DEF Requests
<1>3. IsIdle(job[r]) \/ IsPost(job[r])
  BY <1>2 DEF HttpInv
<1> QED BY <1>2, <1>3 DEF Stage, IsIdle, IsPost

LEMMA PostEndsOK ==
  ASSUME NEW j, IsPost(j), NEW a \in {"204", "aborted"}
  PROVE  IsPost([j EXCEPT !.pc = "answered", !.answer = a])
<1> DEFINE k == [j EXCEPT !.pc = "answered", !.answer = a]
<1>1. DOMAIN j = PostFields
  BY DEF IsPost
<1>2. DOMAIN k = PostFields /\ k.kind = j.kind /\ k.pc = "answered" /\ k.answer = a /\ k.todo = j.todo
  BY <1>1 DEF PostFields
<1> HIDE DEF k
<1>3. IsPost(k)
  BY <1>2 DEF IsPost
<1> QED BY <1>3 DEF k

(* The steps of setJson. *)
LEMMA PostNextStep ==
  ASSUME HttpInv, NEW r \in Requests, PostNext(r)
  PROVE  HttpInv'
<1>1. r \in Writers /\ IsPost(job[r]) /\ job[r].answer = "none"
  BY PostStage DEF PostNext
<1>2. DOMAIN job = Requests
  BY DEF HttpInv
<1>3. PICK leaf \in job[r].todo : SetJson(r, leaf)
  BY DEF PostNext
<1>4. PICK n \in Names, t \in Texts \cup {Empty, Null} : leaf = <<n, t>>
  BY <1>1, <1>3 DEF IsPost
<1>5. leaf[1] = n /\ leaf[2] = t
  BY <1>4
<1>6. CASE t = Null
  <2>1. job' = [job EXCEPT ![r].pc = "answered", ![r].answer = "aborted"] /\ UNCHANGED value
    BY <1>3, <1>5, <1>6 DEF SetJson
  <2>2. /\ DOMAIN job' = Requests /\ \A s \in Requests \ {r} : job'[s] = job[s]
        /\ job'[r] = [job[r] EXCEPT !.pc = "answered", !.answer = "aborted"]
    BY <1>2, <2>1
  <2>3. IsPost(job'[r])
    BY <1>1, <2>2, PostEndsOK
  <2> QED BY <1>1, <2>1, <2>2, <2>3, WriterMoves
<1>7. ASSUME t # Null
      PROVE  \/ job' = [job EXCEPT ![r].pc = "answered", ![r].answer = "204"] /\ UNCHANGED value
             \/ n \notin Refused /\ SetVar(r, n, t, [job[r] EXCEPT !.todo = @ \ {leaf}])
  <2>1. PICK refused \in Refusals(n, t) :
           IF refused THEN job' = [job EXCEPT ![r].pc = "answered", ![r].answer = "204"] /\ UNCHANGED value
           ELSE SetVar(r, n, t, [job[r] EXCEPT !.todo = @ \ {leaf}])
    BY <1>3, <1>5, <1>7, Zenon DEF SetJson
  <2>2. refused \in BOOLEAN /\ (n \in Refused => refused = TRUE)
    BY DEF Refusals
  <2> QED BY <2>1, <2>2, Zenon
<1>8. CASE job' = [job EXCEPT ![r].pc = "answered", ![r].answer = "204"] /\ UNCHANGED value
  <2>2. /\ DOMAIN job' = Requests /\ \A s \in Requests \ {r} : job'[s] = job[s]
        /\ job'[r] = [job[r] EXCEPT !.pc = "answered", !.answer = "204"]
    BY <1>2, <1>8
  <2>3. IsPost(job'[r])
    BY <1>1, <2>2, PostEndsOK
  <2> QED BY <1>1, <1>8, <2>2, <2>3, WriterMoves
<1>9. CASE t # Null /\ n \notin Refused /\ SetVar(r, n, t, [job[r] EXCEPT !.todo = @ \ {leaf}])
  <2> DEFINE k == [job[r] EXCEPT !.todo = @ \ {leaf}]
  <2>1. SetVar(r, n, t, k)
    BY <1>9
  <2>2. IsPost(k)
    <3>1. DOMAIN job[r] = PostFields
      BY <1>1 DEF IsPost
    <3>2. /\ DOMAIN k = PostFields /\ k.kind = job[r].kind /\ k.pc = job[r].pc /\ k.answer = job[r].answer
          /\ k.todo = job[r].todo \ {leaf}
      BY <3>1 DEF PostFields
    <3> HIDE DEF k
    <3> QED BY <1>1, <3>2 DEF IsPost
  <2>3. t \in Texts \cup {Empty}
    BY <1>9
  <2> HIDE DEF k
  <2> QED BY <1>1, <1>9, <2>1, <2>2, <2>3, WriterWrites
<1> QED BY <1>6, <1>7, <1>8, <1>9, Zenon

LEMMA PostEndsStep ==
  ASSUME HttpInv, NEW r \in Requests, PostEnds(r)
  PROVE  HttpInv'
<1>1. r \in Writers /\ IsPost(job[r])
  BY PostStage DEF PostEnds
<1>2. /\ DOMAIN job = Requests /\ job[r].todo = {} /\ UNCHANGED value
      /\ job' = [job EXCEPT ![r].pc = "answered", ![r].answer = "204"]
  BY DEF HttpInv, PostEnds
<1>3. /\ DOMAIN job' = Requests /\ \A s \in Requests \ {r} : job'[s] = job[s]
      /\ job'[r] = [job[r] EXCEPT !.pc = "answered", !.answer = "204"]
  BY <1>2
<1>4. IsPost(job'[r])
  BY <1>1, <1>2, <1>3, PostEndsOK
<1> QED BY <1>1, <1>2, <1>3, <1>4, WriterMoves

(* The requests of writers. *)
LEMMA WriterAsks ==
  ASSUME HttpInv, NEW r \in Writers,
         \/ \E B \in Bodies : PostJson(r, B)
         \/ \E n \in Names, t \in Texts \cup {Empty} : PostText(r, n, t)
         \/ \E n \in Names : DeleteByName(r, n)
  PROVE  HttpInv'
<1>1. DOMAIN job = Requests /\ r \in Requests
  BY DEF HttpInv, Requests
<1>2. ASSUME NEW B \in Bodies, PostJson(r, B) PROVE HttpInv'
  <2> DEFINE k == [pc |-> "set", kind |-> "post", answer |-> "none", todo |-> B, name |-> <<>>]
  <2>1. job' = [job EXCEPT ![r] = k] /\ UNCHANGED value
    BY <1>2 DEF PostJson
  <2>2. DOMAIN job' = Requests /\ job'[r] = k /\ \A s \in Requests \ {r} : job'[s] = job[s]
    BY <1>1, <2>1
  <2>3. IsPost(k)
    <3>1. B \subseteq Names \X (Texts \cup {Empty, Null})
      BY HttpAssumption
    <3>2. DOMAIN k = PostFields /\ k.kind = "post" /\ k.pc = "set" /\ k.answer = "none" /\ k.todo = B
      BY DEF PostFields
    <3> HIDE DEF k
    <3> QED BY <3>1, <3>2 DEF IsPost
  <2> HIDE DEF k
  <2>4. IsPost(job'[r])
    BY <2>2, <2>3
  <2> QED BY <2>1, <2>2, <2>4, WriterMoves
<1>3. ASSUME NEW n \in Names, NEW t \in Texts \cup {Empty}, PostText(r, n, t) PROVE HttpInv'
  <2>0. \/ job' = [job EXCEPT ![r] = [NoJob EXCEPT !.answer = "403", !.name = n]] /\ UNCHANGED value
        \/ n \notin Refused /\ SetVar(r, n, t, [NoJob EXCEPT !.answer = "204", !.name = n])
    <3>1. PICK refused \in Refusals(n, t) :
             IF refused THEN job' = [job EXCEPT ![r] = [NoJob EXCEPT !.answer = "403", !.name = n]] /\ UNCHANGED value
             ELSE SetVar(r, n, t, [NoJob EXCEPT !.answer = "204", !.name = n])
      BY <1>3, Zenon DEF PostText
    <3>2. refused \in BOOLEAN /\ (n \in Refused => refused = TRUE)
      BY DEF Refusals
    <3> QED BY <3>1, <3>2, Zenon
  <2>1. CASE job' = [job EXCEPT ![r] = [NoJob EXCEPT !.answer = "403", !.name = n]] /\ UNCHANGED value
    <3>2. /\ DOMAIN job' = Requests /\ job'[r] = [NoJob EXCEPT !.answer = "403", !.name = n]
          /\ \A s \in Requests \ {r} : job'[s] = job[s]
      BY <1>1, <2>1
    <3>3. IsIdle(job'[r])
      BY <3>2, NoJobIs
    <3> QED BY <2>1, <3>2, <3>3, WriterMoves
  <2>2. CASE n \notin Refused /\ SetVar(r, n, t, [NoJob EXCEPT !.answer = "204", !.name = n])
    <3>2. IsIdle([NoJob EXCEPT !.answer = "204", !.name = n])
      BY NoJobIs
    <3> QED BY <2>2, <3>2, WriterWrites
  <2> QED BY <2>0, <2>1, <2>2
<1>4. ASSUME NEW n \in Names, DeleteByName(r, n) PROVE HttpInv'
  <2>1. SetVar(r, n, Empty, [NoJob EXCEPT !.answer = "204"])
    BY <1>4 DEF DeleteByName
  <2>2. IsIdle([NoJob EXCEPT !.answer = "204"])
    BY NoJobIs
  <2> QED BY <2>1, <2>2, WriterWrites
<1> QED BY <1>2, <1>3, <1>4

(* A reader goes on. *)
LEMMA ReaderMoves ==
  ASSUME HttpInv, NEW r \in Readers, UNCHANGED value, DOMAIN job' = Requests,
         \A s \in Requests \ {r} : job'[s] = job[s],
         GetOK(job'[r]),
         job'[r].pc # "answered" => \A n \in Names : value[n] \in job'[r].seen[n]
  PROVE  HttpInv'
<1>1. \A w \in Writers : w \in Requests \ {r}
  BY HttpAssumption DEF Requests
<1>2. \A w \in Writers : IsIdle(job'[w]) \/ IsPost(job'[w])
  BY <1>1 DEF HttpInv
<1>3. ASSUME NEW g \in Readers PROVE ReaderOK(g)'
  <2>1. CASE g = r
    BY <2>1 DEF ReaderOK
  <2>2. CASE g # r
    <3>1. job'[g] = job[g] /\ ReaderOK(g)
      BY <2>2 DEF HttpInv, Requests
    <3> QED BY <3>1 DEF ReaderOK
  <2> QED BY <2>1, <2>2
<1>4. Values'
  BY DEF HttpInv, Values
<1> QED BY <1>2, <1>3, <1>4 DEF HttpInv

LEMMA GetStage ==
  ASSUME HttpInv, NEW r \in Requests, NEW s \in {"read", "insert"}, Stage(r, s)
  PROVE  /\ r \in Readers /\ GetOK(job[r]) /\ job[r].pc = s /\ job[r].answer = "none"
         /\ \A n \in Names : value[n] \in job[r].seen[n]
<1>1. r \in Readers
  <2>1. r \notin Writers
    <3> SUFFICES ASSUME r \in Writers PROVE FALSE
      OBVIOUS
    <3>1. IsIdle(job[r]) \/ IsPost(job[r])
      BY DEF HttpInv
    <3> QED BY <3>1 DEF Stage, IsIdle, IsPost
  <2> QED BY <2>1 DEF Requests
<1>2. ReaderOK(r) /\ job[r].pc = s
  BY <1>1 DEF HttpInv, Stage
<1>3. job[r] # NoJob
  BY <1>2, NoJobIs
<1>4. GetOK(job[r]) /\ \A n \in Names : value[n] \in job[r].seen[n]
  BY <1>2, <1>3 DEF ReaderOK
<1> QED BY <1>1, <1>2, <1>4 DEF GetOK

LEMMA GetStep ==
  ASSUME HttpInv, NEW r \in Readers, NEW q \in Queries, NEW full \in BOOLEAN, Get(r, q, full)
  PROVE  HttpInv'
<1> DEFINE k == [pc |-> "read", kind |-> "get", answer |-> "none", query |-> q, full |-> full,
                 todo |-> {n \in Names : Covered(q, n)}, vals |-> {}, count |-> 0, doc |-> {}, arrays |-> {},
                 seen |-> [n \in Names |-> {value[n]}]]
<1>1. DOMAIN job = Requests /\ r \in Requests
  BY DEF HttpInv, Requests
<1>2. job' = [job EXCEPT ![r] = k] /\ UNCHANGED value
  BY DEF Get
<1>3. DOMAIN job' = Requests /\ job'[r] = k /\ \A s \in Requests \ {r} : job'[s] = job[s]
  BY <1>1, <1>2
<1>4. /\ DOMAIN k = GetFields /\ k.kind = "get" /\ k.query = q /\ k.full = full /\ k.pc = "read" /\ k.answer = "none"
      /\ k.todo = {n \in Names : Covered(q, n)} /\ k.vals = {} /\ k.doc = {} /\ k.arrays = {}
      /\ k.seen = [n \in Names |-> {value[n]}]
  BY DEF GetFields
<1> HIDE DEF k
<1>5. value \in [Names -> Texts \cup {Empty}]
  BY DEF HttpInv, Values
<1>6. /\ k.seen \in [Names -> SUBSET (Texts \cup {Empty})]
      /\ \A n \in Names : value[n] \in k.seen[n]
  BY <1>4, <1>5
<1>7. ValsOK(k)
  BY <1>4, FS_EmptySet DEF ValsOK
<1>8. ReadOK(k)
  BY <1>4 DEF ReadOK
<1>9. Asked(k)
  BY <1>4 DEF Asked
<1>10. \A n \in Names : k.seen[n] # {}
  BY <1>6
<1>11. GetOK(k)
  BY <1>4, <1>6, <1>7, <1>8, <1>9, <1>10 DEF GetOK, ArraysOK
<1> QED BY <1>2, <1>3, <1>4, <1>6, <1>11, ReaderMoves

LEMMA ReadStep ==
  ASSUME HttpInv, NEW r \in Requests, Read(r)
  PROVE  HttpInv'
<1> DEFINE j == job[r]
<1>1. /\ r \in Readers /\ GetOK(j) /\ j.pc = "read" /\ j.answer = "none"
      /\ \A n \in Names : value[n] \in j.seen[n]
  BY GetStage DEF Read
<1>2. DOMAIN job = Requests /\ UNCHANGED value
  BY DEF HttpInv, Read
<1>3. PICK n \in j.todo, missed \in BOOLEAN :
         /\ missed \in IF Cardinality(j.seen[n]) > 1 THEN BOOLEAN ELSE {FALSE}
         /\ job' = [job EXCEPT ![r].todo = @ \ {n},
                               ![r].vals = IF missed \/ value[n] = Empty THEN @ ELSE @ \cup {<<n, value[n]>>}]
  BY DEF Read
<1> DEFINE k == job'[r]
<1>4. /\ DOMAIN job' = Requests /\ \A s \in Requests \ {r} : job'[s] = job[s]
      /\ k = [j EXCEPT !.todo = j.todo \ {n},
                       !.vals = IF missed \/ value[n] = Empty THEN j.vals ELSE j.vals \cup {<<n, value[n]>>}]
  BY <1>2, <1>3
<1>5. DOMAIN j = GetFields
  BY <1>1 DEF GetOK
<1> HIDE DEF j, k
<1>6. /\ DOMAIN k = GetFields /\ k.kind = j.kind /\ k.query = j.query /\ k.full = j.full /\ k.pc = j.pc
      /\ k.answer = j.answer /\ k.count = j.count /\ k.doc = j.doc /\ k.seen = j.seen
      /\ k.arrays = j.arrays /\ k.todo = j.todo \ {n}
      /\ k.vals = IF missed \/ value[n] = Empty THEN j.vals ELSE j.vals \cup {<<n, value[n]>>}
  BY <1>4, <1>5 DEF GetFields
<1>7. n \in Names /\ value[n] \in j.seen[n] /\ ReadOK(j) /\ ValsOK(j) /\ j.todo \subseteq Names
  BY <1>1, <1>3 DEF GetOK
<1>8. value[n] # Empty => value[n] \in Texts /\ n \notin Refused
  BY <1>7 DEF HttpInv, Values, Unstored
<1>9. \A x, y : <<x, y>>[1] = x /\ <<x, y>>[2] = y
  OBVIOUS
<1>10. \A m, t : Seen(k, m, t) <=> Seen(j, m, t)
  BY <1>6 DEF Seen
<1>11. \A e \in j.vals : HasEntry(k, e)
  <2>1. \A e \in j.vals : HasEntry(j, e)
    BY <1>7 DEF ValsOK
  <2>2. k.query = j.query /\ k.count = j.count /\ k.pc = j.pc
    BY <1>6
  <2>3. \A e : HasEntry(j, e) => HasEntry(k, e)
    BY <1>10, <2>2, Zenon DEF HasEntry
  <2> QED BY <2>1, <2>3
<1>12. value[n] # Empty => HasEntry(k, <<n, value[n]>>)
  <2> SUFFICES ASSUME value[n] # Empty PROVE HasEntry(k, <<n, value[n]>>)
    OBVIOUS
  <2>1. Covered(j.query, n)
    BY <1>3, <1>7 DEF ReadOK
  <2>2. Seen(k, n, value[n])
    BY <1>6, <1>7, <1>8, <2>1 DEF Seen
  <2> QED BY <2>2 DEF HasEntry
<1>13. ValsOK(k)
  <2>1. IsFiniteSet(k.vals)
    <3>1. IsFiniteSet(j.vals)
      BY <1>7 DEF ValsOK
    <3>2. IsFiniteSet(j.vals \cup {<<n, value[n]>>})
      BY <3>1, FS_AddElement
    <3> QED BY <1>6, <3>1, <3>2
  <2>2. \A e \in k.vals : HasEntry(k, e)
    BY <1>6, <1>11, <1>12
  <2>3. \A e, f \in k.vals : e[1] = f[1] => e = f
    <3>1. \A e, f \in j.vals : e[1] = f[1] => e = f
      BY <1>7 DEF ValsOK
    <3>2. \A e \in j.vals : e[1] # n
      BY <1>3, <1>7 DEF ReadOK
    <3> QED BY <1>6, <1>9, <3>1, <3>2
  <2> QED BY <2>1, <2>2, <2>3 DEF ValsOK
<1>14. ASSUME NEW m \in Names, NEW t \in Texts, Covered(k.query, m), k.seen[m] = {t}
       PROVE  m \in k.todo \/ <<m, t>> \in k.vals
  <2>1. m \in j.todo \/ <<m, t>> \in j.vals
    BY <1>6, <1>7, <1>14 DEF ReadOK
  <2>2. CASE m = n
    <3>1. j.seen[n] = {t} /\ value[n] = t
      BY <1>6, <1>7, <1>14, <2>2
    <3>2. Cardinality(j.seen[n]) = 1
      BY <3>1, FS_Singleton
    <3>3. missed = FALSE
      BY <1>3, <3>2
    <3>4. value[n] # Empty
      BY <3>1, HttpAssumption
    <3>5. k.vals = j.vals \cup {<<n, value[n]>>}
      BY <1>6, <3>3, <3>4
    <3> QED BY <2>2, <3>1, <3>5
  <2>3. CASE m # n
    BY <1>6, <2>1, <2>3
  <2> QED BY <2>2, <2>3
<1>15. ReadOK(k)
  <2>1. k.doc = {} /\ \A m \in k.todo : Covered(k.query, m)
    BY <1>6, <1>7 DEF ReadOK
  <2>2. \A e \in k.vals : e[1] \notin k.todo
    <3>1. \A e \in j.vals : e[1] \notin j.todo
      BY <1>7 DEF ReadOK
    <3> QED BY <1>6, <1>9, <3>1
  <2> QED BY <1>14, <2>1, <2>2 DEF ReadOK
<1>16. GetOK(k)
  <2>1. Asked(k)
    BY <1>1, <1>6 DEF GetOK, Asked
  <2>2. /\ k.kind = "get" /\ k.pc = "read" /\ k.answer = "none" /\ k.todo \subseteq Names /\ k.arrays = {}
        /\ k.seen \in [Names -> SUBSET (Texts \cup {Empty})] /\ \A m \in Names : k.seen[m] # {}
    BY <1>1, <1>6 DEF GetOK
  <2> QED BY <1>6, <1>13, <1>15, <2>1, <2>2 DEF GetOK, ArraysOK
<1>17. \A m \in Names : value[m] \in k.seen[m]
  BY <1>1, <1>6
<1> QED BY <1>1, <1>2, <1>4, <1>16, <1>17, ReaderMoves DEF k

LEMMA ReadEndsStep ==
  ASSUME HttpInv, NEW r \in Requests, ReadEnds(r)
  PROVE  HttpInv'
<1> DEFINE j == job[r]
           found == IF j.vals = {} THEN {<<j.query.base, Empty>>} ELSE j.vals
           k == job'[r]
<1>1. /\ r \in Readers /\ GetOK(j) /\ j.pc = "read" /\ j.answer = "none"
      /\ \A n \in Names : value[n] \in j.seen[n]
  BY GetStage DEF ReadEnds
<1>2. DOMAIN job = Requests /\ UNCHANGED value /\ j.todo = {}
  BY DEF HttpInv, ReadEnds
<1>3. job' = [job EXCEPT ![r].pc = "insert", ![r].vals = found, ![r].count = Cardinality(found)]
  BY DEF ReadEnds
<1>4. /\ DOMAIN job' = Requests /\ \A s \in Requests \ {r} : job'[s] = job[s]
      /\ k = [j EXCEPT !.pc = "insert", !.vals = found, !.count = Cardinality(found)]
  BY <1>2, <1>3
<1>5. DOMAIN j = GetFields
  BY <1>1 DEF GetOK
<1> HIDE DEF j, k, found
<1>6. /\ DOMAIN k = GetFields /\ k.kind = j.kind /\ k.query = j.query /\ k.full = j.full /\ k.pc = "insert"
      /\ k.answer = j.answer /\ k.count = Cardinality(found) /\ k.doc = j.doc /\ k.seen = j.seen
      /\ k.todo = j.todo /\ k.vals = found /\ k.arrays = j.arrays
  BY <1>4, <1>5 DEF GetFields
<1>7. ReadOK(j) /\ ValsOK(j)
  BY <1>1 DEF GetOK
<1>8. \A m, t : Seen(k, m, t) <=> Seen(j, m, t)
  BY <1>6 DEF Seen
<1>9. \A e \in j.vals : HasEntry(k, e)
  <2>1. j.pc = "read" /\ k.query = j.query
    BY <1>1, <1>6
  <2>2. \A e \in j.vals : \E n, t : Seen(j, n, t) /\ e = <<n, t>>
    BY <1>7, <2>1 DEF ValsOK, HasEntry
  <2> QED BY <1>8, <2>2, Zenon DEF HasEntry
<1>10. j.vals = {} => found = {<<j.query.base, Empty>>} /\ k.count = 1
  <2>1. Cardinality({<<j.query.base, Empty>>}) = 1
    BY FS_Singleton
  <2> QED BY <1>6, <2>1 DEF found
<1>11. j.vals # {} => found = j.vals
  BY DEF found
<1>12. IsFiniteSet(found)
  BY <1>7, <1>10, <1>11, FS_Singleton DEF ValsOK
<1>13. ValsOK(k)
  <2>1. \A e \in k.vals : HasEntry(k, e)
    <3>1. CASE j.vals = {}
      <4>1. \A e \in k.vals : e = <<k.query.base, Empty>>
        BY <1>6, <1>10, <3>1
      <4> QED BY <1>6, <1>10, <3>1, <4>1 DEF HasEntry
    <3>2. CASE j.vals # {}
      BY <1>6, <1>9, <1>11, <3>2
    <3> QED BY <3>1, <3>2
  <2>2. \A e, f \in k.vals : e[1] = f[1] => e = f
    BY <1>6, <1>7, <1>10, <1>11 DEF ValsOK
  <2> QED BY <1>6, <1>12, <2>1, <2>2 DEF ValsOK
<1>14. k.doc = {}
  BY <1>6, <1>7 DEF ReadOK
<1>15. (k.count = 1) => \A e, f \in k.vals : e = f
  <2> SUFFICES ASSUME Cardinality(found) = 1 PROVE \A e, f \in found : e = f
    BY <1>6
  <2>1. PICK x : found = {x}
    BY <1>12, FS_Singleton
  <2> QED BY <2>1
<1>16. ASSUME NEW n \in Names, NEW t \in Texts, Covered(k.query, n), k.seen[n] = {t}
       PROVE  <<n, t>> \in k.vals
  <2>1. <<n, t>> \in j.vals
    BY <1>2, <1>6, <1>7, <1>16 DEF ReadOK, j
  <2> QED BY <1>6, <1>11, <2>1
<1>17. DocOK(k)
  BY <1>14, <1>15, <1>16 DEF DocOK
<1>18. GetOK(k)
  <2>1. Asked(k)
    BY <1>1, <1>6 DEF GetOK, Asked
  <2>2. /\ k.kind = "get" /\ k.answer = "none" /\ k.todo \subseteq Names /\ k.arrays = {}
        /\ k.seen \in [Names -> SUBSET (Texts \cup {Empty})] /\ \A m \in Names : k.seen[m] # {}
    BY <1>1, <1>6 DEF GetOK
  <2> QED BY <1>6, <1>13, <1>17, <2>1, <2>2 DEF GetOK, ArraysOK
<1>19. \A m \in Names : value[m] \in k.seen[m]
  BY <1>1, <1>6
<1> QED BY <1>1, <1>2, <1>4, <1>18, <1>19, ReaderMoves DEF k

LEMMA ScalarStep ==
  ASSUME HttpInv, NEW r \in Requests, AnswerScalar(r)
  PROVE  HttpInv'
<1> DEFINE j == job[r]
           k == job'[r]
           b == j.query.base
           x == CHOOSE e \in j.vals : TRUE
           t == x[2]
           shown == Inferred(t)
<1>1. /\ r \in Readers /\ GetOK(j) /\ j.pc = "insert" /\ j.answer = "none"
  BY GetStage DEF AnswerScalar
<1>2. DOMAIN job = Requests /\ UNCHANGED value
  BY DEF HttpInv, AnswerScalar
<1>3. /\ job' = [job EXCEPT ![r].pc = "answered", ![r].answer = "scalar", ![r].doc = {<<b, shown>>}]
      /\ j.count = 1 /\ \E e \in j.vals : e[1] = b
  BY DEF AnswerScalar, Single
<1> HIDE DEF shown
<1>4. /\ DOMAIN job' = Requests /\ \A s \in Requests \ {r} : job'[s] = job[s]
      /\ k = [j EXCEPT !.pc = "answered", !.answer = "scalar", !.doc = {<<b, shown>>}]
  BY <1>2, <1>3
<1>5. DOMAIN j = GetFields
  BY <1>1 DEF GetOK
<1> HIDE DEF j, k
<1>6. /\ DOMAIN k = GetFields /\ k.kind = j.kind /\ k.query = j.query /\ k.full = j.full /\ k.pc = "answered"
      /\ k.answer = "scalar" /\ k.count = j.count /\ k.doc = {<<b, shown>>} /\ k.seen = j.seen
      /\ k.todo = j.todo /\ k.vals = j.vals /\ k.arrays = j.arrays
  BY <1>4, <1>5 DEF GetFields
<1>7. ValsOK(j) /\ DocOK(j)
  BY <1>1 DEF GetOK
<1>8. x \in j.vals /\ j.vals = {x} /\ x[1] = b /\ j.doc = {}
  <2>1. x \in j.vals
    BY <1>3
  <2>2. \A e \in j.vals : e = x
    BY <1>3, <1>7, <2>1 DEF DocOK
  <2>3. j.doc = {}
    BY <1>3, <1>7, <2>1 DEF DocOK
  <2> HIDE DEF x
  <2> QED BY <1>3, <2>1, <2>2, <2>3
<1> HIDE DEF x
<1>9. HasEntry(j, x)
  BY <1>7, <1>8 DEF ValsOK
<1>10. x = <<b, t>>
  <2>1. \A n, u : x = <<n, u>> => x[1] = n /\ x[2] = u
    OBVIOUS
  <2>2. \E n, u : x = <<n, u>>
    BY <1>9 DEF HasEntry
  <2> QED BY <1>8, <2>1, <2>2
<1>11. \A n, u : Seen(k, n, u) <=> Seen(j, n, u)
  BY <1>6 DEF Seen
<1>12. \A e : HasEntry(j, e) => HasEntry(k, e)
  <2>1. k.query = j.query /\ k.count = j.count /\ k.pc # "read"
    BY <1>6
  <2> QED BY <1>11, <2>1, Zenon DEF HasEntry
<1>13. ValsOK(k)
  BY <1>6, <1>7, <1>12 DEF ValsOK
<1>14. ASSUME NEW n \in Names, NEW u \in Texts, Covered(k.query, n), k.seen[n] = {u}
       PROVE  n = k.query.base /\ u = t
  <2>1. <<n, u>> \in j.vals
    BY <1>6, <1>7, <1>8, <1>14 DEF DocOK
  <2>2. <<n, u>> = <<b, t>>
    BY <1>8, <1>10, <2>1
  <2> HIDE DEF t, b
  <2>3. n = b /\ u = t
    BY <2>2
  <2> QED BY <1>6, <2>3 DEF b
<1>15. ScalarOK(k)
  <2>1. HasEntry(k, <<k.query.base, t>>)
    BY <1>6, <1>9, <1>10, <1>12
  <2>2. k.doc = {<<k.query.base, Inferred(t)>>}
    BY <1>6 DEF shown
  <2>3. k.count = 1
    BY <1>3, <1>6 DEF j
  <2> HIDE DEF t
  <2> QED BY <1>14, <2>1, <2>2, <2>3 DEF ScalarOK
<1>16. GetOK(k)
  <2>1. Asked(k)
    BY <1>1, <1>6 DEF GetOK, Asked
  <2>2. /\ k.kind = "get" /\ k.todo \subseteq Names /\ k.arrays = {}
        /\ k.seen \in [Names -> SUBSET (Texts \cup {Empty})] /\ \A m \in Names : k.seen[m] # {}
    BY <1>1, <1>6 DEF GetOK
  <2> QED BY <1>6, <1>13, <1>15, <2>1, <2>2 DEF GetOK, ArraysOK
<1>17. k.pc = "answered"
  BY <1>6
<1> QED BY <1>1, <1>2, <1>4, <1>16, <1>17, ReaderMoves DEF k

LEMMA InsertStep ==
  ASSUME HttpInv, NEW r \in Requests, Insert(r)
  PROVE  HttpInv'
<1> DEFINE j == job[r]
           k == job'[r]
<1>1. /\ r \in Readers /\ GetOK(j) /\ j.pc = "insert" /\ j.answer = "none"
      /\ \A n \in Names : value[n] \in j.seen[n]
  BY GetStage DEF Insert
<1>2. DOMAIN job = Requests /\ UNCHANGED value
  BY DEF HttpInv, Insert
<1>3. PICK e \in ChildsFirst(r) :
         job' = [job EXCEPT ![r].vals = @ \ {e}, ![r].doc = InsertNested(@, PathOf(r, e[1]), Json[e[2]])]
  BY DEF Insert
<1>4. e \in j.vals /\ \A f \in j.vals : ~Below(e[1], f[1])
  BY DEF ChildsFirst
<1>5. PathOf(r, e[1]) = Path(j, e[1])
  BY <1>1, PathOfIs DEF GetOK, Asked
<1>6. /\ DOMAIN job' = Requests /\ \A s \in Requests \ {r} : job'[s] = job[s]
      /\ k = [j EXCEPT !.vals = j.vals \ {e}, !.doc = InsertNested(j.doc, Path(j, e[1]), Json[e[2]])]
  BY <1>2, <1>3, <1>5
<1>7. DOMAIN j = GetFields
  BY <1>1 DEF GetOK
<1> HIDE DEF j, k
<1>8. /\ DOMAIN k = GetFields /\ k.kind = j.kind /\ k.query = j.query /\ k.full = j.full /\ k.pc = j.pc
      /\ k.answer = j.answer /\ k.count = j.count /\ k.doc = InsertNested(j.doc, Path(j, e[1]), Json[e[2]])
      /\ k.seen = j.seen /\ k.todo = j.todo /\ k.vals = j.vals \ {e} /\ k.arrays = j.arrays
  BY <1>6, <1>7 DEF GetFields
<1>9. ValsOK(j) /\ DocOK(j) /\ Asked(j)
  BY <1>1 DEF GetOK
<1>10. SameRequest(j, k)
  BY <1>8 DEF SameRequest
<1>11. j.pc # "read" /\ k.pc # "read"
  BY <1>1, <1>8
<1>12. ValsOK(k) /\ DocOK(k)
  <2>1. CASE j.count = 1
    BY <1>4, <1>8, <1>9, <1>10, <1>11, <2>1, InsertsSingle
  <2>2. CASE j.count # 1
    BY <1>4, <1>8, <1>9, <1>10, <1>11, <2>2, InsertsOne
  <2> QED BY <2>1, <2>2
<1>13. GetOK(k)
  <2>1. Asked(k)
    BY <1>8, <1>9 DEF Asked
  <2>2. /\ k.kind = "get" /\ k.pc = "insert" /\ k.answer = "none" /\ k.todo \subseteq Names /\ k.arrays = {}
        /\ k.seen \in [Names -> SUBSET (Texts \cup {Empty})] /\ \A m \in Names : k.seen[m] # {}
    BY <1>1, <1>8 DEF GetOK
  <2> QED BY <1>8, <1>12, <2>1, <2>2 DEF GetOK, ArraysOK
<1>14. \A m \in Names : value[m] \in k.seen[m]
  BY <1>1, <1>8
<1> QED BY <1>1, <1>2, <1>6, <1>13, <1>14, ReaderMoves DEF k

LEMMA NormalizeStep ==
  ASSUME HttpInv, NEW r \in Requests, NormalizeArrays(r)
  PROVE  HttpInv'
<1> DEFINE j == job[r]
           k == job'[r]
<1>1. /\ r \in Readers /\ GetOK(j) /\ j.pc = "insert" /\ j.answer = "none"
  BY GetStage DEF NormalizeArrays
<1>2. DOMAIN job = Requests /\ UNCHANGED value /\ j.vals = {}
  BY DEF HttpInv, NormalizeArrays
<1>3. PICK arrays : /\ job' = [job EXCEPT ![r].pc = "answered", ![r].answer = "json", ![r].arrays = arrays]
                    /\ \A p \in arrays : Countable(j.doc, p)
  <2> DEFINE candidates == {p \in Objects(j.doc) : Countable(j.doc, p)}
             certain == {p \in candidates : Cardinality(KeysAt(j.doc, p)) = 1}
  <2>1. PICK more \in SUBSET candidates :
           job' = [job EXCEPT ![r].pc = "answered", ![r].answer = "json", ![r].arrays = certain \cup more]
    BY DEF NormalizeArrays
  <2>2. \A p \in certain \cup more : Countable(j.doc, p)
    OBVIOUS
  <2> HIDE DEF certain
  <2> QED BY <2>1, <2>2
<1>4. /\ DOMAIN job' = Requests /\ \A s \in Requests \ {r} : job'[s] = job[s]
      /\ k = [j EXCEPT !.pc = "answered", !.answer = "json", !.arrays = arrays]
  BY <1>2, <1>3
<1>5. DOMAIN j = GetFields
  BY <1>1 DEF GetOK
<1> HIDE DEF j, k
<1>6. /\ DOMAIN k = GetFields /\ k.kind = j.kind /\ k.query = j.query /\ k.full = j.full /\ k.pc = "answered"
      /\ k.answer = "json" /\ k.count = j.count /\ k.doc = j.doc /\ k.arrays = arrays
      /\ k.seen = j.seen /\ k.todo = j.todo /\ k.vals = j.vals
  BY <1>4, <1>5 DEF GetFields
<1>7. ValsOK(j) /\ DocOK(j) /\ Asked(j)
  BY <1>1 DEF GetOK
<1>8. SameRequest(j, k)
  BY <1>6 DEF SameRequest
<1>9. k.vals = {}
  BY <1>2, <1>6 DEF j
<1>10. ValsOK(k)
  BY <1>9, FS_EmptySet DEF ValsOK
<1>11. DocOK(k)
  <2>1. /\ \A n, p : Spot(k, n, p) <=> Spot(j, n, p)
        /\ \A d : HasLeaf(k, d) <=> HasLeaf(j, d)
    BY <1>8, SamePaths
  <2>2. \A d \in k.doc : HasLeaf(k, d)
    BY <1>6, <1>7, <2>1 DEF DocOK
  <2>3. \A d, f \in k.doc : d[1] = f[1] \/ Below(d[1], f[1]) => d = f
    BY <1>6, <1>7 DEF DocOK
  <2>4. ASSUME NEW n \in Names, NEW t \in Texts, Covered(k.query, n), k.seen[n] = {t}
        PROVE  n \notin Refused /\ \E d \in k.doc : Spot(k, n, d[1]) /\ d[2] = Json[t]
    <3>1. n \notin Refused /\ \E d \in j.doc : Spot(j, n, d[1]) /\ d[2] = Json[t]
      BY <1>6, <1>7, <1>9, <2>4 DEF DocOK
    <3> QED BY <1>6, <2>1, <3>1
  <2> QED BY <1>9, <2>2, <2>3, <2>4 DEF DocOK
<1>12. GetOK(k)
  <2>1. Asked(k)
    BY <1>6, <1>7 DEF Asked
  <2>2. /\ k.kind = "get" /\ k.todo \subseteq Names
        /\ k.seen \in [Names -> SUBSET (Texts \cup {Empty})] /\ \A m \in Names : k.seen[m] # {}
    BY <1>1, <1>6 DEF GetOK
  <2>3. ArraysOK(k)
    <3>1. \A p \in k.arrays : Countable(k.doc, p)
      BY <1>3, <1>6 DEF j
    <3> QED BY <3>1, Zenon DEF ArraysOK, Countable
  <2> QED BY <1>6, <1>9, <1>10, <1>11, <2>1, <2>2, <2>3 DEF GetOK
<1>13. k.pc = "answered"
  BY <1>6
<1> QED BY <1>1, <1>2, <1>4, <1>12, <1>13, ReaderMoves DEF k

(***************************************************************************)
(* HttpTree: the theorems                                                  *)
(***************************************************************************)

LEMMA HttpStarts == HttpInit => HttpInv
<1> SUFFICES ASSUME HttpInit PROVE HttpInv
  OBVIOUS
<1>1. Values
  BY DEF HttpInit, Values
<1>2. DOMAIN job = Requests /\ \A r \in Requests : job[r] = NoJob
  BY DEF HttpInit
<1>3. \A w \in Writers : IsIdle(job[w])
  BY <1>2, NoJobIs DEF Requests
<1>4. \A g \in Readers : ReaderOK(g)
  BY <1>2 DEF Requests, ReaderOK
<1> QED BY <1>1, <1>2, <1>3, <1>4 DEF HttpInv

LEMMA HttpMoves == HttpInv /\ [HttpNext]_httpVars => HttpInv'
<1> SUFFICES ASSUME HttpInv, [HttpNext]_httpVars PROVE HttpInv'
  OBVIOUS
<1>1. CASE UNCHANGED httpVars
  <2>1. value' = value /\ job' = job
    BY <1>1 DEF httpVars
  <2> QED BY <2>1 DEF HttpInv, Values, ReaderOK
<1>2. ASSUME NEW r \in Requests, Asks(r) PROVE HttpInv'
  <2>1. CASE /\ r \in Writers
             /\ \/ \E B \in Bodies : PostJson(r, B)
                \/ \E n \in Names, t \in Texts \cup {Empty} : PostText(r, n, t)
                \/ \E n \in Names : DeleteByName(r, n)
    BY <2>1, WriterAsks
  <2>2. CASE r \in Readers /\ \E q \in Queries, full \in BOOLEAN : Get(r, q, full)
    <3>1. PICK q \in Queries, full \in BOOLEAN : Get(r, q, full)
      BY <2>2
    <3> QED BY <2>2, <3>1, GetStep
  <2> QED BY <1>2, <2>1, <2>2, Zenon DEF Asks
<1>3. ASSUME NEW r \in Requests, Serves(r) PROVE HttpInv'
  <2>1. CASE PostNext(r)
    BY <2>1, PostNextStep
  <2>2. CASE PostEnds(r)
    BY <2>2, PostEndsStep
  <2>3. CASE Read(r)
    BY <2>3, ReadStep
  <2>4. CASE ReadEnds(r)
    BY <2>4, ReadEndsStep
  <2>5. CASE AnswerScalar(r)
    BY <2>5, ScalarStep
  <2>6. CASE Insert(r)
    BY <2>6, InsertStep
  <2>7. CASE NormalizeArrays(r)
    BY <2>7, NormalizeStep
  <2> QED BY <1>3, <2>1, <2>2, <2>3, <2>4, <2>5, <2>6, <2>7, Zenon DEF Serves
<1> QED BY <1>1, <1>2, <1>3, Zenon DEF HttpNext

(* HttpInv is an invariant of the HTTP interface: what GetVars has read,   *)
(* what insertNested has put into the object and what the client is owed   *)
(* yet agree at every step of every request.                               *)
THEOREM HttpInvHolds == HttpSpec => []HttpInv
  BY HttpStarts, HttpMoves, PTL DEF HttpSpec

LEMMA GetsAre ==
  ASSUME HttpInv, NEW r \in Gets
  PROVE  r \in Requests /\ GetOK(job[r])
<1>1. r \in Requests /\ job[r].kind = "get"
  BY DEF Gets
<1>2. r \notin Writers
  BY <1>1 DEF HttpInv, IsIdle, IsPost
<1>3. r \in Readers
  BY <1>1, <1>2 DEF Requests
<1>4. job[r] # NoJob
  BY <1>1, NoJobIs
<1>5. GetOK(job[r])
  BY <1>3, <1>4 DEF HttpInv, ReaderOK
<1> QED BY <1>1, <1>5

LEMMA ToldIs ==
  ASSUME NEW r, NEW p
  PROVE  NamesOf(r, p) = IF job[r].full \/ job[r].answer = "scalar" THEN {Strip(p)}
                         ELSE {job[r].query.base \o Strip(p)}
                              \cup (IF job[r].count = 1 THEN {Strip(p)} \cap {job[r].query.base} ELSE {})
  BY Zenon DEF NamesOf, Strip

(* A leaf at a place of a variable tells its name. *)
LEMMA LeafTells ==
  ASSUME NEW r, Asked(job[r]), job[r].answer = "json",
         NEW n \in Names \ Refused, Covered(job[r].query, n), NEW p, Spot(job[r], n, p)
  PROVE  n \in NamesOf(r, p)
<1> DEFINE j == job[r]
           b == j.query.base
           s == Strip(p)
           T == NamesOf(r, p)
<1>1. /\ j.full \/ (n = b /\ j.count = 1) => s = n
      /\ ~(j.full \/ (n = b /\ j.count = 1)) => b \o s = n
  BY SpotIsRead
<1>2. T = IF j.full \/ j.answer = "scalar" THEN {s}
          ELSE {b \o s} \cup (IF j.count = 1 THEN {s} \cap {b} ELSE {})
  BY ToldIs
<1>3. j.answer # "scalar" /\ j.full \in BOOLEAN
  BY DEF Asked
<1> DEFINE c == b \o s
<1> HIDE DEF c, T, s
<1>4. T = IF j.full THEN {s} ELSE {c} \cup (IF j.count = 1 THEN {s} \cap {b} ELSE {})
  BY <1>2, <1>3 DEF c
<1>5. ~(j.full \/ (n = b /\ j.count = 1)) => c = n
  BY <1>1 DEF c
<1>6. j.full \/ (n = b /\ j.count = 1) => s = n
  BY <1>1 DEF s
<1>7. n \in T
  BY <1>3, <1>4, <1>5, <1>6
<1> QED BY <1>7 DEF T

LEMMA JsonIsFaithful ==
  ASSUME HttpInv, NEW r \in Gets, job[r].answer = "json"
  PROVE  /\ \A n \in Names : \A t \in Texts :
              Covered(job[r].query, n) /\ job[r].seen[n] = {t}
              => \E e \in job[r].doc : n \in NamesOf(r, e[1]) /\ e[2] = Shown(r, t)
         /\ \A e \in job[r].doc :
              \/ e = <<job[r].query.base, Shown(r, Empty)>> /\ job[r].count = 1
              \/ \E n \in NamesOf(r, e[1]) \cap Names : \E t \in job[r].seen[n] \ {Empty} :
                    Covered(job[r].query, n) /\ e[2] = Shown(r, t)
<1> DEFINE j == job[r]
<1>1. GetOK(j)
  BY GetsAre
<1>2. Asked(j) /\ j.vals = {} /\ DocOK(j)
  BY <1>1 DEF GetOK
<1>3. \A t : Shown(r, t) = Json[t]
  BY DEF Shown
<1>4. ASSUME NEW n \in Names, NEW t \in Texts, Covered(j.query, n), j.seen[n] = {t}
      PROVE  \E e \in j.doc : n \in NamesOf(r, e[1]) /\ e[2] = Shown(r, t)
  <2>1. n \notin Refused /\ \E d \in j.doc : Spot(j, n, d[1]) /\ d[2] = Json[t]
    BY <1>2, <1>4 DEF DocOK
  <2>2. PICK d \in j.doc : Spot(j, n, d[1]) /\ d[2] = Json[t]
    BY <2>1
  <2>3. n \in NamesOf(r, d[1])
    BY <1>2, <1>4, <2>1, <2>2, LeafTells
  <2> QED BY <1>3, <2>2, <2>3
<1>5. ASSUME NEW e \in j.doc
      PROVE  \/ e = <<j.query.base, Shown(r, Empty)>> /\ j.count = 1
             \/ \E n \in NamesOf(r, e[1]) \cap Names : \E t \in j.seen[n] \ {Empty} :
                    Covered(j.query, n) /\ e[2] = Shown(r, t)
  <2>1. HasLeaf(j, e)
    BY <1>2 DEF DocOK
  <2>2. CASE e = <<j.query.base, Json[Empty]>> /\ j.count = 1
    BY <1>3, <2>2
  <2>3. CASE \E n, t : Seen(j, n, t) /\ Spot(j, n, e[1]) /\ e = <<e[1], Json[t]>>
    <3>1. PICK n, t : Seen(j, n, t) /\ Spot(j, n, e[1]) /\ e = <<e[1], Json[t]>>
      BY <2>3
    <3>2. n \in Names \ Refused /\ Covered(j.query, n) /\ t \in j.seen[n] /\ t \in Texts
      BY <3>1 DEF Seen
    <3>3. n \in NamesOf(r, e[1])
      BY <1>2, <3>1, <3>2, LeafTells
    <3>4. t # Empty
      BY <3>2, HttpAssumption
    <3>5. e[2] = Shown(r, t)
      BY <1>3, <3>1
    <3> QED BY <3>2, <3>3, <3>4, <3>5
  <2> QED BY <2>1, <2>2, <2>3 DEF HasLeaf
<1> QED BY <1>4, <1>5

LEMMA ScalarIsFaithful ==
  ASSUME HttpInv, NEW r \in Gets, job[r].answer = "scalar"
  PROVE  /\ \A n \in Names : \A t \in Texts :
              Covered(job[r].query, n) /\ job[r].seen[n] = {t}
              => \E e \in job[r].doc : n \in NamesOf(r, e[1]) /\ e[2] = Shown(r, t)
         /\ \A e \in job[r].doc :
              \/ e = <<job[r].query.base, Shown(r, Empty)>> /\ job[r].count = 1
              \/ \E n \in NamesOf(r, e[1]) \cap Names : \E t \in job[r].seen[n] \ {Empty} :
                    Covered(job[r].query, n) /\ e[2] = Shown(r, t)
<1> DEFINE j == job[r]
           b == j.query.base
<1>1. GetOK(j)
  BY GetsAre
<1>2. ScalarOK(j)
  BY <1>1 DEF GetOK
<1>3. PICK u : /\ j.doc = {<<b, Inferred(u)>>}
               /\ HasEntry(j, <<b, u>>)
               /\ \A n \in Names, t \in Texts :
                     Covered(j.query, n) /\ j.seen[n] = {t} => n = b /\ t = u
  BY <1>2 DEF ScalarOK
<1>4. \A t : Shown(r, t) = Inferred(t)
  BY DEF Shown
<1>5. \A p : NamesOf(r, p) = {Strip(p)}
  BY ToldIs
<1>6. ASSUME b \in Names \ Refused PROVE Strip(b) = b
  <2>1. b \in Paths /\ b # <<>> /\ Len(b) \in Nat /\ Len(b) > 0 /\ \A i \in 1..Len(b) : b[i] # Own
    BY <1>6, NamesArePaths
  <2>2. b[Len(b)] # Own
    BY <2>1
  <2> QED BY <2>1, <2>2, StripIs
<1>7. \/ Seen(j, b, u)
      \/ u = Empty
  <2>1. CASE \E n, t : Seen(j, n, t) /\ <<b, u>> = <<n, t>>
    <3>1. PICK n, t : Seen(j, n, t) /\ <<b, u>> = <<n, t>>
      BY <2>1
    <3>2. b = n /\ u = t
      BY <3>1
    <3> QED BY <3>1, <3>2
  <2>2. CASE <<b, u>> = <<b, Empty>>
    BY <2>2
  <2> QED BY <1>3, <2>1, <2>2 DEF HasEntry
<1> DEFINE leaf == <<b, Inferred(u)>>
<1>8. leaf[1] = b /\ leaf[2] = Shown(r, u) /\ j.doc = {leaf}
  BY <1>3, <1>4
<1> HIDE DEF leaf
<1>9. ASSUME Seen(j, b, u)
      PROVE  b \in Names \ Refused /\ Covered(j.query, b) /\ u \in j.seen[b] \ {Empty} /\ b \in NamesOf(r, leaf[1])
  <2>1. b \in Names \ Refused /\ Covered(j.query, b) /\ u \in j.seen[b] \cap Texts
    BY <1>9 DEF Seen
  <2>2. u # Empty
    BY <2>1, HttpAssumption
  <2>3. b \in NamesOf(r, b)
    BY <1>5, <1>6, <2>1
  <2> QED BY <1>8, <2>1, <2>2, <2>3
<1>10. ASSUME NEW n \in Names, NEW t \in Texts, Covered(j.query, n), j.seen[n] = {t}
       PROVE  \E e \in j.doc : n \in NamesOf(r, e[1]) /\ e[2] = Shown(r, t)
  <2>1. n = b /\ t = u
    BY <1>3, <1>10
  <2>2. u # Empty
    BY <1>10, <2>1, HttpAssumption
  <2>3. b \in NamesOf(r, leaf[1])
    BY <1>7, <1>9, <2>2
  <2> QED BY <1>8, <2>1, <2>3
<1>11. ASSUME NEW e \in j.doc
       PROVE  \/ e = <<b, Shown(r, Empty)>> /\ j.count = 1
              \/ \E n \in NamesOf(r, e[1]) \cap Names : \E t \in j.seen[n] \ {Empty} :
                    Covered(j.query, n) /\ e[2] = Shown(r, t)
  <2>1. e = leaf
    BY <1>8
  <2>2. CASE Seen(j, b, u)
    BY <1>8, <1>9, <2>1, <2>2
  <2>3. CASE u = Empty
    <3>2. leaf = <<b, Shown(r, Empty)>>
      BY <1>4, <2>3 DEF leaf
    <3>3. j.count = 1
      BY <1>2 DEF ScalarOK
    <3> QED BY <2>1, <3>2, <3>3
  <2> QED BY <1>7, <2>2, <2>3
<1> QED BY <1>10, <1>11

(* AnswerIsFaithful, for any variables, texts, queries, requests and       *)
(* orders of Go maps, whatever SetVar refuses or leaves unstored: an       *)
(* answered GET tells every variable asked for that kept its value, as its *)
(* text is shown, and no other name and no value that the name never had,  *)
(* also through its arrays.                                                *)
THEOREM AnswerIsFaithfulHolds == HttpSpec => []AnswerIsFaithful
<1>1. HttpInv => AnswerIsFaithful
  <2> SUFFICES ASSUME HttpInv PROVE AnswerIsFaithful
    OBVIOUS
  <2> USE DEF AnswerIsFaithful
  <2> SUFFICES ASSUME NEW r \in Gets, job[r].answer \in {"json", "scalar"}
               PROVE  /\ \A n \in Names : \A t \in Texts :
                           Covered(job[r].query, n) /\ job[r].seen[n] = {t}
                           => \E e \in job[r].doc : n \in NamesOf(r, e[1]) /\ e[2] = Shown(r, t)
                      /\ \A e \in job[r].doc :
                           \/ e = <<job[r].query.base, Shown(r, Empty)>> /\ job[r].count = 1
                           \/ \E n \in NamesOf(r, e[1]) \cap Names : \E t \in job[r].seen[n] \ {Empty} :
                                 Covered(job[r].query, n) /\ e[2] = Shown(r, t)
                      /\ ArraysOK(job[r])
    BY Zenon DEF ArraysOK
  <2>0. ArraysOK(job[r])
    BY GetsAre DEF GetOK
  <2>1. CASE job[r].answer = "json"
    BY <2>0, <2>1, JsonIsFaithful, Zenon
  <2>2. CASE job[r].answer = "scalar"
    BY <2>0, <2>2, ScalarIsFaithful, Zenon
  <2> QED BY <2>1, <2>2
<1> QED BY <1>1, HttpInvHolds, PTL

LEMMA ScalarPath ==
  ASSUME NEW j, GetOK(j), j.answer = "scalar"
  PROVE  /\ \A e \in j.doc : e[2] \in Scalars
         /\ \A e, f \in j.doc : e = f
<1>1. PICK t : /\ j.doc = {<<j.query.base, Inferred(t)>>}
               /\ HasEntry(j, <<j.query.base, t>>)
  BY DEF GetOK, ScalarOK
<1>2. t \in Texts \cup {Empty}
  BY <1>1 DEF HasEntry, Seen
<1>3. Inferred(t) \in Scalars
  BY <1>2 DEF Scalars
<1> QED BY <1>1, <1>3

LEMMA HttpTypes == HttpInv => HttpTypeOK
<1> SUFFICES ASSUME HttpInv PROVE HttpTypeOK
  OBVIOUS
<1>1. value \in [Names -> Texts \cup {Empty}] /\ \A n \in Unstored : value[n] = Empty
  BY DEF HttpInv, Values
<1>2. ASSUME NEW r \in Requests
      PROVE  job[r].answer \in {"none", "204", "403", "aborted", "json", "scalar"}
  <2>1. CASE r \in Writers
    BY <2>1 DEF HttpInv, IsIdle, IsPost
  <2>2. CASE r \in Readers
    BY <2>2, NoJobIs DEF HttpInv, ReaderOK, GetOK
  <2> QED BY <2>1, <2>2 DEF Requests
<1>3. ASSUME NEW r \in Gets
      PROVE  /\ \A e \in job[r].doc : e[2] \in Scalars
             /\ \A e, f \in job[r].doc : e[1] = f[1] \/ Below(e[1], f[1]) => e = f
  <2> DEFINE j == job[r]
  <2>1. GetOK(j)
    BY GetsAre
  <2> HIDE DEF j
  <2>2. CASE j.answer = "scalar"
    <3>1. (\A e \in j.doc : e[2] \in Scalars) /\ \A e, f \in j.doc : e = f
      BY <2>1, <2>2, ScalarPath
    <3> QED BY <3>1 DEF j
  <2>3. CASE j.answer # "scalar" /\ j.pc = "read"
    <3>1. j.doc = {}
      BY <2>1, <2>3 DEF GetOK, ReadOK
    <3> QED BY <3>1 DEF j
  <2>4. CASE j.answer # "scalar" /\ j.pc # "read"
    <3>1. DocOK(j) /\ Asked(j)
      BY <2>1, <2>4 DEF GetOK
    <3>2. \A e \in j.doc : HasLeaf(j, e)
      BY <3>1 DEF DocOK
    <3>3. \A e, f \in j.doc : e[1] = f[1] \/ Below(e[1], f[1]) => e = f
      BY <3>1, Zenon DEF DocOK
    <3>4. \A e \in j.doc : e[2] \in Scalars
      BY <3>1, <3>2, LeafPath
    <3> QED BY <3>3, <3>4 DEF j
  <2> QED BY <2>2, <2>3, <2>4
<1> QED BY <1>1, <1>2, <1>3 DEF HttpTypeOK

(* NoScalarInTheWay and the types of the requests, for any instance: the   *)
(* order of GetVars is what lets insertNested work.                        *)
THEOREM NoScalarInTheWayHolds == HttpSpec => []NoScalarInTheWay
<1>1. HttpInv => NoScalarInTheWay
  <2> SUFFICES ASSUME HttpInv PROVE NoScalarInTheWay
    OBVIOUS
  <2>1. ASSUME NEW r \in Gets, Stage(r, "insert"), NEW e \in ChildsFirst(r), NEW f \in job[r].doc
        PROVE  ~Below(f[1], PathOf(r, e[1]))
    <3> DEFINE j == job[r]
    <3>1. r \in Requests
      BY GetsAre
    <3>2. GetOK(j) /\ j.pc = "insert" /\ j.answer = "none"
      BY <2>1, <3>1, GetStage
    <3>3. DocOK(j) /\ Asked(j) /\ ValsOK(j) /\ j.full \in BOOLEAN
      BY <3>2 DEF GetOK, Asked
    <3>4. e \in j.vals
      BY DEF ChildsFirst
    <3>5. PathOf(r, e[1]) = Path(j, e[1])
      BY <3>3, PathOfIs
    <3> HIDE DEF j
    <3>6. f \in j.doc
      BY DEF j
    <3>7. j.count # 1
      BY <3>3, <3>4, <3>6 DEF DocOK
    <3>8. ~Under(Strip(f[1]), Path(j, e[1])) /\ HasLeaf(j, f)
      BY <3>3, <3>4, <3>6, <3>7 DEF DocOK
    <3>9. f[1] \in Paths /\ f[1] # <<>>
      BY <3>3, <3>7, <3>8, LeafPath
    <3>10. Path(j, e[1]) \in Paths
      <4>1. PICK n, t : Seen(j, n, t) /\ e = <<n, t>>
        BY <3>3, <3>4, <3>7 DEF ValsOK, HasEntry
      <4>2. e[1] \in Names /\ Covered(j.query, e[1])
        BY <4>1 DEF Seen
      <4> QED BY <3>3, <4>2, PathIs
    <3>11. ~Under(f[1], Path(j, e[1]))
      BY <3>8, <3>9, <3>10, StripUnder
    <3> QED BY <3>5, <3>11 DEF Below, Under, IsStrictPrefix
  <2> QED BY <2>1, HttpTypes DEF NoScalarInTheWay
<1> QED BY <1>1, HttpInvHolds, PTL

-----------------------------------------------------------------------------
(***************************************************************************)
(* Startup                                                                 *)
(***************************************************************************)

LEMMA TextsAre ==
  /\ \A n : IsNum(Num(n)) /\ Num(n).num = n
  /\ \A w : ~IsNum(Word(w)) /\ Word(w).word = w
  BY DEF IsNum, Num, Word

(* The items of initConfigurations. *)
LEMMA ItemsAre ==
  /\ Len(Items) = 18 /\ DOMAIN Items = 1..18
  /\ Items[1] = Item("maxLogFileSize", "size", Num(52428800))
  /\ Items[2] = Item("fileLogLevel", "level", Word("info2"))
  /\ Items[3] = Item("stdoutLogLevel", "level", Word("info"))
  /\ Items[4] = Item("serverDiscoveryPort", "free", Num(5022))
  /\ Items[5] = Item("maxTimeWaitingClient_seconds", "free", Num(43200))
  /\ Items[6] = Item("DbDirectory", "free", Word("%SUGGESTED_DATA_DIRECTORY%"))
  /\ Items[7] = Item("httpDataDir", "free", Word("%SUGGESTED_DATA_DIRECTORY%"))
  /\ Items[8] = Item("httpApiPort", "port", Num(5024))
  /\ Items[9] = Item("httpApiHttpsPort", "port", Num(5025))
  /\ Items[10] = Item("httpApiCertFile", "free", Word("%APP_DIR%"))
  /\ Items[11] = Item("httpApiKeyFile", "free", Word("%APP_DIR%"))
  /\ Items[12] = Item("httpApiReturnsFullPaths", "free", Word("false"))
  /\ Items[13] = Item("vstpApiPort", "port", Num(5032))
  /\ Items[14] = Item("RamCacheDbDumpIntervalMs", "interval", Num(60000))
  /\ Items[15] = Item("maxKeyLength", "positive", Num(255))
  /\ Items[16] = Item("maxKeyWordLength", "positive", Num(64))
  /\ Items[17] = Item("maxValueSize", "positive", Num(1048576))
  /\ Items[18] = Item("allowRawDbAccess", "free", Word("false"))
<1> DEFINE S == {LogItems[i] : i \in 1..3} \cup {ClientItems[i] : i \in 1..2} \cup {FolderItems[i] : i \in 1..2}
                \cup {HttpItems[i] : i \in 1..5} \cup {ServiceItems[i] : i \in 1..2} \cup {LimitItems[i] : i \in 1..4}
<1>1. LogItems \in Seq(S) /\ Len(LogItems) = 3
  BY DEF LogItems
<1>2. ClientItems \in Seq(S) /\ Len(ClientItems) = 2
  BY DEF ClientItems
<1>3. FolderItems \in Seq(S) /\ Len(FolderItems) = 2
  BY DEF FolderItems
<1>4. HttpItems \in Seq(S) /\ Len(HttpItems) = 5
  BY DEF HttpItems
<1>5. ServiceItems \in Seq(S) /\ Len(ServiceItems) = 2
  BY DEF ServiceItems
<1>6. LimitItems \in Seq(S) /\ Len(LimitItems) = 4
  BY DEF LimitItems
<1> HIDE DEF S
<1> DEFINE a == LogItems \o ClientItems
           b == a \o FolderItems
           c == b \o HttpItems
           d == c \o ServiceItems
           e == d \o LimitItems
<1>7. /\ a \in Seq(S) /\ Len(a) = 5
      /\ \A i \in 1..5 : a[i] = IF i <= 3 THEN LogItems[i] ELSE ClientItems[i - 3]
  <2>1. /\ a \in Seq(S) /\ Len(a) = Len(LogItems) + Len(ClientItems)
        /\ \A i \in 1..(Len(LogItems) + Len(ClientItems)) :
              a[i] = IF i <= Len(LogItems) THEN LogItems[i] ELSE ClientItems[i - Len(LogItems)]
    BY <1>1, <1>2, ConcatProperties
  <2> HIDE DEF a
  <2> QED BY <1>1, <1>2, <2>1
<1> HIDE DEF a
<1>8. /\ b \in Seq(S) /\ Len(b) = 7
      /\ \A i \in 1..7 : b[i] = IF i <= 5 THEN a[i] ELSE FolderItems[i - 5]
  <2>1. /\ b \in Seq(S) /\ Len(b) = Len(a) + Len(FolderItems)
        /\ \A i \in 1..(Len(a) + Len(FolderItems)) :
              b[i] = IF i <= Len(a) THEN a[i] ELSE FolderItems[i - Len(a)]
    BY <1>7, <1>3, ConcatProperties
  <2> HIDE DEF b
  <2> QED BY <1>7, <1>3, <2>1
<1> HIDE DEF b
<1>9. /\ c \in Seq(S) /\ Len(c) = 12
      /\ \A i \in 1..12 : c[i] = IF i <= 7 THEN b[i] ELSE HttpItems[i - 7]
  <2>1. /\ c \in Seq(S) /\ Len(c) = Len(b) + Len(HttpItems)
        /\ \A i \in 1..(Len(b) + Len(HttpItems)) :
              c[i] = IF i <= Len(b) THEN b[i] ELSE HttpItems[i - Len(b)]
    BY <1>8, <1>4, ConcatProperties
  <2> HIDE DEF c
  <2> QED BY <1>8, <1>4, <2>1
<1> HIDE DEF c
<1>10. /\ d \in Seq(S) /\ Len(d) = 14
      /\ \A i \in 1..14 : d[i] = IF i <= 12 THEN c[i] ELSE ServiceItems[i - 12]
  <2>1. /\ d \in Seq(S) /\ Len(d) = Len(c) + Len(ServiceItems)
        /\ \A i \in 1..(Len(c) + Len(ServiceItems)) :
              d[i] = IF i <= Len(c) THEN c[i] ELSE ServiceItems[i - Len(c)]
    BY <1>9, <1>5, ConcatProperties
  <2> HIDE DEF d
  <2> QED BY <1>9, <1>5, <2>1
<1> HIDE DEF d
<1>11. /\ e \in Seq(S) /\ Len(e) = 18
      /\ \A i \in 1..18 : e[i] = IF i <= 14 THEN d[i] ELSE LimitItems[i - 14]
  <2>1. /\ e \in Seq(S) /\ Len(e) = Len(d) + Len(LimitItems)
        /\ \A i \in 1..(Len(d) + Len(LimitItems)) :
              e[i] = IF i <= Len(d) THEN d[i] ELSE LimitItems[i - Len(d)]
    BY <1>10, <1>6, ConcatProperties
  <2> HIDE DEF e
  <2> QED BY <1>10, <1>6, <2>1
<1> HIDE DEF e
<1>12. Items = e
  BY DEF Items, a, b, c, d, e
<1>a. \A i \in 1..7 : e[i] = b[i]
  <2> SUFFICES ASSUME NEW i \in 1..7 PROVE e[i] = b[i]
    OBVIOUS
  <2>1. i \in 1..18 /\ i <= 14 /\ i \in 1..14 /\ i <= 12 /\ i \in 1..12 /\ i <= 7
    OBVIOUS
  <2>2. e[i] = d[i]
    BY <1>11, <2>1
  <2>3. d[i] = c[i]
    BY <1>10, <2>1
  <2>4. c[i] = b[i]
    BY <1>9, <2>1
  <2> QED BY <2>2, <2>3, <2>4
<1>b. \A i \in 1..5 : e[i] = a[i]
  <2> SUFFICES ASSUME NEW i \in 1..5 PROVE e[i] = a[i]
    OBVIOUS
  <2>1. i \in 1..7 /\ i <= 5
    OBVIOUS
  <2> QED BY <1>8, <1>a, <2>1
<1>13. /\ Items[1] = LogItems[1] /\ Items[2] = LogItems[2] /\ Items[3] = LogItems[3]
       /\ Items[4] = ClientItems[1] /\ Items[5] = ClientItems[2]
  BY <1>7, <1>12, <1>b
<1>14. Items[6] = FolderItems[1] /\ Items[7] = FolderItems[2]
  <2>1. e[6] = b[6] /\ e[7] = b[7]
    BY <1>a
  <2>2. b[6] = FolderItems[1] /\ b[7] = FolderItems[2]
    BY <1>8
  <2> QED BY <1>12, <2>1, <2>2
<1>15. /\ Items[8] = HttpItems[1] /\ Items[9] = HttpItems[2] /\ Items[10] = HttpItems[3]
       /\ Items[11] = HttpItems[4] /\ Items[12] = HttpItems[5]
  BY <1>9, <1>10, <1>11, <1>12
<1>16. Items[13] = ServiceItems[1] /\ Items[14] = ServiceItems[2]
  BY <1>10, <1>11, <1>12
<1>17. /\ Items[15] = LimitItems[1] /\ Items[16] = LimitItems[2] /\ Items[17] = LimitItems[3]
       /\ Items[18] = LimitItems[4]
  BY <1>11, <1>12
<1>18. Len(Items) = 18 /\ DOMAIN Items = 1..18
  BY <1>11, <1>12, LenProperties
<1> QED BY <1>13, <1>14, <1>15, <1>16, <1>17, <1>18
        DEF LogItems, ClientItems, FolderItems, HttpItems, ServiceItems, LimitItems

(* No two of them have the same name. *)
LEMMA NamesDiffer ==
  \A i, j \in DOMAIN Items : Items[i].name = Items[j].name => i = j
<1> DEFINE n(i) == Items[i].name
<1>1. /\ n(1) = "maxLogFileSize" /\ n(2) = "fileLogLevel" /\ n(3) = "stdoutLogLevel"
      /\ n(4) = "serverDiscoveryPort" /\ n(5) = "maxTimeWaitingClient_seconds" /\ n(6) = "DbDirectory"
      /\ n(7) = "httpDataDir" /\ n(8) = "httpApiPort" /\ n(9) = "httpApiHttpsPort"
      /\ n(10) = "httpApiCertFile" /\ n(11) = "httpApiKeyFile" /\ n(12) = "httpApiReturnsFullPaths"
      /\ n(13) = "vstpApiPort" /\ n(14) = "RamCacheDbDumpIntervalMs" /\ n(15) = "maxKeyLength"
      /\ n(16) = "maxKeyWordLength" /\ n(17) = "maxValueSize" /\ n(18) = "allowRawDbAccess"
  BY ItemsAre DEF Item
<1>2. DOMAIN Items = 1..18
  BY ItemsAre
<1> HIDE DEF n
<1>3. \A i, j \in 1..18 : n(i) = n(j) => i = j
  BY <1>1, SMTT(60)
<1> QED BY <1>2, <1>3 DEF n

(* A nonempty set of indices has a last one. *)
LEMMA LastIndex ==
  ASSUME NEW n \in Nat, NEW T \in SUBSET (1..n), T # {}
  PROVE  \E i \in T : \A j \in T : j <= i
<1> DEFINE U == {n - i : i \in T}
           R == OpToRel(<, Nat)
<1>1. U \subseteq Nat /\ U # {}
  <2>1. \A i \in T : n - i \in Nat
    OBVIOUS
  <2>2. PICK i \in T : TRUE
    OBVIOUS
  <2>3. n - i \in U
    BY <2>2
  <2> QED BY <2>1, <2>3
<1>2. PICK x \in U : \A y \in U : ~ (<<y, x>> \in R)
  <2>1. IsWellFoundedOn(R, Nat)
    BY NatLessThanWellFounded
  <2> HIDE DEF U, R
  <2> QED BY <1>1, <2>1, WFMin
<1>3. PICK i \in T : x = n - i
  BY <1>2
<1>4. ASSUME NEW j \in T PROVE j <= i
  <2>1. n - j \in U /\ x \in Nat /\ n - j \in Nat
    BY <1>1
  <2>2. ~ (n - j < x)
    BY <1>2, <2>1 DEF OpToRel
  <2> QED BY <1>3, <2>1, <2>2
<1> QED BY <1>4

SourceTexts == {args[i].value : i \in DOMAIN args} \cup {args[i].text : i \in DOMAIN args}
               \cup {env.value, file.value}

Sourced == args \in ArgLists /\ env \in Settings /\ file \in Settings

LEMMA SourcesAre ==
  ASSUME Sourced
  PROVE  /\ DOMAIN args = 1..Len(args) /\ Len(args) \in Nat
         /\ \A i \in DOMAIN args : IsName(args[i].key)
         /\ IsName(env.name) /\ IsName(file.name)
         /\ \A t \in SourceTexts : IsText(t)
<1>1. args \in Seq(Range(args))
  BY StartupAssumption DEF Sourced
<1>2. DOMAIN args = 1..Len(args) /\ Len(args) \in Nat
  BY <1>1, LenProperties
<1> QED BY <1>2, StartupAssumption DEF Sourced, SourceTexts

(* NewCommandLineSource *)
LEMMA CommandLineSays ==
  ASSUME Sourced, NEW name
  PROVE  /\ CommandLine(name) \in Seq(SourceTexts)
         /\ CommandLine(name) # <<>> => \E i \in DOMAIN args : args[i].key = name
         /\ \A i \in DOMAIN args :
               /\ ~args[i].alone /\ args[i].key = name
               /\ \A j \in DOMAIN args : args[j].key = name => j = i
               => CommandLine(name) = <<args[i].value>>
<1> DEFINE says(i) == args[i].key = name /\ (args[i].alone => i < Len(args))
           ends(i) == says(i) /\ \A j \in (i + 1)..Len(args) : ~says(j)
           c == CHOOSE i \in DOMAIN args : ends(i)
<1>1. DOMAIN args = 1..Len(args) /\ Len(args) \in Nat
  BY SourcesAre
<1>2. CASE \E i \in DOMAIN args : says(i)
  <2>1. CommandLine(name) = <<IF args[c].alone THEN args[c + 1].text ELSE args[c].value>>
    BY <1>2 DEF CommandLine
  <2>2. \E i \in DOMAIN args : ends(i)
    <3> DEFINE T == {i \in DOMAIN args : says(i)}
    <3>1. T \in SUBSET (1..Len(args)) /\ T # {}
      BY <1>1, <1>2
    <3>2. PICK i \in T : \A j \in T : j <= i
      BY <1>1, <3>1, LastIndex
    <3>3. ASSUME NEW j \in (i + 1)..Len(args) PROVE ~says(j)
      <4>1. i \in 1..Len(args) /\ j \in 1..Len(args) /\ ~(j <= i)
        BY <1>1, <3>1
      <4> QED BY <1>1, <3>2, <4>1
    <3> QED BY <3>2, <3>3
  <2>3. c \in DOMAIN args /\ ends(c)
    BY <2>2
  <2> HIDE DEF c
  <2>4. args[c].key = name /\ (args[c].alone => c + 1 \in DOMAIN args)
    BY <1>1, <2>3
  <2>5. (IF args[c].alone THEN args[c + 1].text ELSE args[c].value) \in SourceTexts
    BY <2>3, <2>4 DEF SourceTexts
  <2>6. ASSUME NEW i \in DOMAIN args, ~args[i].alone, \A j \in DOMAIN args : args[j].key = name => j = i
        PROVE  CommandLine(name) = <<args[i].value>>
    <3>1. c = i
      BY <2>3, <2>4, <2>6
    <3> QED BY <2>1, <2>6, <3>1
  <2> HIDE DEF ends
  <2> QED BY <2>1, <2>3, <2>4, <2>5, <2>6
<1>3. CASE ~\E i \in DOMAIN args : says(i)
  <2>1. CommandLine(name) = <<>>
    BY <1>3 DEF CommandLine
  <2> QED BY <1>3, <2>1
<1> QED BY <1>2, <1>3

LEMMA SettingsSay ==
  ASSUME Sourced, NEW name
  PROVE  /\ Environment(name) \in Seq(SourceTexts) /\ FileEntry(name) \in Seq(SourceTexts)
         /\ Environment(name) = IF env.name = name /\ env.value # EmptyText THEN <<env.value>> ELSE <<>>
         /\ FileEntry(name) = IF file.name = name THEN <<file.value>> ELSE <<>>
<1>1. env.value \in SourceTexts /\ file.value \in SourceTexts
  BY DEF SourceTexts
<1>2. \A v \in SourceTexts : <<v>> \in Seq(SourceTexts)
  OBVIOUS
<1>3. <<>> \in Seq(SourceTexts)
  OBVIOUS
<1> QED BY <1>1, <1>2, <1>3, Zenon DEF Environment, FileEntry

LEMMA HeadOfTwo ==
  ASSUME NEW S, NEW a \in Seq(S), NEW b \in Seq(S)
  PROVE  /\ a \o b \in Seq(S)
         /\ a \o b = <<>> <=> a = <<>> /\ b = <<>>
         /\ a = <<>> => a \o b = b
         /\ a # <<>> => Head(a \o b) = Head(a)
         /\ a \o b # <<>> => Head(a \o b) \in S
<1>1. a \o b \in Seq(S)
  BY ConcatProperties
<1>2. a \o b = <<>> <=> a = <<>> /\ b = <<>>
  BY ConcatEqualIffEmpty
<1>3. a = <<>> => a \o b = b
  BY ConcatEmptySeq
<1>4. ASSUME a # <<>> PROVE Head(a \o b) = Head(a)
  <2>1. Len(a) \in Nat /\ Len(a) > 0 /\ Len(b) \in Nat
    BY <1>4, EmptySeq, LenProperties
  <2>2. (a \o b)[1] = a[1]
    <3>1. \A i \in 1..(Len(a) + Len(b)) : (a \o b)[i] = IF i <= Len(a) THEN a[i] ELSE b[i - Len(a)]
      BY ConcatProperties
    <3>2. 1 \in 1..(Len(a) + Len(b)) /\ 1 <= Len(a)
      BY <2>1
    <3> QED BY <3>1, <3>2
  <2> QED BY <1>1, <1>2, <1>4, <2>2
<1>5. a \o b # <<>> => Head(a \o b) \in S
  BY <1>1, HeadTailProperties
<1> QED BY <1>1, <1>2, <1>3, <1>4, <1>5

(* The values under the three names of an item. *)
LEMMA ThreeNames ==
  ASSUME NEW S, NEW x \in Seq(S), NEW y \in Seq(S), NEW z \in Seq(S)
  PROVE  /\ x \o y \o z \in Seq(S)
         /\ x \o y \o z = <<>> <=> x = <<>> /\ y = <<>> /\ z = <<>>
         /\ \A v : /\ x \in {<<>>, <<v>>} /\ y \in {<<>>, <<v>>} /\ z \in {<<>>, <<v>>}
                   /\ x \o y \o z # <<>>
                   => Head(x \o y \o z) = v
<1>1. x \o y \in Seq(S) /\ (x \o y = <<>> <=> x = <<>> /\ y = <<>>)
  BY HeadOfTwo
<1>2. x \o y \o z \in Seq(S) /\ (x \o y \o z = <<>> <=> x \o y = <<>> /\ z = <<>>)
  BY <1>1, HeadOfTwo
<1>3. ASSUME NEW v, x \in {<<>>, <<v>>}, y \in {<<>>, <<v>>}, z \in {<<>>, <<v>>}, x \o y \o z # <<>>
      PROVE  Head(x \o y \o z) = v
  <2>1. Head(<<v>>) = v
    OBVIOUS
  <2>2. CASE x # <<>>
    <3>1. Head(x \o y) = v /\ x \o y # <<>>
      BY <1>1, <1>3, <2>1, <2>2, HeadOfTwo
    <3> QED BY <1>1, <3>1, HeadOfTwo
  <2>3. CASE x = <<>> /\ y # <<>>
    <3>1. Head(x \o y) = v /\ x \o y # <<>>
      BY <1>1, <1>3, <2>1, <2>3, HeadOfTwo
    <3> QED BY <1>1, <3>1, HeadOfTwo
  <2>4. CASE x = <<>> /\ y = <<>>
    <3>1. x \o y = <<>>
      BY <1>1, <2>4
    <3>2. (x \o y) \o z = z
      BY <1>1, <3>1, HeadOfTwo
    <3> QED BY <1>3, <2>1, <3>2
  <2> QED BY <2>2, <2>3, <2>4
<1> QED BY <1>1, <1>2, <1>3

LEMMA FourNames ==
  ASSUME NEW S, NEW x \in Seq(S), NEW y \in Seq(S), NEW z \in Seq(S), NEW w \in Seq(S)
  PROVE  /\ x \o y \o z \o w \in Seq(S)
         /\ x \o y \o z \o w = <<>> <=> x = <<>> /\ y = <<>> /\ z = <<>> /\ w = <<>>
         /\ \A v : /\ x \in {<<>>, <<v>>} /\ y \in {<<>>, <<v>>} /\ z \in {<<>>, <<v>>} /\ w \in {<<>>, <<v>>}
                   /\ x \o y \o z \o w # <<>>
                   => Head(x \o y \o z \o w) = v
<1> DEFINE t == x \o y \o z
<1>1. t \in Seq(S) /\ (t = <<>> <=> x = <<>> /\ y = <<>> /\ z = <<>>)
  BY ThreeNames
<1>2. \A v : /\ x \in {<<>>, <<v>>} /\ y \in {<<>>, <<v>>} /\ z \in {<<>>, <<v>>}
              /\ t # <<>>
              => Head(t) = v
  BY ThreeNames
<1> HIDE DEF t
<1>3. /\ t \o w \in Seq(S) /\ (t \o w = <<>> <=> t = <<>> /\ w = <<>>)
      /\ t = <<>> => t \o w = w
      /\ t # <<>> => Head(t \o w) = Head(t)
  BY <1>1, HeadOfTwo
<1>4. ASSUME NEW v, x \in {<<>>, <<v>>}, y \in {<<>>, <<v>>}, z \in {<<>>, <<v>>}, w \in {<<>>, <<v>>},
             t \o w # <<>>
      PROVE  Head(t \o w) = v
  <2>1. Head(<<v>>) = v
    OBVIOUS
  <2>2. CASE t # <<>>
    <3>1. Head(t \o w) = Head(t)
      BY <1>3, <2>2
    <3>2. Head(t) = v
      BY <1>2, <1>4, <2>2, Zenon
    <3> QED BY <3>1, <3>2
  <2>3. CASE t = <<>>
    <3>1. t \o w = w
      BY <1>3, <2>3
    <3>2. w = <<v>>
      BY <1>4, <3>1, Zenon
    <3> QED BY <2>1, <3>1, <3>2
  <2> QED BY <2>2, <2>3
<1>5. t \o w \in Seq(S) /\ (t \o w = <<>> <=> x = <<>> /\ y = <<>> /\ z = <<>> /\ w = <<>>)
  BY <1>1, <1>3
<1> QED BY <1>4, <1>5 DEF t

(* Find, source by source. *)
ByArgs(item) == CommandLine(<<item.name, "plain">>) \o CommandLine(<<item.name, "dashed">>)
                \o CommandLine(<<item.name, "short">>) \o CommandLine(<<item.name, "variable">>)
ByEnvironment(item) == Environment(<<item.name, "plain">>) \o Environment(<<item.name, "dashed">>)
                       \o Environment(<<item.name, "short">>) \o Environment(<<item.name, "variable">>)
ByFile(item) == FileEntry(<<item.name, "plain">>) \o FileEntry(<<item.name, "dashed">>)
                \o FileEntry(<<item.name, "short">>) \o FileEntry(<<item.name, "variable">>)

ArgsOf(n) == {i \in DOMAIN args : args[i].key[1] = n}

LEMMA FindIs ==
  ASSUME NEW item
  PROVE  Find(item) = ByArgs(item) \o ByEnvironment(item) \o ByFile(item)
<1>1. /\ PossibleNames(item)[1] = <<item.name, "plain">>
      /\ PossibleNames(item)[2] = <<item.name, "dashed">>
      /\ PossibleNames(item)[3] = <<item.name, "short">>
      /\ PossibleNames(item)[4] = <<item.name, "variable">>
  BY DEF PossibleNames, Spellings
<1> QED BY <1>1, Zenon DEF Find, ByArgs, ByEnvironment, ByFile

(* A name of an item has one of four spellings. *)
LEMMA NameSpelt ==
  ASSUME NEW k, IsName(k), NEW n
  PROVE  k[1] = n <=> k \in {<<n, "plain">>, <<n, "dashed">>, <<n, "short">>, <<n, "variable">>}
<1>1. PICK a, b : k = <<a, b>> /\ b \in {"plain", "dashed", "short", "variable"} /\ k[1] = a
  BY DEF IsName
<1> QED BY <1>1

LEMMA ArgsSay ==
  ASSUME Sourced, NEW item
  PROVE  /\ ByArgs(item) \in Seq(SourceTexts)
         /\ ByArgs(item) # <<>> => ArgsOf(item.name) # {}
         /\ \A i \in DOMAIN args : ~args[i].alone /\ ArgsOf(item.name) = {i}
               => ByArgs(item) # <<>> /\ Head(ByArgs(item)) = args[i].value
<1> DEFINE n == item.name
           x == CommandLine(<<n, "plain">>)
           y == CommandLine(<<n, "dashed">>)
           z == CommandLine(<<n, "short">>)
           w == CommandLine(<<n, "variable">>)
<1>1. x \in Seq(SourceTexts) /\ y \in Seq(SourceTexts) /\ z \in Seq(SourceTexts) /\ w \in Seq(SourceTexts)
  BY CommandLineSays
<1>2. \A s \in {"plain", "dashed", "short", "variable"} :
         CommandLine(<<n, s>>) # <<>> => \E i \in DOMAIN args : args[i].key = <<n, s>>
  BY CommandLineSays
<1>3. \A s, i : args[i].key = <<n, s>> => args[i].key[1] = n
  OBVIOUS
<1>4. x # <<>> \/ y # <<>> \/ z # <<>> \/ w # <<>> => ArgsOf(n) # {}
  BY <1>2, <1>3 DEF ArgsOf
<1>5. ASSUME NEW i \in DOMAIN args, ~args[i].alone, ArgsOf(n) = {i}
      PROVE  /\ x \in {<<>>, <<args[i].value>>} /\ y \in {<<>>, <<args[i].value>>}
             /\ z \in {<<>>, <<args[i].value>>} /\ w \in {<<>>, <<args[i].value>>}
             /\ x # <<>> \/ y # <<>> \/ z # <<>> \/ w # <<>>
  <2>1. ASSUME NEW s, args[i].key = <<n, s>> PROVE CommandLine(<<n, s>>) = <<args[i].value>>
    <3>1. \A j \in DOMAIN args : args[j].key = <<n, s>> => j = i
      BY <1>3, <1>5 DEF ArgsOf
    <3> QED BY <1>5, <2>1, <3>1, CommandLineSays
  <2>2. ASSUME NEW s, args[i].key # <<n, s>> PROVE CommandLine(<<n, s>>) = <<>>
    <3>1. \A j \in DOMAIN args : args[j].key # <<n, s>>
      BY <1>3, <1>5, <2>2 DEF ArgsOf
    <3> QED BY <3>1, CommandLineSays
  <2>3. args[i].key \in {<<n, "plain">>, <<n, "dashed">>, <<n, "short">>, <<n, "variable">>}
    <3>1. IsName(args[i].key) /\ args[i].key[1] = n
      BY <1>5, SourcesAre DEF ArgsOf
    <3> QED BY <3>1, NameSpelt
  <2>4. <<args[i].value>> # <<>>
    OBVIOUS
  <2> QED BY <2>1, <2>2, <2>3, <2>4
<1>6. ByArgs(item) = x \o y \o z \o w
  BY DEF ByArgs
<1> HIDE DEF x, y, z, w, n
<1>7. x \o y \o z \o w \in Seq(SourceTexts) /\ (x \o y \o z \o w = <<>> <=> x = <<>> /\ y = <<>> /\ z = <<>> /\ w = <<>>)
  BY <1>1, FourNames
<1>8. ASSUME NEW i \in DOMAIN args, ~args[i].alone, ArgsOf(n) = {i}
      PROVE  x \o y \o z \o w # <<>> /\ Head(x \o y \o z \o w) = args[i].value
  BY <1>1, <1>5, <1>7, <1>8, FourNames
<1> QED BY <1>4, <1>6, <1>7, <1>8 DEF n

LEMMA EnvironmentSays ==
  ASSUME Sourced, NEW item
  PROVE  /\ ByEnvironment(item) \in Seq(SourceTexts)
         /\ ByEnvironment(item) # <<>> <=> env.name[1] = item.name /\ env.value # EmptyText
         /\ ByEnvironment(item) # <<>> => Head(ByEnvironment(item)) = env.value
<1> DEFINE n == item.name
           v == env.value
           x == Environment(<<n, "plain">>)
           y == Environment(<<n, "dashed">>)
           z == Environment(<<n, "short">>)
           w == Environment(<<n, "variable">>)
<1>1. x \in Seq(SourceTexts) /\ y \in Seq(SourceTexts) /\ z \in Seq(SourceTexts) /\ w \in Seq(SourceTexts)
  BY SettingsSay
<1>2. \A s \in {"plain", "dashed", "short", "variable"} :
         Environment(<<n, s>>) = IF env.name = <<n, s>> /\ v # EmptyText THEN <<v>> ELSE <<>>
  BY SettingsSay
<1>3. <<v>> # <<>>
  OBVIOUS
<1>4. env.name[1] = n <=> env.name \in {<<n, "plain">>, <<n, "dashed">>, <<n, "short">>, <<n, "variable">>}
  BY SourcesAre, NameSpelt
<1>5. x \in {<<>>, <<v>>} /\ y \in {<<>>, <<v>>} /\ z \in {<<>>, <<v>>} /\ w \in {<<>>, <<v>>}
  BY <1>2
<1>6. (x # <<>> \/ y # <<>> \/ z # <<>> \/ w # <<>>) <=> env.name[1] = n /\ v # EmptyText
  BY <1>2, <1>3, <1>4
<1>7. ByEnvironment(item) = x \o y \o z \o w
  BY DEF ByEnvironment
<1> HIDE DEF x, y, z, w, n, v
<1>8. /\ x \o y \o z \o w \in Seq(SourceTexts) /\ (x \o y \o z \o w = <<>> <=> x = <<>> /\ y = <<>> /\ z = <<>> /\ w = <<>>)
      /\ x \o y \o z \o w # <<>> => Head(x \o y \o z \o w) = v
  BY <1>1, <1>5, FourNames
<1> QED BY <1>6, <1>7, <1>8 DEF n, v

LEMMA FileSays ==
  ASSUME Sourced, NEW item
  PROVE  /\ ByFile(item) \in Seq(SourceTexts)
         /\ ByFile(item) # <<>> <=> file.name[1] = item.name
         /\ ByFile(item) # <<>> => Head(ByFile(item)) = file.value
<1> DEFINE n == item.name
           v == file.value
           x == FileEntry(<<n, "plain">>)
           y == FileEntry(<<n, "dashed">>)
           z == FileEntry(<<n, "short">>)
           w == FileEntry(<<n, "variable">>)
<1>1. x \in Seq(SourceTexts) /\ y \in Seq(SourceTexts) /\ z \in Seq(SourceTexts) /\ w \in Seq(SourceTexts)
  BY SettingsSay
<1>2. \A s \in {"plain", "dashed", "short", "variable"} :
         FileEntry(<<n, s>>) = IF file.name = <<n, s>> THEN <<v>> ELSE <<>>
  BY SettingsSay
<1>3. <<v>> # <<>>
  OBVIOUS
<1>4. file.name[1] = n <=> file.name \in {<<n, "plain">>, <<n, "dashed">>, <<n, "short">>, <<n, "variable">>}
  BY SourcesAre, NameSpelt
<1>5. x \in {<<>>, <<v>>} /\ y \in {<<>>, <<v>>} /\ z \in {<<>>, <<v>>} /\ w \in {<<>>, <<v>>}
  BY <1>2
<1>6. (x # <<>> \/ y # <<>> \/ z # <<>> \/ w # <<>>) <=> file.name[1] = n
  BY <1>2, <1>3, <1>4
<1>7. ByFile(item) = x \o y \o z \o w
  BY DEF ByFile
<1> HIDE DEF x, y, z, w, n, v
<1>8. /\ x \o y \o z \o w \in Seq(SourceTexts) /\ (x \o y \o z \o w = <<>> <=> x = <<>> /\ y = <<>> /\ z = <<>> /\ w = <<>>)
      /\ x \o y \o z \o w # <<>> => Head(x \o y \o z \o w) = v
  BY <1>1, <1>5, FourNames
<1> QED BY <1>6, <1>7, <1>8 DEF n, v

(* Find: the strongest source that knows the item. *)
LEMMA FindSays ==
  ASSUME Sourced, NEW item
  PROVE  /\ Find(item) # <<>> => Head(Find(item)) \in SourceTexts
         /\ Find(item) = <<>> <=> ByArgs(item) = <<>> /\ ByEnvironment(item) = <<>> /\ ByFile(item) = <<>>
         /\ ByArgs(item) # <<>> => Head(Find(item)) = Head(ByArgs(item))
         /\ ByArgs(item) = <<>> /\ ByEnvironment(item) # <<>> => Head(Find(item)) = Head(ByEnvironment(item))
         /\ ByArgs(item) = <<>> /\ ByEnvironment(item) = <<>> => Find(item) = ByFile(item)
<1> DEFINE a == ByArgs(item)
           e == ByEnvironment(item)
           f == ByFile(item)
<1>1. a \in Seq(SourceTexts) /\ e \in Seq(SourceTexts) /\ f \in Seq(SourceTexts)
  BY ArgsSay, EnvironmentSays, FileSays
<1>2. Find(item) = (a \o e) \o f
  BY FindIs
<1> HIDE DEF a, e, f
<1>3. /\ a \o e \in Seq(SourceTexts) /\ (a \o e = <<>> <=> a = <<>> /\ e = <<>>)
      /\ a = <<>> => a \o e = e
      /\ a # <<>> => Head(a \o e) = Head(a)
  BY <1>1, HeadOfTwo
<1>4. /\ (a \o e) \o f = <<>> <=> a \o e = <<>> /\ f = <<>>
      /\ a \o e = <<>> => (a \o e) \o f = f
      /\ a \o e # <<>> => Head((a \o e) \o f) = Head(a \o e)
      /\ (a \o e) \o f # <<>> => Head((a \o e) \o f) \in SourceTexts
  BY <1>1, <1>3, HeadOfTwo
<1>5. /\ Find(item) # <<>> => Head(Find(item)) \in SourceTexts
      /\ Find(item) = <<>> <=> a = <<>> /\ e = <<>> /\ f = <<>>
      /\ a # <<>> => Head(Find(item)) = Head(a)
      /\ a = <<>> /\ e # <<>> => Head(Find(item)) = Head(e)
      /\ a = <<>> /\ e = <<>> => Find(item) = f
  BY <1>2, <1>3, <1>4, Zenon
<1> QED BY <1>5 DEF a, e, f

(* The validation functions, one by one. *)
LEMMA ValidIs ==
  /\ \A t : Valid("size", t) <=> IsNum(t)
  /\ \A t : Valid("port", t) <=> IsNum(t) /\ IsPort(t.num)
  /\ \A t : Valid("interval", t) <=> IsNum(t) /\ t.num >= 0
  /\ \A t : Valid("positive", t) <=> IsNum(t) /\ t.num >= 1
  /\ \A t : Valid("level", t) <=> t \in LevelTexts
  /\ \A t : Valid("free", t)
  BY DEF Valid

Kinds == {"size", "port", "interval", "positive", "level", "free"}

(* applyPlaceHolders leaves no placeholder and makes no text valid, or not valid. *)
LEMMA Expands ==
  ASSUME NEW t, IsText(t)
  PROVE  /\ IsText(Expand(t)) /\ Expand(t) # Word("%SUGGESTED_DATA_DIRECTORY%")
         /\ IsNum(t) => Expand(t) = t
         /\ \A kind \in Kinds : Valid(kind, Expand(t)) <=> Valid(kind, t)
<1>1. DOMAIN PlaceHolders = {"%APP_DIR%", "%PROJECT_DIR%", "%SUGGESTED_DATA_DIRECTORY%"}
  BY DEF PlaceHolders
<1>2. \A w \in DOMAIN PlaceHolders : PlaceHolders[w] \in {"data", "app"}
  BY DEF PlaceHolders
<1>3. CASE ~IsNum(t) /\ t.word \in DOMAIN PlaceHolders
  <2>1. PICK w \in {"data", "app"} : Expand(t) = Word(w)
    BY <1>2, <1>3 DEF Expand
  <2>2. ~IsNum(Expand(t)) /\ Expand(t).word = w
    BY <2>1, TextsAre
  <2> DEFINE Dirs == {"%APP_DIR%", "%PROJECT_DIR%", "%SUGGESTED_DATA_DIRECTORY%", "data", "app"}
  <2>3. \A x \in Dirs : x \notin DOMAIN LevelMap
    <3>1. DOMAIN LevelMap = {"trace", "debug2", "debug", "info2", "info", "warning", "error", "critical"}
      BY DEF LevelMap
    <3> QED BY <3>1
  <2>4. \A u : ~IsNum(u) /\ u.word \in Dirs => u \notin LevelTexts
    <3> SUFFICES ASSUME NEW u, ~IsNum(u), u.word \in Dirs, u \in LevelTexts PROVE FALSE
      OBVIOUS
    <3>1. CASE u \in Fragments
      BY <3>1, StartupAssumption
    <3>2. CASE \E x \in DOMAIN LevelMap : u = Word(x)
      BY <2>3, <3>2, TextsAre
    <3> QED BY <3>1, <3>2, Zenon DEF LevelTexts
  <2>5. Expand(t) \notin LevelTexts /\ t \notin LevelTexts
    BY <1>1, <1>3, <2>1, <2>2, <2>4
  <2>6. IsText(Expand(t))
    BY <2>2 DEF IsText
  <2>7. Expand(t) # Word("%SUGGESTED_DATA_DIRECTORY%")
    BY <2>1, <2>2, TextsAre
  <2>8. \A kind \in Kinds : Valid(kind, Expand(t)) <=> Valid(kind, t)
    BY <1>3, <2>2, <2>5, ValidIs DEF Kinds
  <2> QED BY <1>3, <2>6, <2>7, <2>8
<1>4. CASE ~(~IsNum(t) /\ t.word \in DOMAIN PlaceHolders)
  <2>1. Expand(t) = t
    BY <1>4 DEF Expand
  <2>2. t # Word("%SUGGESTED_DATA_DIRECTORY%")
    BY <1>1, <1>4, TextsAre
  <2> QED BY <2>1, <2>2
<1> QED BY <1>3, <1>4

LEMMA Conversions ==
  ASSUME NEW t, IsText(t)
  PROVE  GetInt(t) \in Int /\ LevelOf(t) \in Int /\ GetBool(t) \in BOOLEAN
<1>1. GetInt(t) \in Int
  BY DEF GetInt, IsText
<1>2. \A w \in DOMAIN LevelMap : LevelMap[w] \in Int
  BY DEF LevelMap
<1> QED BY <1>1, <1>2 DEF LevelOf, GetBool

(* The values that the items of initConfigurations get. *)
LEMMA ResolveSays ==
  ASSUME Sourced, NEW j \in 1..18
  PROVE  /\ IsText(Items[j].default) /\ Items[j].kind \in Kinds
         /\ Valid(Items[j].kind, Items[j].default)
         /\ IsText(Resolve(Items[j]))
         /\ Valid(Items[j].kind, Resolve(Items[j]))
         /\ Resolve(Items[j]) # Word("%SUGGESTED_DATA_DIRECTORY%")
<1> DEFINE item == Items[j]
<1>1. IsText(item.default) /\ item.kind \in Kinds
  BY ItemsAre, TextsAre DEF Item, Kinds, IsText
<1>2. Valid(item.kind, item.default)
  <2>1. "info" \in DOMAIN LevelMap \ {"debug2"} /\ "info2" \in DOMAIN LevelMap \ {"debug2"}
    BY DEF LevelMap
  <2>2. Word("info") \in LevelTexts /\ Word("info2") \in LevelTexts
    BY <2>1, Zenon DEF LevelTexts
  <2>3. /\ Valid("level", Word("info")) /\ Valid("level", Word("info2"))
        /\ Valid("size", Num(52428800)) /\ Valid("port", Num(5024)) /\ Valid("port", Num(5025))
        /\ Valid("port", Num(5032)) /\ Valid("interval", Num(60000))
        /\ Valid("positive", Num(255)) /\ Valid("positive", Num(64)) /\ Valid("positive", Num(1048576))
    BY <2>2, ValidIs DEF IsPort, IsNum, Num, Word
  <2>4. \A t : Valid("free", t)
    BY ValidIs
  <2> QED BY ItemsAre, <2>3, <2>4 DEF Item
<1> HIDE DEF item
<1>3. CASE Find(item) # <<>> /\ Valid(item.kind, Expand(Head(Find(item))))
  <2>1. Resolve(item) = Expand(Head(Find(item)))
    BY <1>3 DEF Resolve
  <2>2. IsText(Head(Find(item)))
    BY <1>3, FindSays, SourcesAre
  <2> QED BY <1>1, <1>2, <1>3, <2>1, <2>2, Expands DEF item
<1>4. CASE ~(Find(item) # <<>> /\ Valid(item.kind, Expand(Head(Find(item)))))
  <2>1. Resolve(item) = Expand(item.default)
    BY <1>4 DEF Resolve
  <2> QED BY <1>1, <1>2, <2>1, Expands DEF item
<1> QED BY <1>3, <1>4

(* "false" is the default of allowRawDbAccess; a true value has a source. *)
LEMMA RawHasASource ==
  ASSUME Sourced, GetBool(Resolve(Items[18]))
  PROVE  \/ ArgsOf("allowRawDbAccess") # {}
         \/ env.name[1] = "allowRawDbAccess" \/ file.name[1] = "allowRawDbAccess"
<1> DEFINE item == Items[18]
<1>1. item.name = "allowRawDbAccess" /\ item.default = Word("false")
  BY ItemsAre DEF Item
<1> HIDE DEF item
<1>2. Expand(Word("false")) = Word("false")
  <2>1. ~("false" \in DOMAIN PlaceHolders)
    BY DEF PlaceHolders
  <2> QED BY <2>1, TextsAre DEF Expand
<1>3. ~GetBool(Word("false"))
  <2>1. \A u, v : Word(u) = Word(v) => u = v
    BY TextsAre
  <2>2. Word("false") # EmptyText
    BY <2>1, Zenon DEF EmptyText
  <2>3. Word("false") # Num(1)
    BY TextsAre
  <2>4. Word("false") # Word("true") /\ Word("false") # Word("yes") /\ Word("false") # Word("ok")
    BY <2>1
  <2> QED BY <2>2, <2>3, <2>4, Zenon DEF GetBool
<1>4. Find(item) # <<>>
  BY <1>1, <1>2, <1>3 DEF Resolve, item
<1> QED BY <1>1, <1>4, FindSays, ArgsSay, EnvironmentSays, FileSays

(* An item that exists is left as it is. *)
LEMMA MadeKeeps ==
  ASSUME NEW its, NEW names, names \subseteq DOMAIN its, NEW v
  PROVE  /\ DOMAIN Made(its, names, v) = DOMAIN its
         /\ \A n \in DOMAIN its : Made(its, names, v)[n] = its[n]
  BY DEF Made

(* What the items are: as many as main has declared, each with the value   *)
(* that the sources give it; no service starts before the last one.        *)
ItemsInv ==
  /\ Sourced
  /\ declared \in 0..18
  /\ (pc = "declares") => declared < 18
  /\ (pc # "declares") => declared = 18
  /\ DOMAIN items = {Items[j].name : j \in 1..declared}
  /\ \A j \in 1..declared : items[Items[j].name] = Resolve(Items[j])

LEMMA ResolveFixed ==
  ASSUME UNCHANGED <<args, env, file>>, NEW item
  PROVE  Resolve(item)' = Resolve(item)
  BY DEF Resolve, Find, CommandLine, Environment, FileEntry

ReadItems == {"maxLogFileSize", "fileLogLevel", "stdoutLogLevel", "serverDiscoveryPort",
              "maxTimeWaitingClient_seconds", "DbDirectory", "httpApiPort", "httpApiHttpsPort",
              "vstpApiPort", "RamCacheDbDumpIntervalMs", "maxKeyLength", "maxKeyWordLength",
              "maxValueSize", "allowRawDbAccess"}

(* Once all of them are declared, the services find what they read. *)
LEMMA ItemsThere ==
  ASSUME ItemsInv, pc # "declares"
  PROVE  /\ ReadItems \subseteq DOMAIN items
         /\ \A j \in 1..18 : Items[j].name \in DOMAIN items /\ items[Items[j].name] = Resolve(Items[j])
<1>1. DOMAIN items = {Items[j].name : j \in 1..18}
  BY DEF ItemsInv
<1>2. \A j \in 1..18 : items[Items[j].name] = Resolve(Items[j])
  BY DEF ItemsInv
<1>3. /\ Items[1].name = "maxLogFileSize" /\ Items[2].name = "fileLogLevel" /\ Items[3].name = "stdoutLogLevel"
      /\ Items[4].name = "serverDiscoveryPort" /\ Items[5].name = "maxTimeWaitingClient_seconds"
      /\ Items[6].name = "DbDirectory" /\ Items[8].name = "httpApiPort" /\ Items[9].name = "httpApiHttpsPort"
      /\ Items[13].name = "vstpApiPort" /\ Items[14].name = "RamCacheDbDumpIntervalMs"
      /\ Items[15].name = "maxKeyLength" /\ Items[16].name = "maxKeyWordLength"
      /\ Items[17].name = "maxValueSize" /\ Items[18].name = "allowRawDbAccess"
  BY ItemsAre DEF Item
<1>4. \A j \in 1..18 : Items[j].name \in DOMAIN items
  BY <1>1
<1>5. /\ Items[1].name \in DOMAIN items /\ Items[2].name \in DOMAIN items /\ Items[3].name \in DOMAIN items
      /\ Items[4].name \in DOMAIN items /\ Items[5].name \in DOMAIN items /\ Items[6].name \in DOMAIN items
      /\ Items[8].name \in DOMAIN items /\ Items[9].name \in DOMAIN items /\ Items[13].name \in DOMAIN items
      /\ Items[14].name \in DOMAIN items /\ Items[15].name \in DOMAIN items /\ Items[16].name \in DOMAIN items
      /\ Items[17].name \in DOMAIN items /\ Items[18].name \in DOMAIN items
  BY <1>4
<1>6. ReadItems \subseteq DOMAIN items
  BY <1>3, <1>5, Zenon DEF ReadItems
<1> QED BY <1>2, <1>4, <1>6

(* A service that starts finds the items, with the values of the sources. *)
LEMMA ServiceReads ==
  ASSUME ItemsInv, NEW step, NEW names, NEW next, step # "declares", next # "declares",
         names \subseteq ReadItems, Starts(step, names, next)
  PROVE  /\ ItemsInv' /\ pc = step /\ pc' = next /\ Sourced /\ UNCHANGED <<args, env, file>>
         /\ \A j \in 1..18 : items'[Items[j].name] = Resolve(Items[j])
<1>1. /\ pc = step /\ pc' = next /\ UNCHANGED <<args, env, file, declared>>
      /\ items' = Made(items, names, EmptyText)
  BY DEF Starts, MovesTo, GetConfig
<1>2. /\ ReadItems \subseteq DOMAIN items
      /\ \A j \in 1..18 : Items[j].name \in DOMAIN items /\ items[Items[j].name] = Resolve(Items[j])
  BY <1>1, ItemsThere
<1>3. names \subseteq DOMAIN items
  BY <1>2
<1>4. DOMAIN items' = DOMAIN items /\ \A n \in DOMAIN items : items'[n] = items[n]
  BY <1>1, <1>3, MadeKeeps
<1>5. \A j \in 1..18 : items'[Items[j].name] = Resolve(Items[j])
  BY <1>2, <1>4
<1>6. \A j \in 1..18 : Resolve(Items[j])' = Resolve(Items[j])
  BY <1>1, ResolveFixed
<1>7. declared = 18
  BY <1>1 DEF ItemsInv
<1>8. ItemsInv'
  <2>1. Sourced'
    BY <1>1 DEF ItemsInv, Sourced
  <2>2. declared' = 18
    BY <1>1, <1>7
  <2>3. DOMAIN items' = {Items[j].name : j \in 1..declared'}
    BY <1>1, <1>4 DEF ItemsInv
  <2>4. \A j \in 1..declared' : items'[Items[j].name] = Resolve(Items[j])'
    BY <1>5, <1>6, <2>2
  <2> QED BY <1>1, <2>1, <2>2, <2>3, <2>4 DEF ItemsInv
<1> QED BY <1>1, <1>5, <1>8 DEF ItemsInv

LEMMA ItemsKept ==
  ASSUME ItemsInv, UNCHANGED <<args, env, file, declared, items>>,
         (pc' = "declares") <=> (pc = "declares")
  PROVE  ItemsInv'
<1>1. Sourced'
  BY DEF ItemsInv, Sourced
<1>2. \A j \in 1..declared : Resolve(Items[j])' = Resolve(Items[j])
  BY ResolveFixed
<1> QED BY <1>1, <1>2 DEF ItemsInv

LEMMA ItemsDeclared ==
  ASSUME ItemsInv, DeclareNext
  PROVE  ItemsInv'
<1>1. /\ pc = "declares" /\ declared' = declared + 1 /\ items' = Made(items, {Items[declared'].name}, Resolve(Items[declared']))
      /\ pc' = (IF declared' = 18 THEN "logger" ELSE "declares")
      /\ UNCHANGED <<args, env, file, server>>
  BY ItemsAre DEF DeclareNext, Declare, MovesTo
<1>2. declared \in 0..18 /\ declared < 18
  BY <1>1 DEF ItemsInv
<1>3. PICK d \in 1..18 : declared' = d /\ declared = d - 1
  BY <1>1, <1>2
<1>4. DOMAIN items = {Items[j].name : j \in 1..(d - 1)}
  BY <1>3 DEF ItemsInv
<1>5. items' = Made(items, {Items[d].name}, Resolve(Items[d]))
  BY <1>1, <1>3
<1>6. \A j \in 1..(d - 1) : Items[j].name # Items[d].name
  BY ItemsAre, NamesDiffer
<1>7. DOMAIN items' = DOMAIN items \cup {Items[d].name}
  BY <1>5 DEF Made
<1>8. \A n \in DOMAIN items : items'[n] = items[n]
  BY <1>5 DEF Made
<1>9. items'[Items[d].name] = Resolve(Items[d])
  <2>1. Items[d].name \notin DOMAIN items
    BY <1>4, <1>6
  <2> QED BY <1>5, <2>1 DEF Made
<1>10. \A j \in 1..(d - 1) : items'[Items[j].name] = Resolve(Items[j])
  <2>1. \A j \in 1..(d - 1) : items[Items[j].name] = Resolve(Items[j])
    BY <1>3 DEF ItemsInv
  <2> QED BY <1>4, <1>8, <2>1
<1>11. \A j \in 1..d : j = d \/ j \in 1..(d - 1)
  OBVIOUS
<1>a. \A j \in 1..(d - 1) : j \in 1..d
  OBVIOUS
<1>12. \A j \in 1..d : items'[Items[j].name] = Resolve(Items[j])
  BY <1>9, <1>10, <1>11
<1>13. DOMAIN items' = {Items[j].name : j \in 1..d}
  <2>1. d \in 1..d
    OBVIOUS
  <2> QED BY <1>4, <1>7, <1>11, <1>a, <2>1
<1>14. \A j \in 1..d : Resolve(Items[j])' = Resolve(Items[j])
  BY <1>1, ResolveFixed
<1>15. Sourced'
  BY <1>1 DEF ItemsInv, Sourced
<1>16. d = 18 <=> pc' # "declares"
  BY <1>1, <1>3
<1>17. declared' \in 0..18 /\ (pc' = "declares" => declared' < 18) /\ (pc' # "declares" => declared' = 18)
  BY <1>3, <1>16
<1>18. \A j \in 1..declared' : items'[Items[j].name] = Resolve(Items[j])'
  BY <1>3, <1>12, <1>14
<1>19. DOMAIN items' = {Items[j].name : j \in 1..declared'}
  BY <1>3, <1>13
<1> QED BY <1>15, <1>17, <1>18, <1>19 DEF ItemsInv

(* What the services have read by the time that main is at a step. *)
ServerType ==
  server \in [level : Int, interval : Int, wait : Int, keyLength : Int, keyWordLength : Int,
              valueSize : Int, raw : BOOLEAN, vstpPort : Int, httpPort : Int]

HasHttp == pc \in {"serves", "signalled"}
HasVstp == HasHttp \/ pc = "http"
HasController == HasVstp \/ pc = "vstp"
HasStorage == HasController \/ pc = "controller"

ServerInv ==
  /\ ServerType
  /\ server.raw => GetBool(Resolve(Items[18]))
  /\ HasStorage => server.interval > 0
  /\ HasController => /\ server.wait > 0
                      /\ server.keyLength = GetInt(Resolve(Items[15]))
                      /\ server.keyWordLength = GetInt(Resolve(Items[16]))
                      /\ server.valueSize = GetInt(Resolve(Items[17]))
  /\ HasVstp => server.vstpPort = GetInt(Resolve(Items[13]))
  /\ HasHttp => server.httpPort = GetInt(Resolve(Items[8]))

StartupInv == ItemsInv /\ ServerInv

LEMMA ItemTexts ==
  ASSUME Sourced
  PROVE  \A j \in 1..18 : /\ GetInt(Resolve(Items[j])) \in Int /\ LevelOf(Resolve(Items[j])) \in Int
                          /\ GetBool(Resolve(Items[j])) \in BOOLEAN
  BY ResolveSays, Conversions

LEMMA StartupInitInv == StartupInit => StartupInv
<1> SUFFICES ASSUME StartupInit PROVE StartupInv
  OBVIOUS
<1>1. ItemsInv
  <2>1. DOMAIN items = {}
    BY DEF StartupInit
  <2> QED BY <2>1 DEF StartupInit, ItemsInv, Sourced
<1>2. ServerInv
  BY DEF StartupInit, ServerInv, ServerType, NotRead, HasHttp, HasVstp, HasController, HasStorage
<1> QED BY <1>1, <1>2 DEF StartupInv

(* ServerInv when the settings are left alone: no step may be gained that  *)
(* reads some.                                                             *)
LEMMA ServerKept ==
  ASSUME ServerInv, UNCHANGED <<args, env, file, server>>,
         HasStorage' => HasStorage, HasController' => HasController,
         HasVstp' => HasVstp, HasHttp' => HasHttp
  PROVE  ServerInv'
<1>1. \A j \in 1..18 : Resolve(Items[j])' = Resolve(Items[j])
  BY ResolveFixed
<1>2. ServerType'
  BY DEF ServerInv, ServerType
<1>3. server'.raw => GetBool(Resolve(Items[18])')
  BY <1>1 DEF ServerInv
<1>4. HasStorage' => server'.interval > 0
  BY <1>1 DEF ServerInv
<1>5. HasController' => /\ server'.wait > 0
                        /\ server'.keyLength = GetInt(Resolve(Items[15])')
                        /\ server'.keyWordLength = GetInt(Resolve(Items[16])')
                        /\ server'.valueSize = GetInt(Resolve(Items[17])')
  BY <1>1 DEF ServerInv
<1>6. HasVstp' => server'.vstpPort = GetInt(Resolve(Items[13])')
  BY <1>1 DEF ServerInv
<1>7. HasHttp' => server'.httpPort = GetInt(Resolve(Items[8])')
  BY <1>1 DEF ServerInv
<1> QED BY <1>2, <1>3, <1>4, <1>5, <1>6, <1>7 DEF ServerInv

LEMMA ReadNames ==
  /\ Items[3].name = "stdoutLogLevel" /\ Items[5].name = "maxTimeWaitingClient_seconds"
  /\ Items[6].name = "DbDirectory"
  /\ Items[8].name = "httpApiPort" /\ Items[13].name = "vstpApiPort"
  /\ Items[14].name = "RamCacheDbDumpIntervalMs" /\ Items[15].name = "maxKeyLength"
  /\ Items[16].name = "maxKeyWordLength" /\ Items[17].name = "maxValueSize"
  /\ Items[18].name = "allowRawDbAccess"
  BY ItemsAre DEF Item

LEMMA LoggerStep ==
  ASSUME StartupInv, InitLogger
  PROVE  StartupInv'
<1> DEFINE names == {"fileLogLevel", "stdoutLogLevel", "maxLogFileSize"}
<1>1. PICK next \in {"arguments", "ended"} : Starts("logger", names, next)
  BY DEF InitLogger
<1>2. names \subseteq ReadItems
  BY DEF ReadItems
<1> HIDE DEF names
<1>3. /\ ItemsInv' /\ pc = "logger" /\ pc' = next /\ Sourced /\ UNCHANGED <<args, env, file>>
      /\ \A j \in 1..18 : items'[Items[j].name] = Resolve(Items[j])
  BY <1>1, <1>2, ServiceReads DEF StartupInv
<1>4. items'["stdoutLogLevel"] = Resolve(Items[3])
  BY <1>3, ReadNames
<1>5. server' = [server EXCEPT !.level = LevelOf(Resolve(Items[3]))] /\ LevelOf(Resolve(Items[3])) \in Int
  BY <1>3, <1>4, ItemTexts DEF InitLogger
<1>6. ServerType' /\ server'.raw = server.raw
  BY <1>5 DEF StartupInv, ServerInv, ServerType
<1>7. Resolve(Items[18])' = Resolve(Items[18])
  BY <1>3, ResolveFixed
<1>8. ServerInv'
  <2>1. ~HasStorage' /\ ~HasController' /\ ~HasVstp' /\ ~HasHttp'
    BY <1>3 DEF HasHttp, HasVstp, HasController, HasStorage
  <2>2. server.raw => GetBool(Resolve(Items[18]))
    BY DEF StartupInv, ServerInv
  <2> QED BY <1>6, <1>7, <2>1, <2>2 DEF ServerInv
<1> QED BY <1>3, <1>8 DEF StartupInv

LEMMA StorageStep ==
  ASSUME StartupInv, InitStorage
  PROVE  StartupInv'
<1> DEFINE names == {"DbDirectory", "RamCacheDbDumpIntervalMs"}
<1>1. Starts("storage", names, "controller")
  BY DEF InitStorage
<1>2. names \subseteq ReadItems
  BY DEF ReadItems
<1> HIDE DEF names
<1>3. /\ ItemsInv' /\ pc = "storage" /\ pc' = "controller" /\ Sourced /\ UNCHANGED <<args, env, file>>
      /\ \A j \in 1..18 : items'[Items[j].name] = Resolve(Items[j])
  BY <1>1, <1>2, ServiceReads DEF StartupInv
<1>4. items'["RamCacheDbDumpIntervalMs"] = Resolve(Items[14])
  BY <1>3, ReadNames
<1> DEFINE ms == IF GetInt(Resolve(Items[14])) > 0 THEN GetInt(Resolve(Items[14])) ELSE 300000
<1>5. server' = [server EXCEPT !.interval = ms] /\ ms \in Int /\ ms > 0
  BY <1>3, <1>4, ItemTexts DEF InitStorage
<1> HIDE DEF ms
<1>6. ServerType' /\ server'.raw = server.raw /\ server'.interval > 0
  BY <1>5 DEF StartupInv, ServerInv, ServerType
<1>7. \A j \in 1..18 : Resolve(Items[j])' = Resolve(Items[j])
  BY <1>3, ResolveFixed
<1>8. ServerInv'
  <2>1. ~HasController' /\ ~HasVstp' /\ ~HasHttp'
    BY <1>3 DEF HasHttp, HasVstp, HasController
  <2>2. server.raw => GetBool(Resolve(Items[18]))
    BY DEF StartupInv, ServerInv
  <2> QED BY <1>6, <1>7, <2>1, <2>2 DEF ServerInv
<1> QED BY <1>3, <1>8 DEF StartupInv

LEMMA ControllerStep ==
  ASSUME StartupInv, NewController
  PROVE  StartupInv'
<1> DEFINE names == {"maxTimeWaitingClient_seconds", "maxKeyLength", "maxKeyWordLength",
                     "maxValueSize", "allowRawDbAccess"}
           r(j) == Resolve(Items[j])
           w == IF GetInt(r(5)) > 0 THEN GetInt(r(5)) ELSE 43200
<1>1. Starts("controller", names, "vstp")
  BY DEF NewController
<1>2. names \subseteq ReadItems
  BY DEF ReadItems
<1> HIDE DEF names
<1>3. /\ ItemsInv' /\ pc = "controller" /\ pc' = "vstp" /\ Sourced /\ UNCHANGED <<args, env, file>>
      /\ \A j \in 1..18 : items'[Items[j].name] = Resolve(Items[j])
  BY <1>1, <1>2, ServiceReads DEF StartupInv
<1>4. /\ items'["maxTimeWaitingClient_seconds"] = r(5) /\ items'["maxKeyLength"] = r(15)
      /\ items'["maxKeyWordLength"] = r(16) /\ items'["maxValueSize"] = r(17)
      /\ items'["allowRawDbAccess"] = r(18)
  BY <1>3, ReadNames
<1>5. server' = [server EXCEPT !.wait = w, !.keyLength = GetInt(r(15)), !.keyWordLength = GetInt(r(16)),
                               !.valueSize = GetInt(r(17)), !.raw = GetBool(r(18))]
  BY <1>4 DEF NewController
<1>6. /\ GetInt(r(15)) \in Int /\ GetInt(r(16)) \in Int /\ GetInt(r(17)) \in Int /\ GetInt(r(5)) \in Int
      /\ GetBool(r(18)) \in BOOLEAN
  BY <1>3, ItemTexts
<1>7. w \in Int /\ w > 0
  BY <1>6
<1>8. \A j \in 1..18 : r(j)' = r(j)
  BY <1>3, ResolveFixed
<1>9. /\ r(18)' = r(18) /\ r(17)' = r(17) /\ r(16)' = r(16) /\ r(15)' = r(15) /\ r(14)' = r(14)
  BY <1>8
<1>10. ~HasVstp' /\ ~HasHttp' /\ HasController' /\ HasStorage'
  BY <1>3 DEF HasHttp, HasVstp, HasController, HasStorage
<1>11. HasStorage
  BY <1>3 DEF HasStorage
<1> HIDE DEF w, r
<1>12. /\ ServerType' /\ server'.interval = server.interval /\ server'.wait = w
       /\ server'.keyLength = GetInt(r(15)) /\ server'.keyWordLength = GetInt(r(16))
       /\ server'.valueSize = GetInt(r(17)) /\ server'.raw = GetBool(r(18))
  BY <1>5, <1>6, <1>7 DEF StartupInv, ServerInv, ServerType
<1>13. server.interval > 0
  BY <1>11 DEF StartupInv, ServerInv, r
<1>14. /\ server'.raw => GetBool(r(18)')
       /\ server'.interval > 0
       /\ server'.wait > 0
       /\ server'.keyLength = GetInt(r(15)')
       /\ server'.keyWordLength = GetInt(r(16)')
       /\ server'.valueSize = GetInt(r(17)')
  BY <1>7, <1>9, <1>12, <1>13
<1>15. ServerInv'
  BY <1>10, <1>12, <1>14 DEF ServerInv, r
<1> QED BY <1>3, <1>15 DEF StartupInv

LEMMA VstpStep ==
  ASSUME StartupInv, StartVSTP
  PROVE  StartupInv'
<1> DEFINE names == {"vstpApiPort"}
           r(j) == Resolve(Items[j])
<1>1. PICK next \in {"http", "ended"} : Starts("vstp", names, next)
  BY DEF StartVSTP
<1>2. names \subseteq ReadItems
  BY DEF ReadItems
<1> HIDE DEF names
<1>3. /\ ItemsInv' /\ pc = "vstp" /\ pc' = next /\ Sourced /\ UNCHANGED <<args, env, file>>
      /\ \A j \in 1..18 : items'[Items[j].name] = Resolve(Items[j])
  BY <1>1, <1>2, ServiceReads DEF StartupInv
<1>4. items'["vstpApiPort"] = r(13)
  BY <1>3, ReadNames
<1>5. server' = [server EXCEPT !.vstpPort = GetInt(r(13))] /\ GetInt(r(13)) \in Int
  BY <1>3, <1>4, ItemTexts DEF StartVSTP
<1>6. \A j \in 1..18 : r(j)' = r(j)
  BY <1>3, ResolveFixed
<1>7. /\ r(18)' = r(18) /\ r(17)' = r(17) /\ r(16)' = r(16) /\ r(15)' = r(15) /\ r(14)' = r(14) /\ r(13)' = r(13)
  BY <1>6
<1>8. ~HasHttp' /\ HasController /\ HasStorage
  BY <1>3 DEF HasHttp, HasVstp, HasController, HasStorage
<1> HIDE DEF r
<1>9. /\ ServerType' /\ server'.interval = server.interval /\ server'.wait = server.wait
      /\ server'.keyLength = server.keyLength /\ server'.keyWordLength = server.keyWordLength
      /\ server'.valueSize = server.valueSize /\ server'.raw = server.raw /\ server'.vstpPort = GetInt(r(13))
  BY <1>5 DEF StartupInv, ServerInv, ServerType
<1>10. /\ server.raw => GetBool(r(18))
       /\ server.interval > 0 /\ server.wait > 0 /\ server.keyLength = GetInt(r(15))
       /\ server.keyWordLength = GetInt(r(16)) /\ server.valueSize = GetInt(r(17))
  BY <1>8 DEF StartupInv, ServerInv, r
<1>11. /\ server'.raw => GetBool(r(18)')
       /\ server'.interval > 0 /\ server'.wait > 0 /\ server'.keyLength = GetInt(r(15)')
       /\ server'.keyWordLength = GetInt(r(16)') /\ server'.valueSize = GetInt(r(17)')
       /\ server'.vstpPort = GetInt(r(13)')
  BY <1>7, <1>9, <1>10
<1>12. ServerInv'
  BY <1>8, <1>9, <1>11 DEF ServerInv, r
<1> QED BY <1>3, <1>12 DEF StartupInv

LEMMA HttpStep ==
  ASSUME StartupInv, StartHTTP
  PROVE  StartupInv'
<1> DEFINE names == {"httpApiPort", "allowRawDbAccess"}
           r(j) == Resolve(Items[j])
<1>1. Starts("http", names, "serves")
  BY DEF StartHTTP
<1>2. names \subseteq ReadItems
  BY DEF ReadItems
<1> HIDE DEF names
<1>3. /\ ItemsInv' /\ pc = "http" /\ pc' = "serves" /\ Sourced /\ UNCHANGED <<args, env, file>>
      /\ \A j \in 1..18 : items'[Items[j].name] = Resolve(Items[j])
  BY <1>1, <1>2, ServiceReads DEF StartupInv
<1>4. items'["httpApiPort"] = r(8)
  BY <1>3, ReadNames
<1>5. server' = [server EXCEPT !.httpPort = GetInt(r(8))] /\ GetInt(r(8)) \in Int
  BY <1>3, <1>4, ItemTexts DEF StartHTTP
<1>6. \A j \in 1..18 : r(j)' = r(j)
  BY <1>3, ResolveFixed
<1>7. /\ r(18)' = r(18) /\ r(17)' = r(17) /\ r(16)' = r(16) /\ r(15)' = r(15) /\ r(14)' = r(14) /\ r(13)' = r(13)
      /\ r(8)' = r(8)
  BY <1>6
<1>8. HasVstp /\ HasController /\ HasStorage
  BY <1>3 DEF HasVstp, HasController, HasStorage
<1> HIDE DEF r
<1>9. /\ ServerType' /\ server'.interval = server.interval /\ server'.wait = server.wait
      /\ server'.keyLength = server.keyLength /\ server'.keyWordLength = server.keyWordLength
      /\ server'.valueSize = server.valueSize /\ server'.raw = server.raw
      /\ server'.vstpPort = server.vstpPort /\ server'.httpPort = GetInt(r(8))
  BY <1>5 DEF StartupInv, ServerInv, ServerType
<1>10. /\ server.raw => GetBool(r(18))
       /\ server.interval > 0 /\ server.wait > 0 /\ server.keyLength = GetInt(r(15))
       /\ server.keyWordLength = GetInt(r(16)) /\ server.valueSize = GetInt(r(17))
       /\ server.vstpPort = GetInt(r(13))
  BY <1>8 DEF StartupInv, ServerInv, r
<1>11. /\ server'.raw => GetBool(r(18)')
       /\ server'.interval > 0 /\ server'.wait > 0 /\ server'.keyLength = GetInt(r(15)')
       /\ server'.keyWordLength = GetInt(r(16)') /\ server'.valueSize = GetInt(r(17)')
       /\ server'.vstpPort = GetInt(r(13)') /\ server'.httpPort = GetInt(r(8)')
  BY <1>7, <1>9, <1>10
<1>12. ServerInv'
  BY <1>9, <1>11 DEF ServerInv, r
<1> QED BY <1>3, <1>12 DEF StartupInv

LEMMA QuietSteps ==
  ASSUME StartupInv,
         \/ DeclareNext \/ DetectInvalidArguments \/ PrintBanner
         \/ NewTickerPanics \/ Signalled \/ UNCHANGED startupVars
  PROVE  StartupInv'
<1>1. CASE DeclareNext
  <2>1. ItemsInv'
    BY <1>1, ItemsDeclared DEF StartupInv
  <2>2. pc' \in {"logger", "declares"} /\ UNCHANGED <<args, env, file, server>>
    BY <1>1 DEF DeclareNext, MovesTo
  <2>3. ServerInv'
    BY <2>2, ServerKept DEF StartupInv, HasHttp, HasVstp, HasController, HasStorage
  <2> QED BY <2>1, <2>3 DEF StartupInv
<1>2. CASE DetectInvalidArguments
  <2>1. pc = "arguments" /\ pc' \in {"banner", "refused"} /\ UNCHANGED <<args, env, file, declared, items, server>>
    BY <1>2 DEF DetectInvalidArguments, MovesTo
  <2>2. ServerInv'
    BY <2>1, ServerKept DEF StartupInv, HasHttp, HasVstp, HasController, HasStorage
  <2> QED BY <2>1, <2>2, ItemsKept DEF StartupInv
<1>3. CASE PrintBanner
  <2> DEFINE names == {"DbDirectory", "vstpApiPort", "httpApiPort", "httpApiHttpsPort", "serverDiscoveryPort"}
  <2>1. Starts("banner", names, "storage") /\ UNCHANGED server
    BY <1>3 DEF PrintBanner
  <2>2. names \subseteq ReadItems
    BY DEF ReadItems
  <2> HIDE DEF names
  <2>3. ItemsInv' /\ pc' = "storage" /\ UNCHANGED <<args, env, file>>
    BY <2>1, <2>2, ServiceReads DEF StartupInv
  <2>4. ServerInv'
    BY <2>1, <2>3, ServerKept DEF StartupInv, HasHttp, HasVstp, HasController, HasStorage
  <2> QED BY <2>3, <2>4 DEF StartupInv
<1>4. CASE Signalled
  <2>1. pc = "serves" /\ pc' = "signalled" /\ UNCHANGED <<args, env, file, declared, items, server>>
    BY <1>4 DEF Signalled, MovesTo
  <2>2. ServerInv'
    BY <2>1, ServerKept DEF StartupInv, HasHttp, HasVstp, HasController, HasStorage
  <2> QED BY <2>1, <2>2, ItemsKept DEF StartupInv
<1>6. CASE NewTickerPanics
  <2>1. /\ pc # "declares" /\ pc' = "panicked"
        /\ UNCHANGED <<args, env, file, declared, items, server>>
    BY <1>6 DEF NewTickerPanics, MovesTo
  <2>2. ServerInv'
    BY <2>1, ServerKept DEF StartupInv, HasHttp, HasVstp, HasController, HasStorage
  <2> QED BY <2>1, <2>2, ItemsKept DEF StartupInv
<1>5. CASE UNCHANGED startupVars
  <2>1. UNCHANGED <<args, env, file, declared, items, server, pc>>
    BY <1>5 DEF startupVars
  <2>2. ServerInv'
    BY <2>1, ServerKept DEF StartupInv, HasHttp, HasVstp, HasController, HasStorage
  <2> QED BY <2>1, <2>2, ItemsKept DEF StartupInv
<1> QED BY <1>1, <1>2, <1>3, <1>4, <1>5, <1>6

(* The items and the settings that the services read are those of the      *)
(* sources, at every step of main.                                         *)
THEOREM StartupInvHolds == StartupSpec => []StartupInv
<1>1. StartupInv /\ [StartupNext]_startupVars => StartupInv'
  BY LoggerStep, StorageStep, ControllerStep, VstpStep, HttpStep, QuietSteps DEF StartupNext, MainGoesOn
<1> QED BY <1>1, StartupInitInv, PTL DEF StartupSpec

LEMMA SmallModulus ==
  ASSUME NEW x \in Nat, NEW w \in Nat \ {0}, x < w
  PROVE  x % w = x
  OBVIOUS

(* An interval that a Duration holds is itself as a Duration.              *)
LEMMA DurationHolds ==
  ASSUME NEW x \in Nat, NEW w \in Nat \ {0}, x < w \div 2
  PROVE  ((x + w \div 2) % w) - w \div 2 = x
<1>1. w \div 2 \in Nat /\ 2 * (w \div 2) <= w
  OBVIOUS
<1> DEFINE h == w \div 2
<1>2. h \in Nat /\ 2 * h <= w /\ x < h
  BY <1>1
<1> HIDE DEF h
<1>3. x + h \in Nat /\ x + h < w
  BY <1>2
<1>4. (x + h) % w = x + h
  BY <1>3, SmallModulus
<1> QED BY <1>2, <1>4 DEF h

LEMMA DurationWraps ==
  ASSUME NEW x \in Nat, NEW w \in Nat \ {0}, NEW d \in Int, x > 0, d <= 0,
         d = ((x + w \div 2) % w) - w \div 2
  PROVE  x >= w \div 2
<1>1. x < w \div 2 => d = x
  BY DurationHolds
<1>2. ~(x < w \div 2)
  BY <1>1
<1>3. w \div 2 \in Nat
  OBVIOUS
<1> QED BY <1>2, <1>3

PanicsIfTooLong == pc = "panicked" => server.interval * Millisecond >= WordSize \div 2

LEMMA PanicStep ==
  ASSUME StartupInv, PanicsIfTooLong, [StartupNext]_startupVars
  PROVE  PanicsIfTooLong'
<1>1. CASE NewTickerPanics
  <2> DEFINE ms == server.interval
             x == ms * Millisecond
  <2>1. /\ HasStorage /\ Duration(ms) <= 0 /\ server' = server
    BY <1>1 DEF NewTickerPanics, HasHttp, HasVstp, HasController, HasStorage
  <2>2. ms \in Int /\ ms > 0
    BY <2>1 DEF StartupInv, ServerInv, ServerType
  <2>3. WordSize \in Nat \ {0} /\ Millisecond \in Nat \ {0}
    BY StartupAssumption
  <2> HIDE DEF ms
  <2>4. x \in Nat /\ x > 0
    BY <2>2, <2>3
  <2>5. Duration(ms) = ((x + WordSize \div 2) % WordSize) - WordSize \div 2
    BY DEF Duration
  <2> HIDE DEF x
  <2>6. Duration(ms) \in Int
    BY <2>3, <2>4, <2>5
  <2>7. ASSUME NEW d \in Int, d = Duration(ms) PROVE x >= WordSize \div 2
    <3>1. d <= 0 /\ d = ((x + WordSize \div 2) % WordSize) - WordSize \div 2
      BY <2>1, <2>5, <2>7
    <3> QED BY <2>3, <2>4, <3>1, DurationWraps
  <2>8. x >= WordSize \div 2
    BY <2>6, <2>7
  <2> QED BY <2>1, <2>8 DEF PanicsIfTooLong, x, ms
<1>2. CASE MainGoesOn \/ Signalled
  <2>1. pc' # "panicked"
    BY <1>2 DEF MainGoesOn, Signalled, DeclareNext, InitLogger, DetectInvalidArguments, PrintBanner,
                InitStorage, NewController, StartVSTP, StartHTTP, Starts, MovesTo
  <2> QED BY <2>1 DEF PanicsIfTooLong
<1>3. CASE UNCHANGED startupVars
  BY <1>3 DEF startupVars, PanicsIfTooLong
<1> QED BY <1>1, <1>2, <1>3 DEF StartupNext

(* NewTicker panics only for an interval that overflows as a Duration.     *)
LEMMA PanicsOnlyIfTooLong == StartupSpec => []PanicsIfTooLong
<1>1. StartupInit => PanicsIfTooLong
  BY DEF StartupInit, PanicsIfTooLong
<1>2. StartupInv /\ PanicsIfTooLong /\ [StartupNext]_startupVars => PanicsIfTooLong'
  BY PanicStep
<1> QED BY <1>1, <1>2, StartupInvHolds, PTL DEF StartupSpec

LEMMA UsableInInv == StartupInv /\ PanicsIfTooLong => SettingsAreUsable
<1> SUFFICES ASSUME StartupInv, Serving
             PROVE  /\ IsPort(server.vstpPort) /\ IsPort(server.httpPort)
                    /\ server.interval > 0 /\ server.wait > 0 /\ server.keyLength > 0
                    /\ items["DbDirectory"] # Word("%SUGGESTED_DATA_DIRECTORY%")
  BY DEF SettingsAreUsable, PanicsIfTooLong
<1> DEFINE r(j) == Resolve(Items[j])
<1>1. Sourced /\ pc # "declares"
  BY DEF StartupInv, ItemsInv, Serving
<1>2. HasHttp /\ HasVstp /\ HasController /\ HasStorage
  BY DEF Serving, HasHttp, HasVstp, HasController, HasStorage
<1>3. /\ Items[8].kind = "port" /\ Items[13].kind = "port"
      /\ Items[15].kind = "positive"
  BY ItemsAre DEF Item
<1>4. \A j \in 1..18 : Valid(Items[j].kind, r(j)) /\ r(j) # Word("%SUGGESTED_DATA_DIRECTORY%")
  BY <1>1, ResolveSays
<1>5. /\ Valid("port", r(8)) /\ Valid("port", r(13))
      /\ Valid("positive", r(15))
  BY <1>3, <1>4
<1>6. /\ IsPort(GetInt(r(8))) /\ IsPort(GetInt(r(13))) /\ GetInt(r(15)) >= 1
  <2> HIDE DEF r
  <2> QED BY <1>5, ValidIs DEF GetInt
<1>7. GetInt(r(15)) \in Int
  BY <1>1, ItemTexts
<1>8. items["DbDirectory"] # Word("%SUGGESTED_DATA_DIRECTORY%")
  <2>1. items[Items[6].name] = r(6)
    BY <1>1, ItemsThere DEF StartupInv
  <2>2. r(6) # Word("%SUGGESTED_DATA_DIRECTORY%")
    BY <1>4
  <2>3. Items[6].name = "DbDirectory"
    BY ReadNames
  <2> HIDE DEF r
  <2> QED BY <2>1, <2>2, <2>3
<1>9. /\ server.interval > 0 /\ server.wait > 0 /\ server.keyLength = GetInt(r(15))
      /\ server.vstpPort = GetInt(r(13)) /\ server.httpPort = GetInt(r(8))
  BY <1>2 DEF StartupInv, ServerInv
<1> HIDE DEF r
<1>10. server.keyLength > 0
  BY <1>6, <1>7, <1>9
<1> QED BY <1>6, <1>8, <1>9, <1>10

LEMMA RawInInv == StartupInv => RawAccessIsAsked
<1> SUFFICES ASSUME StartupInv PROVE RawAccessIsAsked
  OBVIOUS
<1>1. StartupTypeOK
  <2>1. declared \in 0..Len(Items)
    BY ItemsAre DEF StartupInv, ItemsInv
  <2>2. DOMAIN items \subseteq ItemNames
    <3>1. \A j \in 1..declared : j \in DOMAIN Items
      BY ItemsAre DEF StartupInv, ItemsInv
    <3>2. DOMAIN items = {Items[j].name : j \in 1..declared}
      BY DEF StartupInv, ItemsInv
    <3> QED BY <3>1, <3>2 DEF ItemNames
  <2>3. server.raw \in BOOLEAN
    BY DEF StartupInv, ServerInv, ServerType
  <2>4. \A f \in DOMAIN server \ {"raw"} : server[f] \in Int
    BY DEF StartupInv, ServerInv, ServerType
  <2> QED BY <2>1, <2>2, <2>3, <2>4 DEF StartupTypeOK
<1>2. ASSUME server.raw
      PROVE  \/ \E i \in DOMAIN args : args[i].key[1] = "allowRawDbAccess"
             \/ env.name[1] = "allowRawDbAccess" \/ file.name[1] = "allowRawDbAccess"
  <2>1. Sourced /\ GetBool(Resolve(Items[18]))
    BY <1>2 DEF StartupInv, ItemsInv, ServerInv
  <2> QED BY <2>1, RawHasASource DEF ArgsOf
<1> QED BY <1>1, <1>2 DEF RawAccessIsAsked

(* The value that the property expects, source by source. *)
GivenFor(n) == IF ArgsOf(n) # {} THEN {args[i].value : i \in ArgsOf(n)}
               ELSE IF env.name[1] = n /\ env.value # EmptyText THEN {env.value}
               ELSE IF file.name[1] = n THEN {file.value} ELSE {}

LEMMA GivenIsFound ==
  ASSUME Sourced, NEW item,
         \A i \in DOMAIN args : ~args[i].alone /\ ArgsOf(args[i].key[1]) = {i}
  PROVE  GivenFor(item.name) = IF Find(item) = <<>> THEN {} ELSE {Head(Find(item))}
<1> DEFINE n == item.name
<1>1. CASE ArgsOf(n) # {}
  <2>1. PICK i \in DOMAIN args : args[i].key[1] = n
    BY <1>1 DEF ArgsOf
  <2>2. ArgsOf(n) = {i} /\ ~args[i].alone
    BY <2>1
  <2>3. ByArgs(item) # <<>> /\ Head(ByArgs(item)) = args[i].value
    BY <2>2, ArgsSay
  <2>4. Find(item) # <<>> /\ Head(Find(item)) = args[i].value
    BY <2>3, FindSays
  <2>5. GivenFor(n) = {args[i].value}
    BY <1>1, <2>2 DEF GivenFor
  <2> QED BY <2>4, <2>5
<1>2. CASE ArgsOf(n) = {}
  <2>1. ByArgs(item) = <<>>
    BY <1>2, ArgsSay
  <2>2. CASE env.name[1] = n /\ env.value # EmptyText
    <3>1. ByEnvironment(item) # <<>> /\ Head(ByEnvironment(item)) = env.value
      BY <2>2, EnvironmentSays
    <3>2. Find(item) # <<>> /\ Head(Find(item)) = env.value
      BY <2>1, <3>1, FindSays
    <3>3. GivenFor(n) = {env.value}
      BY <1>2, <2>2 DEF GivenFor
    <3> QED BY <3>2, <3>3
  <2>3. CASE ~(env.name[1] = n /\ env.value # EmptyText)
    <3>1. ByEnvironment(item) = <<>>
      BY <2>3, EnvironmentSays
    <3>2. Find(item) = ByFile(item)
      BY <2>1, <3>1, FindSays
    <3>3. ByFile(item) # <<>> <=> file.name[1] = n
      BY FileSays
    <3>4. ByFile(item) # <<>> => Head(ByFile(item)) = file.value
      BY FileSays
    <3>5. GivenFor(n) = IF file.name[1] = n THEN {file.value} ELSE {}
      BY <1>2, <2>3 DEF GivenFor
    <3> QED BY <3>2, <3>3, <3>4, <3>5
  <2> QED BY <2>2, <2>3
<1> QED BY <1>1, <1>2

LEMMA PrecedenceInInv == StartupInv => PrecedenceHolds
<1> SUFFICES ASSUME StartupInv, Serving,
                    \A i \in DOMAIN args : ~args[i].alone /\ ArgsOf(args[i].key[1]) = {i},
                    NEW j \in DOMAIN Items
             PROVE  items[Items[j].name] =
                      IF \E v \in GivenFor(Items[j].name) : Valid(Items[j].kind, v)
                      THEN Expand(CHOOSE v \in GivenFor(Items[j].name) : TRUE)
                      ELSE Expand(Items[j].default)
  BY DEF PrecedenceHolds, GivenFor, ArgsOf
<1> DEFINE item == Items[j]
           given == GivenFor(item.name)
<1>1. Sourced /\ pc # "declares" /\ j \in 1..18
  BY ItemsAre DEF StartupInv, ItemsInv, Serving
<1>2. items[item.name] = Resolve(item)
  BY <1>1, ItemsThere DEF StartupInv
<1>3. given = IF Find(item) = <<>> THEN {} ELSE {Head(Find(item))}
  BY <1>1, GivenIsFound
<1>4. item.kind \in Kinds
  BY <1>1, ResolveSays
<1> HIDE DEF item, given
<1>5. CASE Find(item) = <<>>
  <2>1. Resolve(item) = Expand(item.default)
    BY <1>5 DEF Resolve
  <2> QED BY <1>2, <1>3, <1>5, <2>1 DEF item, given
<1>6. CASE Find(item) # <<>>
  <2> DEFINE v == Head(Find(item))
  <2>1. IsText(v)
    BY <1>1, <1>6, FindSays, SourcesAre
  <2>2. Valid(item.kind, Expand(v)) <=> Valid(item.kind, v)
    BY <1>4, <2>1, Expands
  <2>3. given = {v}
    BY <1>3, <1>6
  <2>4. Resolve(item) = IF Valid(item.kind, Expand(v)) THEN Expand(v) ELSE Expand(item.default)
    BY <1>6 DEF Resolve
  <2> HIDE DEF v
  <2>5. (CHOOSE x \in given : TRUE) = v
    BY <2>3
  <2>6. (\E x \in given : Valid(item.kind, x)) <=> Valid(item.kind, v)
    BY <2>3
  <2>7. items[item.name] = IF \E x \in given : Valid(item.kind, x) THEN Expand(CHOOSE x \in given : TRUE)
                           ELSE Expand(item.default)
    BY <1>2, <2>2, <2>4, <2>5, <2>6
  <2> QED BY <2>7 DEF item, given
<1> QED BY <1>5, <1>6

(* A server that runs has settings it can work with, whatever the sources  *)
(* hold: main reads nothing before it is declared, and a value that is not *)
(* valid gives way to a default that is.  And the program panics in        *)
(* NewTicker only for an interval that a Duration cannot hold.             *)
THEOREM SettingsAreUsableHolds == StartupSpec => []SettingsAreUsable
  BY StartupInvHolds, PanicsOnlyIfTooLong, UsableInInv, PTL

(* The internal variables are open only when a source names                *)
(* allowRawDbAccess: NewController reads the item after it is declared.    *)
THEOREM RawAccessIsAskedHolds == StartupSpec => []RawAccessIsAsked
  BY StartupInvHolds, RawInInv, PTL

(* Command line before environment before file, for every item of          *)
(* initConfigurations.                                                     *)
THEOREM PrecedenceHoldsAlways == StartupSpec => []PrecedenceHolds
  BY StartupInvHolds, PrecedenceInInv, PTL
=============================================================================
