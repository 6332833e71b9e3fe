-------------------------- MODULE EventLogRefinement ------------------------
(***************************************************************************)
(* That the rotated files, read in the order read.go reads them, are a log *)
(* that only grows at its end and only shrinks at its front: EventLog      *)
(* implements AppendOnlyLog.  What the files hold is a recursive function  *)
(* of the paths; what it computes is proved by induction, with the least   *)
(* counterexample that a well-founded order gives.                         *)
(***************************************************************************)
EXTENDS EventLogProofs, WellFoundedInduction

-----------------------------------------------------------------------------
(* Every nonempty set of numbers has a least element. *)
LEMMA LeastNat ==
    ASSUME NEW T, T \subseteq Nat, T # {}
    PROVE  \E x \in T : \A y \in T : ~(y < x)
<1> DEFINE R == {r \in Nat \X Nat : r[1] < r[2]}
<1>0. IsWellFoundedOn(R, Nat)
    BY NatLessThanWellFounded, Zenon DEF OpToRel
<1>1. PICK x \in T : \A y \in T : ~(<<y, x>> \in R)
    BY <1>0, WFMin, Zenon
<1>2. ASSUME NEW y \in T, y < x PROVE FALSE
    <2>1. <<y, x>> \in R
        BY <1>2
    <2> QED
        BY <1>1, <2>1
<1> QED
    BY <1>2

(* Induction on the numbers up to N, with a set in place of a predicate. *)
LEMMA UpTo ==
    ASSUME NEW N \in Nat, NEW T, 0 \in T,
           \A n \in 1..N : n - 1 \in T => n \in T
    PROVE  \A n \in 0..N : n \in T
<1>1. SUFFICES ASSUME {n \in 0..N : ~(n \in T)} # {} PROVE FALSE
    OBVIOUS
<1>2. {n \in 0..N : ~(n \in T)} \subseteq Nat
    OBVIOUS
<1>3. PICK x \in {n \in 0..N : ~(n \in T)} :
          \A y \in {n \in 0..N : ~(n \in T)} : ~(y < x)
    BY <1>1, <1>2, LeastNat, Zenon
<1>4. x # 0 /\ x \in 0..N /\ ~(x \in T)
    BY <1>3
<1>5. x \in 1..N /\ x - 1 \in 0..N /\ x - 1 < x
    BY <1>4
<1>6. x - 1 \in T
    BY <1>3, <1>5
<1> QED
    BY <1>4, <1>5, <1>6

(* There is a function with the recursion of Prefixes. *)
LEMMA PrefixesExist ==
    ASSUME NEW N \in Nat, NEW s
    PROVE  \E u : u = [n \in 0..N |-> IF n = 0 THEN <<>> ELSE u[n - 1] \o s[n]]
<1> DEFINE T == {m \in 0..N : \E u : u = [n \in 0..m |-> IF n = 0 THEN <<>> ELSE u[n - 1] \o s[n]]}
<1>1. 0 \in T
    <2>1. PICK u : u = [n \in 0..0 |-> <<>>]
        BY Zenon
    <2>2. u = [n \in 0..0 |-> IF n = 0 THEN <<>> ELSE u[n - 1] \o s[n]]
        BY <2>1
    <2> QED
        BY <2>2
<1>2. ASSUME NEW m \in 1..N, m - 1 \in T PROVE m \in T
    <2>1. PICK u : u = [n \in 0..(m - 1) |-> IF n = 0 THEN <<>> ELSE u[n - 1] \o s[n]]
        BY <1>2, Zenon
    <2>2. PICK v : v = [n \in 0..m |-> IF n = m THEN u[n - 1] \o s[n] ELSE u[n]]
        BY Zenon
    <2>3. ASSUME NEW n \in 0..m
          PROVE  v[n] = IF n = 0 THEN <<>> ELSE v[n - 1] \o s[n]
        <3>1. CASE n = m
            <4>1. n # 0 /\ n - 1 \in 0..m /\ n - 1 # m
                BY <3>1
            <4>2. v[n] = u[n - 1] \o s[n] /\ v[n - 1] = u[n - 1]
                BY <2>2, <2>3, <3>1, <4>1, Zenon
            <4> QED
                BY <4>1, <4>2, Zenon
        <3>2. CASE n # m
            <4>1. n \in 0..(m - 1) /\ (n # 0 => n - 1 \in 0..m /\ n - 1 # m)
                BY <3>2
            <4>2. v[n] = u[n] /\ (n # 0 => v[n - 1] = u[n - 1])
                BY <2>2, <2>3, <3>2, <4>1, Zenon
            <4>3. u[n] = IF n = 0 THEN <<>> ELSE u[n - 1] \o s[n]
                BY <2>1, <4>1, Zenon
            <4> QED
                BY <4>2, <4>3, Zenon
        <3> QED
            BY <3>1, <3>2
    <2>4. v = [n \in 0..m |-> IF n = 0 THEN <<>> ELSE v[n - 1] \o s[n]]
        BY <2>2, <2>3, Zenon
    <2>5. m \in 0..N
        OBVIOUS
    <2> QED
        BY <2>4, <2>5, Zenon
<1>3. N \in 0..N
    OBVIOUS
<1> HIDE DEF T
<1>4. N \in T
    BY <1>1, <1>2, <1>3, UpTo, Zenon
<1> QED
    BY <1>4, Zenon DEF T

(* The recursion of Prefixes, and that it yields sequences. *)
LEMMA PrefixesAre ==
    ASSUME NEW S, NEW s \in Seq(Seq(S)), NEW N \in Nat, N = Len(s)
    PROVE  /\ Prefixes(s)[0] = <<>>
           /\ \A n \in 1..N : n - 1 \in 0..N /\ Prefixes(s)[n] = Prefixes(s)[n - 1] \o s[n]
           /\ \A n \in 0..N : Prefixes(s)[n] \in Seq(S)
<1>1. PICK u : u = Prefixes(s)
    OBVIOUS
<1>2. u = CHOOSE v : v = [n \in 0..N |-> IF n = 0 THEN <<>> ELSE v[n - 1] \o s[n]]
    BY <1>1, Zenon DEF Prefixes
<1>3. u = [n \in 0..N |-> IF n = 0 THEN <<>> ELSE u[n - 1] \o s[n]]
    BY <1>2, PrefixesExist, Zenon
<1>4. 0 \in 0..N /\ \A n \in 1..N : n \in 0..N /\ n # 0 /\ n - 1 \in 0..N
    OBVIOUS
<1>5. u[0] = <<>> /\ \A n \in 1..N : u[n] = u[n - 1] \o s[n]
    BY <1>3, <1>4, Zenon
<1>6. \A n \in 0..N : u[n] \in Seq(S)
    <2> DEFINE T == {n \in 0..N : u[n] \in Seq(S)}
    <2>1. 0 \in T
        BY <1>4, <1>5, EmptySeq, Zenon
    <2>2. ASSUME NEW n \in 1..N, n - 1 \in T PROVE n \in T
        <3>1. s[n] \in Seq(S)
            BY ElementOfSeq
        <3>2. u[n] \in Seq(S)
            BY <1>5, <2>2, <3>1, ConcatProperties, Zenon
        <3> QED
            BY <1>4, <3>2, Zenon
    <2> HIDE DEF T
    <2>3. \A n \in 0..N : n \in T
        BY <2>1, <2>2, UpTo, Zenon
    <2> QED
        BY <2>3, Zenon DEF T
<1> QED
    BY <1>1, <1>4, <1>5, <1>6, Zenon

Associate(p, x, y) == (p \o x) \o y = p \o (x \o y)

LEMMA JoinAssociates ==
    ASSUME NEW S, NEW p \in Seq(S), NEW x \in Seq(S), NEW y \in Seq(S)
    PROVE  Associate(p, x, y)
BY ConcatAssociative DEF Associate

(* Where two lists of sequences agree, what is joined of them goes on to    *)
(* differ only by what it differed by before.                               *)
Ahead(s, t, p, n) == Prefixes(s)[n] = p \o Prefixes(t)[n]

Agree(s, t, a, b) == \A n \in (a + 1)..b : s[n] = t[n]

LEMMA PrefixesFollow ==
    ASSUME NEW S, NEW s \in Seq(Seq(S)), NEW t \in Seq(Seq(S)), NEW N \in Nat,
           N = Len(s), N = Len(t), NEW a \in 0..N, NEW b \in a..N, NEW p \in Seq(S),
           Ahead(s, t, p, a), Agree(s, t, a, b)
    PROVE  Ahead(s, t, p, b)
<1>1. PICK u : u = Prefixes(s)
    BY Zenon
<1>2. PICK v : v = Prefixes(t)
    BY Zenon
<1>3. \A n \in 1..N : u[n] = u[n - 1] \o s[n]
    BY <1>1, PrefixesAre, Zenon
<1>4. \A n \in 1..N : n - 1 \in 0..N /\ v[n] = v[n - 1] \o t[n]
    BY <1>2, PrefixesAre, Zenon
<1>5. \A n \in 0..N : v[n] \in Seq(S)
    BY <1>2, PrefixesAre, Zenon
<1>6. \A n \in 1..N : t[n] \in Seq(S)
    BY ElementOfSeq, Zenon
<1> DEFINE T == {n \in 0..N : n \in a..b => u[n] = p \o v[n]}
<1>7. 0 \in T
    <2>1. 0 \in 0..N /\ (0 \in a..b => a = 0)
        OBVIOUS
    <2> QED
        BY <1>1, <1>2, <2>1, Zenon DEF Ahead
<1>8. ASSUME NEW n \in 1..N, n - 1 \in T PROVE n \in T
    <2>0. n \in 0..N /\ n - 1 \in 0..N
        OBVIOUS
    <2>1. SUFFICES ASSUME n \in a..b PROVE u[n] = p \o v[n]
        BY <2>0, Zenon
    <2>2. CASE n = a
        BY <1>1, <1>2, <2>2, Zenon DEF Ahead
    <2>3. CASE n # a
        <3>1. n \in (a + 1)..b /\ n - 1 \in a..b
            BY <2>1, <2>3
        <3>2. u[n - 1] = p \o v[n - 1] /\ s[n] = t[n]
            BY <1>8, <3>1, Zenon DEF Agree
        <3>3. u[n] = u[n - 1] \o t[n] /\ v[n] = v[n - 1] \o t[n]
            BY <1>3, <1>4, <3>2, Zenon
        <3>4. v[n - 1] \in Seq(S) /\ t[n] \in Seq(S)
            BY <1>5, <1>6, <2>0, Zenon
        <3>5. Associate(p, v[n - 1], t[n])
            BY <3>4, JoinAssociates, Zenon
        <3> QED
            BY <3>2, <3>3, <3>5, Zenon DEF Associate
    <2> QED
        BY <2>2, <2>3, Zenon
<1>9. b \in 0..N /\ b \in a..b
    OBVIOUS
<1> HIDE DEF T
<1>10. b \in T
    BY <1>7, <1>8, <1>9, UpTo, Zenon
<1> QED
    BY <1>1, <1>2, <1>9, <1>10, Zenon DEF T, Ahead

(* Without its beginning a sequence is trimmed, or is the same. *)
LEMMA FrontLeaves ==
    ASSUME NEW S, NEW p \in Seq(S), NEW b \in Seq(S)
    PROVE  \/ p \o b = b
           \/ \E k \in 1..Len(p \o b) : b = SubSeq(p \o b, k + 1, Len(p \o b))
<1>1. CASE p = <<>>
    BY <1>1, ConcatEmptySeq
<1>2. CASE p # <<>>
    <2>1. /\ Len(p) \in Nat \ {0} /\ Len(b) \in Nat /\ Len(p \o b) = Len(p) + Len(b)
        BY <1>2, LenProperties, EmptySeq, ConcatProperties
    <2>2. Len(p) \in 1..Len(p \o b)
        BY <2>1
    <2>3. b = SubSeq(p \o b, Len(p) + 1, Len(p \o b))
        <3>1. PICK a : a = p \o b
            BY Zenon
        <3>2. /\ a \in Seq(S) /\ Len(a) = Len(p) + Len(b)
              /\ \A k \in 1..Len(b) : a[Len(p) + k] = b[k]
            BY <2>1, <3>1, ConcatProperties
        <3>3. /\ SubSeq(a, Len(p) + 1, Len(a)) \in Seq(S)
              /\ Len(SubSeq(a, Len(p) + 1, Len(a))) = Len(b)
              /\ \A k \in 1..Len(b) : SubSeq(a, Len(p) + 1, Len(a))[k] = b[k]
            BY <2>1, <3>2
        <3>4. b = SubSeq(a, Len(p) + 1, Len(a))
            BY <3>3, SeqEqual
        <3> QED
            BY <3>1, <3>4, Zenon
    <2> QED
        BY <2>2, <2>3, Zenon
<1> QED
    BY <1>1, <1>2, Zenon

(* An element appended to the last of two sequences is appended to both. *)
Grows(x, y, e) == x \o Append(y, e) = Append(x \o y, e)

LEMMA EndGrows ==
    ASSUME NEW S, NEW x \in Seq(S), NEW y \in Seq(S), NEW e \in S
    PROVE  Grows(x, y, e)
<1>0. <<e>> \in Seq(S)
    OBVIOUS
<1>1. PICK z \in Seq(S) : z = <<e>>
    BY <1>0, Zenon
<1>2. Append(y, e) = y \o z
    BY <1>1, AppendIsConcat
<1>3. x \o y \in Seq(S)
    BY ConcatProperties
<1>4. Append(x \o y, e) = (x \o y) \o z
    BY <1>1, <1>3, AppendIsConcat, Zenon
<1>5. Associate(x, y, z)
    BY JoinAssociates
<1> QED
    BY <1>2, <1>4, <1>5, Zenon DEF Associate, Grows

(* The lines at path i are at place N - i. *)
LinesAt(l, d, c, N) ==
    \A n \in 1..N : N - n \in Paths /\ l[n] = IF d[N - n] = 0 THEN <<>> ELSE c[d[N - n]]

LEMMA FileLinesAre ==
    ASSUME NEW S, NEW d \in [Paths -> 0..MaxFiles], NEW c \in [1..MaxFiles -> Seq(S)]
    PROVE  /\ FileLines(d, c) \in Seq(Seq(S))
           /\ Len(FileLines(d, c)) = MaxBackups + 1
           /\ LinesAt(FileLines(d, c), d, c, MaxBackups + 1)
<1>1. MaxBackups \in Nat /\ \A n \in 1..(MaxBackups + 1) : MaxBackups + 1 - n \in Paths
    BY PathFacts DEF Paths
<1>2. PICK l : l = FileLines(d, c)
    BY Zenon
<1>3. l = [n \in 1..(MaxBackups + 1) |->
              IF d[MaxBackups + 1 - n] = 0 THEN <<>> ELSE c[d[MaxBackups + 1 - n]]]
    BY <1>2, Zenon DEF FileLines
<1>4. ASSUME NEW i \in Paths, d[i] # 0 PROVE c[d[i]] \in Seq(S)
    <2>1. d[i] \in 1..MaxFiles
        BY <1>4, LogConstants
    <2> QED
        BY <2>1
<1>5. ASSUME NEW n \in 1..(MaxBackups + 1)
      PROVE  (IF d[MaxBackups + 1 - n] = 0 THEN <<>> ELSE c[d[MaxBackups + 1 - n]]) \in Seq(S)
    BY <1>1, <1>4, EmptySeq, Zenon
<1>6. l \in [1..(MaxBackups + 1) -> Seq(S)]
    BY <1>3, <1>5, Zenon
<1>7. l \in Seq(Seq(S)) /\ Len(l) = MaxBackups + 1
    BY <1>1, <1>6
<1>8. LinesAt(l, d, c, MaxBackups + 1)
    <2>1. \A n \in 1..(MaxBackups + 1) : (MaxBackups + 1) - n = MaxBackups + 1 - n
        BY <1>1
    <2>2. \A n \in 1..(MaxBackups + 1) :
              l[n] = IF d[MaxBackups + 1 - n] = 0 THEN <<>> ELSE c[d[MaxBackups + 1 - n]]
        BY <1>3, Zenon
    <2>3. ASSUME NEW n \in 1..(MaxBackups + 1)
          PROVE  /\ (MaxBackups + 1) - n \in Paths
                 /\ l[n] = IF d[(MaxBackups + 1) - n] = 0 THEN <<>>
                           ELSE c[d[(MaxBackups + 1) - n]]
        BY <1>1, <2>1, <2>2, <2>3, Zenon
    <2> QED
        BY <2>3, Zenon DEF LinesAt
<1> QED
    BY <1>2, <1>7, <1>8, Zenon

(* Joining with nothing. *)
LEMMA JoinNothing ==
    ASSUME NEW S, NEW x \in Seq(S)
    PROVE  x \o <<>> = x /\ <<>> \o x = x /\ <<>> \in Seq(S)
BY ConcatEmptySeq, EmptySeq

(* The oldest file is removed: its lines leave at the front. *)
LEMMA RemoveJoins ==
    ASSUME NEW S, NEW s \in Seq(Seq(S)), NEW t \in Seq(Seq(S)), NEW N \in Nat \ {0},
           N = Len(s), N = Len(t), t[1] = <<>>, \A n \in 2..N : s[n] = t[n]
    PROVE  \E p \in Seq(S) : Ahead(s, t, p, N)
<1>1. N \in Nat /\ 1 \in 0..N /\ 1 \in 1..N /\ N \in 1..N /\ 1 - 1 = 0 /\ 1 + 1 = 2
    OBVIOUS
<1>2. s[1] \in Seq(S)
    BY <1>1, ElementOfSeq, Zenon
<1>3. Prefixes(s)[0] = <<>> /\ Prefixes(s)[1] = Prefixes(s)[1 - 1] \o s[1]
    BY <1>1, PrefixesAre, Zenon
<1>4. Prefixes(t)[0] = <<>> /\ Prefixes(t)[1] = Prefixes(t)[1 - 1] \o t[1]
    BY <1>1, PrefixesAre, Zenon
<1>5. Prefixes(s)[1] = s[1]
    BY <1>1, <1>2, <1>3, JoinNothing, Zenon
<1>6. Prefixes(t)[1] = <<>>
    BY <1>1, <1>2, <1>4, JoinNothing, Zenon
<1>7. Ahead(s, t, s[1], 1)
    BY <1>2, <1>5, <1>6, JoinNothing, Zenon DEF Ahead
<1>8. Agree(s, t, 1, N)
    BY <1>1, Zenon DEF Agree
<1>9. Ahead(s, t, s[1], N)
    BY <1>1, <1>2, <1>7, <1>8, PrefixesFollow, Zenon
<1> QED
    BY <1>2, <1>9, Zenon

LEMMA Around ==
    ASSUME NEW N \in Nat, NEW q \in 1..(N - 1)
    PROVE  /\ q \in 1..N /\ q + 1 \in 1..N /\ 0 \in 0..N /\ q - 1 \in 0..N /\ q + 1 \in 0..N
           /\ (q + 1) - 1 = q /\ N \in (q + 1)..N /\ 1 - 1 = 0 /\ 0 + 1 = 1
           /\ \A n \in 1..(q - 1) : n \in 1..N /\ n # q /\ n # q + 1
OBVIOUS

(* A file moves one path up, to a free path or over the oldest file. *)
LEMMA RenameJoins ==
    ASSUME NEW S, NEW s \in Seq(Seq(S)), NEW t \in Seq(Seq(S)), NEW N \in Nat,
           N = Len(s), N = Len(t), NEW q \in 1..(N - 1),
           t[q] = s[q + 1], t[q + 1] = <<>>, s[q] = <<>> \/ q = 1,
           \A n \in 1..N : n # q /\ n # q + 1 => s[n] = t[n]
    PROVE  \E p \in Seq(S) : Ahead(s, t, p, N)
<1>1. /\ q \in 1..N /\ q + 1 \in 1..N /\ 0 \in 0..N /\ q - 1 \in 0..N /\ q + 1 \in 0..N
      /\ (q + 1) - 1 = q /\ N \in (q + 1)..N /\ 1 - 1 = 0 /\ 0 + 1 = 1
    BY Around, Zenon
<1>2. s[q] \in Seq(S) /\ s[q + 1] \in Seq(S)
    BY <1>1, ElementOfSeq, Zenon
<1>3. PICK x : x = Prefixes(t)[q - 1]
    BY Zenon
<1>4. x \in Seq(S)
    BY <1>1, <1>3, PrefixesAre, Zenon
<1>5. Prefixes(s)[q - 1] = x
    <2>1. Agree(s, t, 0, q - 1)
        <3>1. \A n \in 1..(q - 1) : n \in 1..N /\ n # q /\ n # q + 1
            BY Around, Zenon
        <3> QED
            BY <1>1, <3>1, Zenon DEF Agree
    <2>2. Ahead(s, t, <<>>, 0) /\ <<>> \in Seq(S)
        <3>1. Prefixes(s)[0] = <<>> /\ Prefixes(t)[0] = <<>>
            BY <1>1, PrefixesAre, Zenon
        <3> QED
            BY <1>4, <3>1, JoinNothing, Zenon DEF Ahead
    <2>3. Ahead(s, t, <<>>, q - 1)
        BY <1>1, <2>1, <2>2, PrefixesFollow, Zenon
    <2> QED
        BY <1>3, <1>4, <2>3, JoinNothing, Zenon DEF Ahead
<1>6. PICK y : y = x \o s[q]
    BY Zenon
<1>7. Prefixes(s)[q] = y /\ Prefixes(s)[q + 1] = y \o s[q + 1]
    <2>1. \A n \in 1..N : Prefixes(s)[n] = Prefixes(s)[n - 1] \o s[n]
        BY PrefixesAre, Zenon
    <2>2. Prefixes(s)[q] = y
        BY <1>1, <1>5, <1>6, <2>1, Zenon
    <2> QED
        BY <1>1, <2>1, <2>2, Zenon
<1>8. PICK z \in Seq(S) : z = x \o s[q + 1]
    BY <1>2, <1>4, ConcatProperties, Zenon
<1>9. Prefixes(t)[q] = z /\ Prefixes(t)[q + 1] = z \o <<>>
    <2>1. \A n \in 1..N : Prefixes(t)[n] = Prefixes(t)[n - 1] \o t[n]
        BY PrefixesAre, Zenon
    <2>2. Prefixes(t)[q] = z
        BY <1>1, <1>3, <1>8, <2>1, Zenon
    <2> QED
        BY <1>1, <2>1, <2>2, Zenon
<1>10. Prefixes(t)[q + 1] = z
    BY <1>8, <1>9, JoinNothing, Zenon
<1>11. PICK p \in Seq(S) : Prefixes(s)[q + 1] = p \o z
    <2>1. CASE s[q] = <<>>
        <3>1. Prefixes(s)[q + 1] = z
            BY <1>4, <1>6, <1>7, <1>8, <2>1, JoinNothing, Zenon
        <3>2. z = <<>> \o z /\ <<>> \in Seq(S)
            BY JoinNothing, Zenon
        <3> QED
            BY <3>1, <3>2, Zenon
    <2>2. CASE q = 1
        <3>1. x = <<>>
            BY <1>1, <1>3, <2>2, PrefixesAre, Zenon
        <3>2. y = s[q] /\ z = s[q + 1]
            BY <1>2, <1>6, <1>8, <3>1, JoinNothing, Zenon
        <3> QED
            BY <1>2, <1>7, <3>2, Zenon
    <2> QED
        BY <2>1, <2>2, Zenon
<1>12. Agree(s, t, q + 1, N)
    <2>1. \A n \in ((q + 1) + 1)..N : n \in 1..N /\ n # q /\ n # q + 1
        BY <1>1
    <2> QED
        BY <2>1, Zenon DEF Agree
<1>13. Ahead(s, t, p, q + 1)
    BY <1>10, <1>11, Zenon DEF Ahead
<1>14. Ahead(s, t, p, N)
    BY <1>1, <1>12, <1>13, PrefixesFollow, Zenon
<1> QED
    BY <1>14, Zenon

(* A line is appended to the newest file. *)
Longer(s, t, n, e) == Prefixes(t)[n] = Append(Prefixes(s)[n], e)

LEMMA AppendJoins ==
    ASSUME NEW S, NEW s \in Seq(Seq(S)), NEW t \in Seq(Seq(S)), NEW N \in Nat \ {0},
           N = Len(s), N = Len(t), NEW e \in S, t[N] = Append(s[N], e),
           \A n \in 1..(N - 1) : s[n] = t[n]
    PROVE  Longer(s, t, N, e)
<1>1. N \in Nat /\ N \in 1..N /\ N - 1 \in 0..N /\ 0 \in 0..N /\ 0 + 1 = 1
    OBVIOUS
<1>2. PICK x : x = Prefixes(t)[N - 1]
    BY Zenon
<1>3. x \in Seq(S) /\ s[N] \in Seq(S)
    BY <1>1, <1>2, PrefixesAre, ElementOfSeq, Zenon
<1>4. Prefixes(s)[N - 1] = x
    <2>1. Prefixes(s)[0] = <<>> /\ Prefixes(t)[0] = <<>>
        BY <1>1, PrefixesAre, Zenon
    <2>2. Ahead(s, t, <<>>, 0) /\ <<>> \in Seq(S)
        BY <1>3, <2>1, JoinNothing, Zenon DEF Ahead
    <2>3. Agree(s, t, 0, N - 1)
        BY <1>1, Zenon DEF Agree
    <2>4. Ahead(s, t, <<>>, N - 1)
        BY <1>1, <2>2, <2>3, PrefixesFollow, Zenon
    <2> QED
        BY <1>2, <1>3, <2>4, JoinNothing, Zenon DEF Ahead
<1>5. Prefixes(s)[N] = x \o s[N]
    BY <1>1, <1>4, PrefixesAre, Zenon
<1>6. Prefixes(t)[N] = x \o Append(s[N], e)
    BY <1>1, <1>2, PrefixesAre, Zenon
<1>7. Grows(x, s[N], e)
    BY <1>3, EndGrows, Zenon
<1> QED
    BY <1>5, <1>6, <1>7, Zenon DEF Grows, Longer

LEMMA SeqIs ==
    ASSUME NEW T, NEW n \in Nat, NEW c \in [1..n -> T]
    PROVE  c \in Seq(T)
OBVIOUS

(* The files of the log in a state that satisfies the invariant. *)
LEMMA FileLinesTyped ==
    ASSUME LogInv
    PROVE  /\ dir \in [Paths -> 0..MaxFiles] /\ content \in [1..MaxFiles -> Seq(Nat)]
           /\ content \in [1..MaxFiles -> Seq(1..seq)] /\ seq \in Nat
<1>1. /\ dir \in [Paths -> 0..files] /\ files \in 0..MaxFiles /\ seq \in 0..MaxEvents
      /\ content \in [1..MaxFiles -> Seq(Nat)] /\ LineInv
    BY Zenon DEF LogInv, LogTypeOK
<1>2. 0..files \subseteq 0..MaxFiles /\ seq \in Nat
    BY <1>1, LogConstants
<1>3. ASSUME NEW f \in 1..MaxFiles PROVE content[f] \in Seq(1..seq)
    <2>1. PICK c \in Seq(Nat) : c = content[f]
        BY <1>1, Zenon
    <2>2. \A k \in 1..Len(c) : c[k] \in 1..seq
        BY <1>1, <2>1, Zenon DEF LineInv
    <2>3. PICK n \in Nat : n = Len(c) /\ c \in [1..n -> Nat]
        BY LenProperties, Zenon
    <2>4. c \in [1..n -> 1..seq]
        BY <2>2, <2>3, Zenon
    <2>5. c \in Seq(1..seq)
        BY <2>4, SeqIs, Zenon
    <2> QED
        BY <2>1, <2>5, Zenon
<1>4. content \in [1..MaxFiles -> Seq(1..seq)]
    BY <1>1, <1>3, Zenon
<1>5. dir \in [Paths -> 0..MaxFiles]
    BY <1>1, <1>2, Zenon
<1> QED
    BY <1>1, <1>2, <1>4, <1>5, Zenon

(* Equal lists are joined alike. *)
LEMMA SameJoins ==
    ASSUME NEW S, NEW s \in Seq(Seq(S)), NEW t \in Seq(Seq(S)), NEW N \in Nat,
           N = Len(s), N = Len(t), \A n \in 1..N : s[n] = t[n]
    PROVE  <<>> \in Seq(S) /\ Ahead(s, t, <<>>, N)
<1>1. 0 \in 0..N /\ N \in 0..N /\ 0 + 1 = 1
    OBVIOUS
<1>2. Agree(s, t, 0, N)
    BY <1>1, Zenon DEF Agree
<1>3. Prefixes(s)[0] = <<>> /\ Prefixes(t)[0] = <<>>
    BY PrefixesAre, Zenon
<1>4. <<>> \in Seq(S)
    BY EmptySeq, Zenon
<1>5. Ahead(s, t, <<>>, 0)
    BY <1>3, <1>4, JoinNothing, Zenon DEF Ahead
<1> QED
    BY <1>1, <1>2, <1>4, <1>5, PrefixesFollow, Zenon

(* A step that moves files, on the lists of their lines. *)
LEMMA FilesMove ==
    ASSUME LogInv, NEW N \in Nat, N = MaxBackups + 1,
           NEW s \in Seq(Seq(Nat)), NEW t \in Seq(Seq(Nat)), N = Len(s), N = Len(t),
           LinesAt(s, dir, content, N), LinesAt(t, dir', content, N),
           RemoveOldest \/ ShiftBackup \/ RotateCurrent
    PROVE  \E p \in Seq(Nat) : Ahead(s, t, p, N)
<1>0. N \in Nat \ {0} /\ MaxBackups = N - 1 /\ MaxBackups \in Nat /\ 1 \in 1..N /\ N \in 0..N
    BY PathFacts
<1>1. CASE \A n \in 1..N : s[n] = t[n]
    BY <1>1, SameJoins, Zenon
<1>p. \A n \in 1..N : /\ N - n \in Paths
                      /\ s[n] = IF dir[N - n] = 0 THEN <<>> ELSE content[dir[N - n]]
                      /\ t[n] = IF dir'[N - n] = 0 THEN <<>> ELSE content[dir'[N - n]]
    BY Zenon DEF LinesAt
<1>2. CASE RemoveOldest
    <2>1. CASE dir' = [dir EXCEPT ![MaxBackups] = 0]
        <3>1. dir'[MaxBackups] = 0 /\ \A i \in Paths : i # MaxBackups => dir'[i] = dir[i]
            BY <2>1, PathFacts, Zenon DEF LogInv, LogTypeOK
        <3>2. N - 1 = MaxBackups /\ \A n \in 2..N : n \in 1..N /\ N - n # MaxBackups
            BY <1>0
        <3>3. t[1] = <<>>
            BY <1>0, <1>p, <3>1, <3>2, Zenon
        <3>4. ASSUME NEW n \in 2..N PROVE s[n] = t[n]
            <4>1. n \in 1..N /\ N - n \in Paths /\ dir'[N - n] = dir[N - n]
                BY <1>p, <3>1, <3>2, <3>4, Zenon
            <4> QED
                BY <1>p, <4>1, Zenon
        <3> QED
            BY <1>0, <3>3, <3>4, RemoveJoins, Zenon
    <2>2. CASE UNCHANGED dir
        BY <1>p, <1>1, <2>2, Zenon
    <2> QED
        BY <1>2, <2>1, <2>2, Zenon DEF RemoveOldest
<1>3. CASE ShiftBackup \/ RotateCurrent
    <2>1. /\ index \in Paths /\ index + 1 \in Paths /\ index \in Nat
          /\ index < MaxBackups
          /\ \A j \in Paths :
                dir'[j] = IF dir[index] = 0 THEN dir[j]
                          ELSE IF j = index + 1 THEN dir[index]
                          ELSE IF j = index THEN 0 ELSE dir[j]
          /\ dir[index + 1] = 0 \/ index + 1 = MaxBackups
        BY <1>3, RotationRename, Zenon
    <2>2. CASE dir[index] = 0
        <3>1. \A j \in Paths : dir'[j] = dir[j]
            BY <2>1, <2>2, Zenon
        <3>2. \A n \in 1..N : s[n] = t[n]
            BY <1>p, <3>1, Zenon
        <3> QED
            BY <1>1, <3>2, Zenon
    <2>3. CASE dir[index] # 0
        <3>a. index \in Nat /\ index < MaxBackups
            BY <2>1, Zenon
        <3>b. N - (index + 1) \in 1..(N - 1)
            BY <1>0, <3>a
        <3>1. PICK q \in 1..(N - 1) : q = N - (index + 1)
            BY <3>b, Zenon
        <3>2. /\ q \in 1..N /\ q + 1 \in 1..N /\ N - q = index + 1 /\ N - (q + 1) = index
              /\ index # index + 1 /\ (index + 1 = MaxBackups => q = 1)
              /\ \A n \in 1..N : n # q /\ n # q + 1 => N - n # index /\ N - n # index + 1
            BY <1>0, <3>a, <3>1
        <3>3. /\ dir'[index + 1] = dir[index] /\ dir'[index] = 0
              /\ \A j \in Paths : j # index /\ j # index + 1 => dir'[j] = dir[j]
            BY <2>1, <2>3, <3>2, Zenon
        <3>4. t[q] = s[q + 1] /\ t[q + 1] = <<>>
            <4>a. dir'[N - q] = dir[index]
                BY <3>2, <3>3, Zenon
            <4>b. q \in 1..N /\ dir'[N - q] # 0
                BY <2>3, <3>2, <4>a, Zenon
            <4>1. t[q] = content[dir[index]]
                BY <1>p, <4>a, <4>b, Zenon
            <4>2. s[q + 1] = content[dir[index]] /\ t[q + 1] = <<>>
                BY <1>p, <2>3, <3>2, <3>3, Zenon
            <4> QED
                BY <4>1, <4>2, Zenon
        <3>5. s[q] = <<>> \/ q = 1
            BY <1>p, <2>1, <3>2, Zenon
        <3>6. ASSUME NEW n \in 1..N, n # q, n # q + 1 PROVE s[n] = t[n]
            <4>1. N - n \in Paths /\ dir'[N - n] = dir[N - n]
                BY <1>p, <3>2, <3>3, <3>6, Zenon
            <4> QED
                BY <1>p, <4>1, Zenon
        <3> QED
            BY <3>4, <3>5, <3>6, RenameJoins, Zenon
    <2> QED
        BY <2>2, <2>3, Zenon
<1> QED
    BY <1>2, <1>3, Zenon

(* Every step of the writer is one of the append-only log, or none. *)
LEMMA AbstractStep ==
    ASSUME LogInv, LogInv', [LogNext]_logVars
    PROVE  Abstract!Extend \/ Abstract!Trim \/ UNCHANGED AllLines
<1>0. PICK N \in Nat : N = MaxBackups + 1
    BY PathFacts
<1>1. /\ dir \in [Paths -> 0..MaxFiles] /\ content \in [1..MaxFiles -> Seq(Nat)]
      /\ seq \in Nat
    BY FileLinesTyped, Zenon
<1>c. content \in [1..MaxFiles -> Seq(1..seq)]
    BY FileLinesTyped, Zenon
<1>2. dir' \in [Paths -> 0..MaxFiles] /\ content' \in [1..MaxFiles -> Seq(Nat)]
    <2>1. /\ dir' \in [Paths -> 0..files'] /\ files' \in 0..MaxFiles
          /\ content' \in [1..MaxFiles -> Seq(Nat)]
        BY Zenon DEF LogInv, LogTypeOK
    <2>2. 0..files' \subseteq 0..MaxFiles
        BY <2>1, LogConstants
    <2> QED
        BY <2>1, <2>2, Zenon
<1>3. PICK s : s = FileLines(dir, content)
    BY Zenon
<1>4. PICK t : t = FileLines(dir', content')
    BY Zenon
<1>5. s \in Seq(Seq(Nat)) /\ N = Len(s) /\ LinesAt(s, dir, content, N)
    <2>1. /\ FileLines(dir, content) \in Seq(Seq(Nat))
          /\ Len(FileLines(dir, content)) = MaxBackups + 1
          /\ LinesAt(FileLines(dir, content), dir, content, MaxBackups + 1)
        BY <1>1, FileLinesAre, Zenon
    <2> QED
        BY <1>0, <1>3, <2>1, Zenon
<1>e. s \in Seq(Seq(1..seq))
    BY <1>1, <1>c, <1>3, FileLinesAre, Zenon
<1>s. \A n \in 1..N : /\ N - n \in Paths
                      /\ s[n] = IF dir[N - n] = 0 THEN <<>> ELSE content[dir[N - n]]
    BY <1>5, Zenon DEF LinesAt
<1>6. t \in Seq(Seq(Nat)) /\ N = Len(t) /\ LinesAt(t, dir', content', N)
    <2>1. /\ FileLines(dir', content') \in Seq(Seq(Nat))
          /\ Len(FileLines(dir', content')) = MaxBackups + 1
          /\ LinesAt(FileLines(dir', content'), dir', content', MaxBackups + 1)
        BY <1>2, FileLinesAre, Zenon
    <2> QED
        BY <1>0, <1>4, <2>1, Zenon
<1>t. \A n \in 1..N : t[n] = IF dir'[N - n] = 0 THEN <<>> ELSE content'[dir'[N - n]]
    BY <1>6, Zenon DEF LinesAt
<1>7. N \in 0..N /\ N \in 1..N /\ N \in Nat \ {0}
    BY <1>0, PathFacts
<1>8. PICK a : a = Prefixes(s)[N]
    BY Zenon
<1>9. PICK b : b = Prefixes(t)[N]
    BY Zenon
<1>10. AllLines = a /\ AllLines' = b
    BY <1>0, <1>3, <1>4, <1>8, <1>9, Zenon DEF AllLines
<1>11. a \in Seq(Nat) /\ a \in Seq(1..seq)
    BY <1>5, <1>e, <1>7, <1>8, PrefixesAre, Zenon
<1>12. b \in Seq(Nat)
    BY <1>6, <1>7, <1>9, PrefixesAre, Zenon
<1>13. CASE AppendBegin
    <2>1. /\ file = dir[0] /\ dir[0] # 0 /\ UNCHANGED dir /\ 0 \in Paths
          /\ content' = [content EXCEPT ![file] = Append(content[file], seq + 1)]
        BY <1>13, PathFacts, Zenon DEF AppendBegin, LogInv, HandleInv
    <2>2. PICK f \in 1..MaxFiles : f = dir[0]
        <3>1. dir[0] \in 0..MaxFiles /\ dir[0] # 0
            BY <1>1, <2>1, Zenon
        <3> QED
            BY <3>1, LogConstants
    <2>3. /\ content'[f] = Append(content[f], seq + 1)
          /\ \A g \in 1..MaxFiles : g # f => content'[g] = content[g]
        BY <1>1, <2>1, <2>2, Zenon
    <2>4. N - N = 0 /\ \A n \in 1..(N - 1) : n \in 1..N /\ N - n # 0 /\ 0 < N - n
        BY <1>0, <1>7
    <2>5. t[N] = Append(s[N], seq + 1)
        <3>1. s[N] = content[f]
            BY <1>s, <1>7, <2>1, <2>2, <2>4, Zenon
        <3>2. t[N] = content'[f]
            BY <1>t, <1>7, <2>1, <2>2, <2>4, Zenon
        <3> QED
            BY <2>3, <3>1, <3>2, Zenon
    <2>6. ASSUME NEW n \in 1..(N - 1) PROVE s[n] = t[n]
        <3>1. n \in 1..N /\ N - n \in Paths /\ 0 < N - n
            BY <1>s, <2>4, <2>6, Zenon
        <3>2. dir[N - n] \in 0..MaxFiles
            BY <1>1, <3>1, Zenon
        <3>3. CASE dir[N - n] = 0
            BY <1>s, <1>t, <2>1, <3>1, <3>3, Zenon
        <3>4. CASE dir[N - n] # 0
            <4>1. dir[N - n] < f
                BY <2>1, <2>2, <3>1, <3>4, Zenon DEF LogInv, AgeInv
            <4>2. dir[N - n] \in 1..MaxFiles /\ dir[N - n] # f
                BY <3>2, <3>4, <4>1, LogConstants
            <4>3. content'[dir[N - n]] = content[dir[N - n]]
                BY <2>3, <4>2, Zenon
            <4> QED
                BY <1>s, <1>t, <2>1, <3>1, <3>4, <4>3, Zenon
        <3> QED
            BY <3>3, <3>4, Zenon
    <2>7. seq + 1 \in Nat
        BY <1>1
    <2>8. b = Append(a, seq + 1)
        <3>1. Longer(s, t, N, seq + 1)
            BY <1>5, <1>6, <1>7, <2>5, <2>6, <2>7, AppendJoins, Zenon
        <3> QED
            BY <1>8, <1>9, <3>1, Zenon DEF Longer
    <2>9. /\ Len(b) = Len(a) + 1 /\ SubSeq(b, 1, Len(a)) = a /\ b[Len(b)] = seq + 1
        BY <1>11, <2>7, <2>8
    <2>10. \A k \in 1..Len(a) : a[k] < b[Len(b)]
        <3>1. ASSUME NEW k \in 1..Len(a) PROVE a[k] < seq + 1
            <4>1. a[k] \in 1..seq
                BY <1>11, ElementOfSeq, Zenon
            <4> QED
                BY <1>1, <4>1
        <3> QED
            BY <2>9, <3>1, Zenon
    <2> QED
        BY <1>10, <2>9, <2>10, Zenon DEF Abstract!Extend
<1>14. CASE RemoveOldest \/ ShiftBackup \/ RotateCurrent
    <2>1. UNCHANGED content
        BY <1>14, Zenon DEF RemoveOldest, ShiftBackup, RotateCurrent
    <2>2. LinesAt(t, dir', content, N)
        BY <1>6, <2>1, Zenon
    <2>3. PICK p \in Seq(Nat) : Ahead(s, t, p, N)
        BY <1>0, <1>5, <1>6, <1>14, <2>2, FilesMove, Zenon
    <2>4. a = p \o b
        BY <1>8, <1>9, <2>3, Zenon DEF Ahead
    <2>5. \/ p \o b = b
          \/ \E k \in 1..Len(p \o b) : b = SubSeq(p \o b, k + 1, Len(p \o b))
        BY <1>12, FrontLeaves, Zenon
    <2> QED
        BY <1>10, <2>4, <2>5, Zenon DEF Abstract!Trim
<1>15. CASE New \/ Reopen \/ OpenRotated
    <2>1. OpenPath /\ UNCHANGED content
        BY <1>15, Zenon DEF New, Reopen, OpenRotated
    <2>2. CASE UNCHANGED dir
        BY <2>1, <2>2, Zenon DEF AllLines
    <2>3. CASE files' = files + 1 /\ dir[0] = 0
        <3>1. dir'[0] = files + 1 /\ \A i \in Paths : i # 0 => dir'[i] = dir[i]
            BY <2>1, <2>3, OpenPathIs, Zenon
        <3>2. files + 1 \in 1..MaxFiles /\ ~(files + 1 <= files) /\ files + 1 # 0
            <4>1. files \in 0..MaxFiles /\ files + 1 \in 0..MaxFiles
                BY <2>3, Zenon DEF LogInv, LogTypeOK
            <4> QED
                BY <4>1, LogConstants
        <3>3. content[files + 1] = <<>>
            <4>1. PICK c \in Seq(Nat) : c = content[files + 1]
                BY <1>1, <3>2, Zenon
            <4>2. ~(\E k \in 1..Len(c) : TRUE)
                BY <3>2, <4>1, Zenon DEF LogInv, LineInv
            <4>3. c = <<>>
                BY <4>2, EmptySeq, LenProperties
            <4> QED
                BY <4>1, <4>3, Zenon
        <3>4. ASSUME NEW n \in 1..N PROVE s[n] = t[n]
            <4>1. CASE N - n = 0
                BY <1>s, <1>t, <2>1, <2>3, <3>1, <3>2, <3>3, <4>1, Zenon
            <4>2. CASE N - n # 0
                BY <1>s, <1>t, <2>1, <3>1, <4>2, Zenon
            <4> QED
                BY <4>1, <4>2, Zenon
        <3>5. <<>> \in Seq(Nat) /\ Ahead(s, t, <<>>, N)
            BY <1>5, <1>6, <3>4, SameJoins, Zenon
        <3>6. <<>> \o b = b
            BY <1>12, JoinNothing, Zenon
        <3> QED
            BY <1>8, <1>9, <1>10, <3>5, <3>6, Zenon DEF Ahead
    <2> QED
        BY <2>1, <2>2, <2>3, OpenPathIs, Zenon
<1>16. CASE UNCHANGED dir /\ UNCHANGED content
    BY <1>16, Zenon DEF AllLines
<1> QED
    BY <1>13, <1>14, <1>15, <1>16, LogCases, Zenon DEF WriteBegin, RotateClose, RenameFails,
       OpenFails, AppendRest, AppendFails, Sync, SyncFails, Close, Crash, disk, logVars

(* The log and its backups together are an append-only log, for any number *)
(* of backups: Write adds lines at the end in the order of the events, and *)
(* renames, failed renames, crashes and reopenings change nothing but that *)
(* the oldest lines leave (docs/PRD.md: "Append-only JSONL event logging").*)
THEOREM LogRefinement == LogSpec => ImplementsAppendOnlyLog
<1>1. LogInit => Abstract!Init
    <2> SUFFICES ASSUME LogInit PROVE AllLines = <<>>
        BY Zenon DEF Abstract!Init
    <2>1. PICK N \in Nat : N = MaxBackups + 1
        BY PathFacts
    <2>2. PICK s : s = FileLines(dir, content)
        BY Zenon
    <2>3. dir \in [Paths -> 0..MaxFiles] /\ content \in [1..MaxFiles -> Seq({})]
        BY LogConstants DEF LogInit
    <2>4. s \in Seq(Seq({})) /\ N = Len(s)
        BY <2>1, <2>2, <2>3, FileLinesAre, Zenon
    <2>5. N \in 0..N
        BY <2>1
    <2>6. Prefixes(s)[N] \in Seq({})
        BY <2>4, <2>5, PrefixesAre, Zenon
    <2>7. Prefixes(s)[N] = <<>>
        BY <2>6
    <2> QED
        BY <2>1, <2>2, <2>7, Zenon DEF AllLines
<1>2. LogInv /\ LogInv' /\ [LogNext]_logVars => [Abstract!Extend \/ Abstract!Trim]_AllLines
    BY AbstractStep, Zenon
<1> QED
    BY <1>1, <1>2, LogInvariance, PTL DEF LogSpec, ImplementsAppendOnlyLog, Abstract!Spec

=============================================================================
