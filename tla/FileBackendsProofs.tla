-------------------------- MODULE FileBackendsProofs --------------------------
(***************************************************************************)
(* For every dpkg database, any number of workers and any order of theirs, *)
(* and in every run of either program: what files() of the Debian backend  *)
(* answers is what the database declares, theorem FilesAgree; and, behind  *)
(* the caches and from run to run, a scan expects what the installed       *)
(* versions of the packages have, theorem ScansAsInstalled, and original   *)
(* contents are theirs, theorem OriginalsAsInstalled.  For any lines of    *)
(* tmpfiles.d in any order: when they were all processed, every path is    *)
(* what the lines say of it, theorem LastLines.  For either backend the    *)
(* variables keep their types, theorem TypeCorrect.                        *)
(*                                                                         *)
(* The inductive invariant of the first (PathInv) says of each path, while *)
(* the entries are merged, what its entry is made of and which claims to   *)
(* it are left; while a worker is still at it, all the configuration files *)
(* are left.  That of the others (RunInv) says that what is cached under a *)
(* key is what its archive has, and what each stage has of a result.       *)
(*                                                                         *)
(* Both rest on what the parsers make of dpkg's and apt's files, whose     *)
(* loops are recursive functions here: for any files of the form that      *)
(* these have (WrittenAssumption) what they read of each package is what   *)
(* its own stanza says, theorem FilesReadAsWritten.  A stanza is followed  *)
(* line by line (ReadTo), a file stanza by stanza (Parsed and              *)
(* InstalledByApt).                                                        *)
(*                                                                         *)
(* For tmpfiles.d the inductive invariant (TmpfilesInv) is that after each *)
(* line the files are what the lines so far say (AsSaid), and that the     *)
(* cache of ids has what the host has.  Of the new line it only matters    *)
(* whether it says something of the path, and whether that is a file or    *)
(* permissions to adjust.                                                  *)
(***************************************************************************)
EXTENDS FileBackends, SequenceTheorems, FiniteSetTheorems, TLAPS

-----------------------------------------------------------------------------
(* Numbers *)

\* Every set of natural numbers but the empty one has a least element.
LEMMA LeastNumber ==
    ASSUME NEW T \in SUBSET Nat, T # {}
    PROVE  \E x \in T : \A y \in T : x <= y
<1> DEFINE U == {1 .. x : x \in T}
<1>1. U # {} /\ U \subseteq FiniteSubsetsOf(Nat)
  <2>1. ASSUME NEW x \in T PROVE IsFiniteSet(1 .. x) /\ 1 .. x \in SUBSET Nat
    BY FS_Interval
  <2>. QED  BY <2>1 DEF FiniteSubsetsOf
<1>2. IsWellFoundedOn(StrictSubsetOrdering(Nat), FiniteSubsetsOf(Nat))
  BY FS_StrictSubsetOrderingWellFounded
<1>3. PICK u \in U : \A v \in U : ~ (<<v, u>> \in StrictSubsetOrdering(Nat))
  <2>. HIDE DEF U
  <2>. QED  BY <1>1, <1>2, WFMin
<1>4. PICK x \in T : u = 1 .. x
  OBVIOUS
<1>5. ASSUME NEW y \in T, y < x PROVE FALSE
  <2>1. 1 .. y \subseteq 1 .. x /\ x \in 1 .. x /\ x \notin 1 .. y
    BY <1>5
  <2>2. 1 .. y \in U /\ 1 .. y \in SUBSET Nat /\ 1 .. x \in SUBSET Nat
    OBVIOUS
  <2>. QED  BY <1>3, <1>4, <2>1, <2>2 DEF StrictSubsetOrdering
<1>. QED  BY <1>5

\* Max is the greatest of finitely many numbers.
LEMMA Greatest ==
    ASSUME NEW n \in Nat, NEW T \in SUBSET (0 .. n), T # {}
    PROVE  Max(T) \in T /\ \A y \in T : y <= Max(T)
<1> DEFINE U == {n - x : x \in T}
<1>1. PICK u \in U : \A v \in U : u <= v
  <2>1. U \in SUBSET Nat
    <3>1. \A x \in T : n - x \in Nat
      OBVIOUS
    <3>. QED  BY <3>1
  <2>2. U # {}
    OBVIOUS
  <2>. HIDE DEF U
  <2>. QED  BY <2>1, <2>2, LeastNumber
<1>2. \E x \in T : \A y \in T : x >= y
  <2>1. PICK x \in T : u = n - x
    OBVIOUS
  <2>2. ASSUME NEW y \in T PROVE x >= y
    <3>1. n - x <= n - y
      BY <1>1, <2>1
    <3>. QED  BY <3>1
  <2>. QED  BY <2>2
<1>3. Max(T) \in T /\ \A y \in T : Max(T) >= y
  BY <1>2 DEF Max
<1>. QED  BY <1>3

\* The last of some lines and a later one is the later one.
LEMMA MaxIsLater ==
    ASSUME NEW k \in Nat, NEW S, S \subseteq 1 .. k
    PROVE  Max(S \cup {k + 1}) = k + 1
<1>. DEFINE T == S \cup {k + 1}
            Top(x) == \A y \in T : x >= y
<1>1. k + 1 \in T /\ Top(k + 1)
  OBVIOUS
<1>2. \A x \in T : Top(x) => x = k + 1
  OBVIOUS
<1>3. Max(T) = CHOOSE x \in T : Top(x)
  BY DEF Max
<1>. HIDE DEF T, Top
<1>4. Max(T) = k + 1
  BY <1>1, <1>2, <1>3
<1>. QED  BY <1>4 DEF T

\* The first of some lines stays the first when a later one is added.
LEMMA MinStays ==
    ASSUME NEW k \in Nat, NEW S, S \subseteq 1 .. k, S # {}
    PROVE  Min(S \cup {k + 1}) = Min(S)
<1>. DEFINE T == S \cup {k + 1}
            Least(x, U) == \A y \in U : x =< y
<1>1. PICK x \in S : \A y \in S : x <= y
  <2>1. S \in SUBSET Nat
    OBVIOUS
  <2>. QED  BY <2>1, LeastNumber
<1>2. x \in T /\ Least(x, T) /\ Least(x, S)
  BY <1>1
<1>3. /\ \A z \in T : Least(z, T) => z = x
      /\ \A z \in S : Least(z, S) => z = x
  BY <1>1
<1>4. Min(T) = (CHOOSE z \in T : Least(z, T)) /\ Min(S) = (CHOOSE z \in S : Least(z, S))
  BY DEF Min
<1>. HIDE DEF T, Least
<1>5. Min(T) = x /\ Min(S) = x
  BY <1>1, <1>2, <1>3, <1>4
<1>. QED  BY <1>5 DEF T

\* The first of one is that.
LEMMA MinOfOne ==
    ASSUME NEW n \in Nat
    PROVE  Min({n}) = n
<1>1. Min({n}) = CHOOSE x \in {n} : \A y \in {n} : x =< y
  BY DEF Min
<1>. QED  BY <1>1

\* A number that none of a set exceeds is its greatest.
LEMMA TheGreatest ==
    ASSUME NEW n \in Nat, NEW T \in SUBSET (0 .. n), NEW t \in T, \A y \in T : y <= t
    PROVE  Max(T) = t
<1>. DEFINE top == Max(T)
<1>1. top \in T /\ \A y \in T : y <= top
  BY Greatest
<1>. HIDE DEF top
<1>2. top \in Nat /\ t \in Nat /\ top <= t /\ t <= top
  BY <1>1
<1>. QED  BY <1>2 DEF top

\* Induction up to n, for what the numbers of T have.
LEMMA UpTo ==
    ASSUME NEW n \in Nat, NEW T, 0 \in T, \A k \in 0 .. n - 1 : k \in T => k + 1 \in T
    PROVE  \A k \in 0 .. n : k \in T
<1> DEFINE U == {k \in 0 .. n : k \notin T}
<1>1. SUFFICES ASSUME U # {} PROVE FALSE
  OBVIOUS
<1>2. PICK x \in U : \A y \in U : x <= y
  <2>1. U \in SUBSET Nat
    OBVIOUS
  <2>. HIDE DEF U
  <2>. QED  BY <1>1, <2>1, LeastNumber
<1>3. x # 0 /\ x - 1 \in 0 .. n - 1 /\ x - 1 \in T
  BY <1>2
<1>. QED  BY <1>2, <1>3

-----------------------------------------------------------------------------
(* Recursive functions *)

\* The functions on 0 .. n that are given by their steps: there is one.
Steps(X, x0, n, h) == {f \in [0 .. n -> X] : f[0] = x0 /\ \A k \in 1 .. n : f[k] = h[k][f[k - 1]]}

LEMMA Recursion ==
    ASSUME NEW X, NEW x0 \in X, NEW n \in Nat, NEW h \in [1 .. n -> [X -> X]]
    PROVE  Steps(X, x0, n, h) # {}
<1>. DEFINE Solves(m, f) == f[0] = x0 /\ \A k \in 1 .. m : f[k] = h[k][f[k - 1]]
            T == {m \in 0 .. n : \E f \in [0 .. m -> X] : Solves(m, f)}
<1>1. 0 \in T
  <2>. DEFINE g == [k \in 0 .. 0 |-> x0]
  <2>1. g \in [0 .. 0 -> X] /\ Solves(0, g)
    OBVIOUS
  <2>. HIDE DEF g, Solves
  <2>. QED  BY <2>1
<1>2. ASSUME NEW m \in 0 .. n - 1, m \in T PROVE m + 1 \in T
  <2>1. PICK f \in [0 .. m -> X] : Solves(m, f)
    BY <1>2
  <2>. DEFINE g == [k \in 0 .. m + 1 |-> IF k = m + 1 THEN h[m + 1][f[m]] ELSE f[k]]
  <2>2. m + 1 \in 1 .. n /\ m \in 0 .. m /\ h[m + 1] \in [X -> X] /\ f[m] \in X
    OBVIOUS
  <2>3. g \in [0 .. m + 1 -> X]
    BY <2>2
  <2>4. \A k \in 0 .. m : g[k] = f[k]
    OBVIOUS
  <2>5. ASSUME NEW k \in 1 .. m + 1 PROVE g[k] = h[k][g[k - 1]]
    <3>1. CASE k = m + 1
      <4>1. k - 1 = m /\ g[k] = h[m + 1][f[m]]
        BY <3>1
      <4>. QED  BY <2>2, <2>4, <3>1, <4>1
    <3>2. CASE k # m + 1
      <4>1. k \in 1 .. m /\ k \in 0 .. m /\ k - 1 \in 0 .. m
        BY <3>2
      <4>. HIDE DEF g
      <4>. QED  BY <2>1, <2>4, <4>1
    <3>. QED  BY <3>1, <3>2
  <2>6. g[0] = x0
    BY <2>1, <2>4
  <2>. HIDE DEF g
  <2>7. Solves(m + 1, g)
    BY <2>5, <2>6
  <2>. HIDE DEF Solves
  <2>. QED  BY <2>2, <2>3, <2>7
<1>3. n \in T
  <2>. HIDE DEF T
  <2>1. \A m \in 0 .. n : m \in T
    BY <1>1, <1>2, UpTo
  <2>. QED  BY <2>1
<1>4. PICK f \in [0 .. n -> X] : Solves(n, f)
  BY <1>3
<1>5. f \in Steps(X, x0, n, h)
  BY <1>4 DEF Steps
<1>. QED  BY <1>5

\* The first k items of a sequence of sequences, one after the other.
Flat(s, k) == FlattenSeq([i \in 1 .. k |-> s[i]])

FlatAt(S, s, k) ==
    /\ Flat(s, k) \in Seq(S)
    /\ k = 0 => Flat(s, k) = <<>>
    /\ k > 0 => Flat(s, k) = Flat(s, k - 1) \o s[k]

LEMMA Flattened ==
    ASSUME NEW S, NEW n \in Nat, NEW s \in [1 .. n -> Seq(S)], NEW k \in 0 .. n
    PROVE  FlatAt(S, s, k)
<1>. DEFINE h == [i \in 1 .. n |-> [x \in Seq(S) |-> x \o s[i]]]
<1>1. <<>> \in Seq(S)
  OBVIOUS
<1>2. h \in [1 .. n -> [Seq(S) -> Seq(S)]]
  <2>1. \A i \in 1 .. n : \A x \in Seq(S) : x \o s[i] \in Seq(S)
    BY ConcatProperties
  <2>. QED  BY <2>1
<1>3. PICK g \in [0 .. n -> Seq(S)] : g[0] = <<>> /\ \A i \in 1 .. n : g[i] = h[i][g[i - 1]]
  <2>. DEFINE X == Seq(S)
              x0 == <<>>
  <2>1. x0 \in X /\ h \in [1 .. n -> [X -> X]]
    BY <1>1, <1>2
  <2>. HIDE DEF h, X, x0
  <2>2. Steps(X, x0, n, h) # {}
    BY <2>1, Recursion
  <2>. QED  BY <2>2 DEF Steps, X, x0
<1>4. \A i \in 1 .. n : g[i] = g[i - 1] \o s[i]
  <2>1. \A i \in 1 .. n : i - 1 \in 0 .. n
    OBVIOUS
  <2>. QED  BY <1>3, <2>1
<1>5. ASSUME NEW m \in 0 .. n PROVE Flat(s, m) = g[m]
  <2>. DEFINE seqs == [i \in 1 .. m |-> s[i]]
  <2>1. seqs \in Seq(Seq(S)) /\ Len(seqs) = m
    <3>1. seqs \in [1 .. m -> Seq(S)]
      OBVIOUS
    <3>. HIDE DEF seqs
    <3>2. seqs \in Seq(Seq(S)) /\ DOMAIN seqs = 1 .. m
      BY <3>1, SeqDef
    <3>. QED  BY <3>2, LenProperties
  <2>2. CASE m = 0
    <3>1. seqs = <<>>
      BY <2>1, <2>2, EmptySeq
    <3>. HIDE DEF seqs
    <3>. QED  BY <1>3, <2>1, <2>2, <3>1 DEF FlattenSeq, Flat, seqs
  <2>3. CASE m > 0
    <3>. DEFINE f == [i \in 1 .. m |-> g[i]]
                is == CHOOSE f1 : f1 = [i \in 1 .. m |-> IF i = 1 THEN seqs[i] ELSE f1[i - 1] \o seqs[i]]
    <3>1. f = [i \in 1 .. m |-> IF i = 1 THEN seqs[i] ELSE f[i - 1] \o seqs[i]]
      <4>1. ASSUME NEW i \in 1 .. m PROVE f[i] = IF i = 1 THEN seqs[i] ELSE f[i - 1] \o seqs[i]
        <5>1. i \in 1 .. n /\ seqs[i] = s[i] /\ f[i] = g[i - 1] \o s[i]
          <6>1. i \in 1 .. n
            OBVIOUS
          <6>2. seqs[i] = s[i] /\ f[i] = g[i]
            OBVIOUS
          <6>. QED  BY <1>4, <6>1, <6>2
        <5>2. CASE i = 1
          <6>1. g[i - 1] = <<>>
            BY <1>3, <5>2
          <6>. QED  BY <5>1, <5>2, <6>1, ConcatEmptySeq
        <5>3. CASE i # 1
          <6>1. i - 1 \in 1 .. m
            BY <5>3
          <6>. QED  BY <5>1, <5>3, <6>1, SMTT(30)
        <5>. QED  BY <5>2, <5>3
      <4>. HIDE DEF seqs
      <4>. QED  BY <4>1
    <3>2. is = [i \in 1 .. m |-> IF i = 1 THEN seqs[i] ELSE is[i - 1] \o seqs[i]]
      <4>. HIDE DEF f, seqs
      <4>. QED  BY <3>1, Zenon
    <3>3. FlattenSeq(seqs) = is[m]
      <4>. HIDE DEF seqs
      <4>. QED  BY <2>1, <2>3 DEF FlattenSeq
    <3>4. \A i \in 1 .. m : is[i] = IF i = 1 THEN seqs[i] ELSE is[i - 1] \o seqs[i]
      <4>. HIDE DEF seqs, is
      <4>. QED  BY <3>2
    <3>5. \A i \in 1 .. m : f[i] = IF i = 1 THEN seqs[i] ELSE f[i - 1] \o seqs[i]
      <4>. HIDE DEF seqs, f
      <4>. QED  BY <3>1
    <3>. DEFINE T == {i \in 0 .. m : i > 0 => is[i] = f[i]}
    <3>. HIDE DEF is, f, seqs
    <3>6. ASSUME NEW i \in 0 .. m - 1, i \in T PROVE i + 1 \in T
      <4>1. i + 1 \in 1 .. m /\ (i + 1) - 1 = i /\ (i + 1 # 1 => i > 0)
        BY <2>3
      <4>2. i + 1 # 1 => is[i] = f[i]
        BY <3>6, <4>1
      <4>3. is[i + 1] = f[i + 1]
        <5>1. is[i + 1] = IF i + 1 = 1 THEN seqs[i + 1] ELSE is[i] \o seqs[i + 1]
          BY <3>4, <4>1
        <5>2. f[i + 1] = IF i + 1 = 1 THEN seqs[i + 1] ELSE f[i] \o seqs[i + 1]
          BY <3>5, <4>1
        <5>. QED  BY <4>2, <5>1, <5>2
      <4>4. i + 1 \in 0 .. m
        BY <4>1
      <4>. QED  BY <4>3, <4>4
    <3>7. m \in T
      <4>1. 0 \in T
        OBVIOUS
      <4>. HIDE DEF T
      <4>2. \A i \in 0 .. m : i \in T
        <5>1. m \in Nat
          OBVIOUS
        <5>. QED  BY <3>6, <4>1, <5>1, UpTo
      <4>. QED  BY <4>2
    <3>8. is[m] = f[m]
      BY <2>3, <3>7
    <3>. QED  BY <2>3, <3>3, <3>8 DEF Flat, f, seqs
  <2>. QED  BY <2>2, <2>3
<1>6. k > 0 => k \in 1 .. n /\ k - 1 \in 0 .. n
  OBVIOUS
<1>7. Flat(s, k) = g[k] /\ g[k] \in Seq(S)
  BY <1>3, <1>5
<1>8. k = 0 => Flat(s, k) = <<>>
  BY <1>3, <1>7
<1>9. ASSUME k > 0 PROVE Flat(s, k) = Flat(s, k - 1) \o s[k]
  <2>1. Flat(s, k - 1) = g[k - 1] /\ g[k] = g[k - 1] \o s[k]
    BY <1>4, <1>5, <1>6, <1>9
  <2>. QED  BY <1>7, <2>1
<1>. QED  BY <1>7, <1>8, <1>9 DEF FlatAt

\* The function a has the steps of b, and then those of c, which starts where b ends.
Joins(X, x0, n, m, h, g, e, a, b, c) ==
    /\ n \in Nat /\ m \in Nat
    /\ a \in Steps(X, x0, n + m, h) /\ b \in Steps(X, x0, n, g) /\ c \in Steps(X, b[n], m, e)
    /\ \A i \in 1 .. n : h[i] = g[i]
    /\ \A i \in 1 .. m : h[n + i] = e[i]

\* It ends where c does.
LEMMA Joined ==
    ASSUME NEW X, NEW x0, NEW n, NEW m, NEW h, NEW g, NEW e, NEW a, NEW b, NEW c,
           Joins(X, x0, n, m, h, g, e, a, b, c)
    PROVE  a[n + m] = c[m]
<1>0. /\ n \in Nat /\ m \in Nat
      /\ \A i \in 1 .. n : h[i] = g[i]
      /\ \A i \in 1 .. m : h[n + i] = e[i]
  BY DEF Joins
<1>1. a[0] = x0 /\ \A k \in 1 .. n + m : a[k] = h[k][a[k - 1]]
  BY DEF Steps, Joins
<1>2. b[0] = x0 /\ \A k \in 1 .. n : b[k] = g[k][b[k - 1]]
  BY DEF Steps, Joins
<1>3. c[0] = b[n] /\ \A k \in 1 .. m : c[k] = e[k][c[k - 1]]
  BY DEF Steps, Joins
<1>. DEFINE T == {k \in 0 .. n : a[k] = b[k]}
            U == {k \in 0 .. m : a[n + k] = c[k]}
<1>4. 0 \in T
  BY <1>0, <1>1, <1>2
<1>5. ASSUME NEW k \in 0 .. n - 1, k \in T PROVE k + 1 \in T
  <2>1. k + 1 \in 1 .. n /\ k + 1 \in 1 .. n + m /\ (k + 1) - 1 = k
    BY <1>0
  <2>2. a[k + 1] = h[k + 1][a[k]] /\ b[k + 1] = g[k + 1][b[k]] /\ h[k + 1] = g[k + 1]
    BY <1>0, <1>1, <1>2, <2>1
  <2>. QED  BY <1>5, <2>1, <2>2
<1>6. n \in T
  <2>. HIDE DEF T
  <2>1. \A k \in 0 .. n : k \in T
    BY <1>0, <1>4, <1>5, UpTo
  <2>. QED  BY <1>0, <2>1
<1>7. 0 \in U
  BY <1>0, <1>3, <1>6
<1>8. ASSUME NEW k \in 0 .. m - 1, k \in U PROVE k + 1 \in U
  <2>1. k + 1 \in 1 .. m /\ n + (k + 1) \in 1 .. n + m /\ (n + (k + 1)) - 1 = n + k
    BY <1>0
  <2>2. a[n + (k + 1)] = h[n + (k + 1)][a[n + k]]
    BY <1>1, <2>1
  <2>3. c[k + 1] = e[k + 1][c[k]] /\ h[n + (k + 1)] = e[k + 1]
    <3>1. (k + 1) - 1 = k
      OBVIOUS
    <3>. QED  BY <1>0, <1>3, <2>1, <3>1
  <2>. QED  BY <1>8, <2>1, <2>2, <2>3
<1>9. m \in U
  <2>. HIDE DEF U
  <2>1. \A k \in 0 .. m : k \in U
    BY <1>0, <1>7, <1>8, UpTo
  <2>. QED  BY <1>0, <2>1
<1>. QED  BY <1>9

\* What a function with given steps comes to is of their type.
LEMMA StepsType ==
    ASSUME NEW X, NEW x0, NEW n \in Nat, NEW h, NEW a \in Steps(X, x0, n, h)
    PROVE  \A k \in 0 .. n : a[k] \in X
  BY DEF Steps

-----------------------------------------------------------------------------
(* The states of the parsers *)

\* What a line does, of a parser that is in one of the states X.
OnStatus(X, lines) == [n \in 1 .. Len(lines) |-> [x \in X |-> StatusLine(x, lines[n])]]

\* The states of parse_status, line by line.
LEMMA StatusSteps ==
    ASSUME NEW X, NEW L, \A x \in X : \A line \in L : StatusLine(x, line) \in X,
           NEW s \in X, NEW lines \in Seq(L)
    PROVE  StatusStates(s, lines) \in Steps(X, s, Len(lines), OnStatus(X, lines))
<1>. DEFINE n == Len(lines)
            h == OnStatus(X, lines)
            after == CHOOSE f : f = [k \in 0 .. n |->
                        IF k = 0 THEN s ELSE StatusLine(f[k - 1], lines[k])]
<1>1. n \in Nat /\ h \in [1 .. n -> [X -> X]] /\ \A k \in 1 .. n : \A x \in X :
                                                    h[k][x] = StatusLine(x, lines[k])
  <2>1. n \in Nat /\ \A k \in 1 .. n : lines[k] \in L
    BY LenProperties
  <2>2. \A k \in 1 .. n : [x \in X |-> StatusLine(x, lines[k])] \in [X -> X]
    BY <2>1
  <2>. HIDE DEF n
  <2>3. h = [k \in 1 .. n |-> [x \in X |-> StatusLine(x, lines[k])]]
    BY DEF OnStatus, n
  <2>. QED  BY <2>1, <2>2, <2>3
<1>. HIDE DEF n, h
<1>2. PICK g \in [0 .. n -> X] : g[0] = s /\ \A k \in 1 .. n : g[k] = h[k][g[k - 1]]
  <2>1. Steps(X, s, n, h) # {}
    BY <1>1, Recursion
  <2>. QED  BY <2>1 DEF Steps
<1>3. g = [k \in 0 .. n |-> IF k = 0 THEN s ELSE StatusLine(g[k - 1], lines[k])]
  <2>1. ASSUME NEW k \in 0 .. n, k # 0 PROVE g[k] = StatusLine(g[k - 1], lines[k])
    <3>1. k \in 1 .. n /\ k - 1 \in 0 .. n
      BY <1>1, <2>1
    <3>. QED  BY <1>1, <1>2, <3>1
  <2>. QED  BY <1>2, <2>1
<1>4. after = [k \in 0 .. n |-> IF k = 0 THEN s ELSE StatusLine(after[k - 1], lines[k])]
  BY <1>3, Zenon
<1>5. StatusStates(s, lines) = after
  BY DEF StatusStates, n
<1>. HIDE DEF after
<1>6. \A k \in 0 .. n : after[k] = IF k = 0 THEN s ELSE StatusLine(after[k - 1], lines[k])
  BY <1>4
<1>. DEFINE T == {k \in 0 .. n : after[k] = g[k]}
<1>7. 0 \in T
  BY <1>1, <1>2, <1>6
<1>8. ASSUME NEW k \in 0 .. n - 1, k \in T PROVE k + 1 \in T
  <2>1. k + 1 \in 1 .. n /\ k + 1 \in 0 .. n /\ (k + 1) - 1 = k /\ k + 1 # 0
    BY <1>1
  <2>2. after[k + 1] = StatusLine(after[k], lines[k + 1])
    BY <1>6, <2>1
  <2>3. g[k + 1] = StatusLine(g[k], lines[k + 1])
    BY <1>1, <1>2, <2>1
  <2>. QED  BY <1>8, <2>1, <2>2, <2>3
<1>9. \A k \in 0 .. n : k \in T
  <2>. HIDE DEF T
  <2>. QED  BY <1>1, <1>7, <1>8, UpTo
<1>10. after = g
  BY <1>4, <1>9
<1>. QED  BY <1>2, <1>5, <1>10 DEF Steps, n, h

\* Lines after others are read on from where those lead.
StatusContinues(s, a, b) ==
    LET t == StatusStates(s, a)[Len(a)]
    IN  StatusStates(s, a \o b)[Len(a \o b)] = StatusStates(t, b)[Len(b)]

LEMMA StatusGoesOn ==
    ASSUME NEW X, NEW L, \A x \in X : \A line \in L : StatusLine(x, line) \in X,
           NEW s \in X, NEW a \in Seq(L), NEW b \in Seq(L)
    PROVE  StatusStates(s, a)[Len(a)] \in X /\ StatusContinues(s, a, b)
<1>. DEFINE A == StatusStates(s, a)
            t == A[Len(a)]
            B == StatusStates(t, b)
            C == StatusStates(s, a \o b)
            n == Len(a)
            m == Len(b)
            h == OnStatus(X, a \o b)
            g == OnStatus(X, a)
            e == OnStatus(X, b)
<1>1. /\ Len(a) \in Nat /\ Len(b) \in Nat /\ Len(a \o b) = Len(a) + Len(b) /\ a \o b \in Seq(L)
      /\ \A i \in 1 .. Len(a) : (a \o b)[i] = a[i]
      /\ \A i \in 1 .. Len(b) : (a \o b)[Len(a) + i] = b[i]
  <2>1. \A i \in 1 .. Len(b) : Len(a) + i \in 1 .. Len(a) + Len(b) /\ Len(a) + i > Len(a)
    BY LenProperties
  <2>2. \A i \in 1 .. Len(b) : (Len(a) + i) - Len(a) = i
    BY LenProperties
  <2>3. \A i \in 1 .. Len(a) : i \in 1 .. Len(a) + Len(b)
    BY LenProperties
  <2>. QED  BY <2>1, <2>2, <2>3, ConcatProperties, LenProperties
<1>2. StatusStates(s, a) \in Steps(X, s, Len(a), OnStatus(X, a))
  BY StatusSteps
<1>3. t \in X
  <2>1. A \in Steps(X, s, n, g) /\ n \in Nat
    BY <1>1, <1>2
  <2>. HIDE DEF A, n, g
  <2>2. \A k \in 0 .. n : A[k] \in X
    BY <2>1, StepsType
  <2>3. n \in 0 .. n
    BY <2>1
  <2>. QED  BY <2>2, <2>3 DEF n
<1>4. StatusStates(t, b) \in Steps(X, t, Len(b), OnStatus(X, b))
  BY <1>3, StatusSteps
<1>5. StatusStates(s, a \o b) \in Steps(X, s, Len(a) + Len(b), OnStatus(X, a \o b))
  BY <1>1, StatusSteps
<1>6. \A i \in 1 .. Len(a) : OnStatus(X, a \o b)[i] = OnStatus(X, a)[i]
  <2>1. \A i \in 1 .. Len(a) : i \in 1 .. Len(a \o b)
    BY <1>1
  <2>. QED  BY <1>1, <2>1 DEF OnStatus
<1>7. \A i \in 1 .. Len(b) : OnStatus(X, a \o b)[Len(a) + i] = OnStatus(X, b)[i]
  <2>1. \A i \in 1 .. Len(b) : Len(a) + i \in 1 .. Len(a \o b)
    BY <1>1
  <2>. QED  BY <1>1, <2>1 DEF OnStatus
<1>8. StatusStates(s, a \o b)[Len(a) + Len(b)] = StatusStates(t, b)[Len(b)]
  <2>1. Joins(X, s, n, m, h, g, e, C, A, B)
    BY <1>1, <1>2, <1>4, <1>5, <1>6, <1>7 DEF Joins
  <2>. HIDE DEF A, B, C, n, m, h, g, e
  <2>2. C[n + m] = B[m]
    BY <2>1, Joined
  <2>. QED  BY <2>2 DEF B, C, n, m
<1>. QED  BY <1>1, <1>3, <1>8 DEF StatusContinues

-----------------------------------------------------------------------------
(* Types of what is parsed *)

\* What dependencies are made of are lists.
AreLines(L) ==
    \A line \in L : line.key \in {"Pre-Depends", "Depends"} => line.value \in Seq(ToSet(line.value))

ValuesIn(L) == {line.value : line \in L} \cup {None}

DependsIn(L) == UNION {ToSet(DependsAt(line)) : line \in L}

ProvidesIn(L) == {ParseDepends(<<line.value>>)[1] : line \in L} \cup {<<>>}

BuildersIn(L) ==
    [ name : ValuesIn(L), Version : ValuesIn(L), Architecture : ValuesIn(L),
      Status : ValuesIn(L), Provides : ProvidesIn(L) ]

PackageRecords(L) ==
    [ name : ValuesIn(L), version : ValuesIn(L), arch : ValuesIn(L), installed : BOOLEAN,
      depends : Seq(DependsIn(L)), provides : ProvidesIn(L), reason : {"Explicit"},
      ids : {Ids(name, arch) : name \in ValuesIn(L), arch \in ValuesIn(L)} ]

PackagesIn(L) == {pkg \in PackageRecords(L) : pkg.ids = Ids(pkg.name, pkg.arch)}

EntriesIn(L) ==
    [ package : {Plain(name) : name \in ValuesIn(L)}, path : ValuesIn(L),
      props : {<<"RegularFileBasic", line.sum>> : line \in L}, config : {TRUE} ]

StatesIn(L) ==
    [ packages : Seq(PackagesIn(L)), conffiles : Seq(EntriesIn(L)), builder : BuildersIn(L),
      depends : Seq(DependsIn(L)), in_conffiles : BOOLEAN, failed : BOOLEAN ]

\* A line's dependencies are a list of some of those there are.
LEMMA DependsAre ==
    ASSUME NEW L, AreLines(L), NEW line \in L
    PROVE  /\ DependsAt(line) \in Seq(DependsIn(L))
           /\ line.key \in {"Pre-Depends", "Depends"} => DependsAt(line) = ParseDepends(line.value)
           /\ line.key \notin {"Pre-Depends", "Depends"} => DependsAt(line) = <<>>
<1>1. CASE line.key \in {"Pre-Depends", "Depends"}
  <2>. DEFINE v == line.value
              p == ParseDepends(v)
  <2>1. v \in Seq(ToSet(v)) /\ DependsAt(line) = p
    BY <1>1 DEF AreLines, DependsAt
  <2>2. Len(v) \in Nat /\ DOMAIN v = 1 .. Len(v)
    BY <2>1, LenProperties
  <2>. HIDE DEF v
  <2>3. p = [i \in 1 .. Len(v) |-> p[i]]
    BY <2>2 DEF ParseDepends
  <2>. HIDE DEF p
  <2>4. p \in [1 .. Len(v) -> ToSet(p)]
    <3>1. \A i \in 1 .. Len(v) : p[i] \in ToSet(p)
      BY <2>2, <2>3 DEF ToSet
    <3>. QED  BY <2>3, <3>1
  <2>5. ToSet(p) \subseteq DependsIn(L)
    BY <2>1 DEF DependsIn
  <2>6. p \in [1 .. Len(v) -> DependsIn(L)]
    BY <2>4, <2>5
  <2>. QED  BY <1>1, <2>1, <2>2, <2>6, SeqDef DEF v, p
<1>2. CASE line.key \notin {"Pre-Depends", "Depends"}
  BY <1>2 DEF DependsAt
<1>. QED  BY <1>1, <1>2

\* What the end of a package leaves.
LEMMA FinishedIs ==
    ASSUME NEW L, NEW s \in StatesIn(L)
    PROVE  LET b    == s.builder
               fail == b.name # None /\ None \in {b.Version, b.Architecture, b.Status}
               t    == Finished(s)
               pkg  == Package(b.name, b.Version, b.Architecture,
                               b.Status = "install ok installed", s.depends, b.Provides)
           IN  /\ t \in StatesIn(L)
               /\ fail => t = Failed(s) /\ t.failed
               /\ ~fail => t.failed = s.failed /\ t.conffiles = s.conffiles
               /\ b.name = None => t = s
               /\ b.name # None /\ ~fail => /\ t.depends = <<>>
                                            /\ t.packages = Append(s.packages, pkg)
<1>. DEFINE b == s.builder
            fail == b.name # None /\ None \in {b.Version, b.Architecture, b.Status}
            t == Finished(s)
            pkg == Package(b.name, b.Version, b.Architecture,
                           b.Status = "install ok installed", s.depends, b.Provides)
<1>1. s.packages \in Seq(PackagesIn(L)) /\ b \in BuildersIn(L)
  BY DEF StatesIn
<1>2. pkg \in PackagesIn(L)
  <2>1. /\ b.name \in ValuesIn(L) /\ b.Version \in ValuesIn(L) /\ b.Architecture \in ValuesIn(L)
        /\ b.Provides \in ProvidesIn(L) /\ s.depends \in Seq(DependsIn(L))
    BY <1>1 DEF BuildersIn, StatesIn
  <2>. HIDE DEF b
  <2>2. Ids(b.name, b.Architecture) \in {Ids(name, arch) : name \in ValuesIn(L), arch \in ValuesIn(L)}
    BY <2>1
  <2>3. pkg \in PackageRecords(L)
    BY <2>1, <2>2 DEF Package, PackageRecords
  <2>4. pkg.ids = Ids(pkg.name, pkg.arch)
    BY DEF Package
  <2>. QED  BY <2>3, <2>4 DEF PackagesIn
<1>3. CASE fail
  <2>1. t = Failed(s)
    BY <1>3 DEF Finished
  <2>2. t \in StatesIn(L) /\ t.failed
    BY <2>1 DEF Failed, StatesIn
  <2>. QED  BY <1>3, <2>1, <2>2
<1>4. CASE b.name = None
  BY <1>4 DEF Finished
<1>5. CASE b.name # None /\ ~fail
  <2>1. t = [s EXCEPT !.depends = <<>>, !.packages = Append(s.packages, pkg)]
    BY <1>5 DEF Finished
  <2>2. Append(s.packages, pkg) \in Seq(PackagesIn(L)) /\ <<>> \in Seq(DependsIn(L))
    <3>1. s.packages \in Seq(PackagesIn(L)) /\ pkg \in PackagesIn(L)
      BY <1>1, <1>2
    <3>. HIDE DEF pkg
    <3>. QED  BY <3>1, AppendProperties
  <2>. HIDE DEF pkg, t, b
  <2>3. /\ t \in StatesIn(L) /\ t.failed = s.failed /\ t.conffiles = s.conffiles
        /\ t.depends = <<>> /\ t.packages = Append(s.packages, pkg)
    BY <2>1, <2>2 DEF StatesIn
  <2>. QED  BY <1>5, <2>3 DEF pkg, t, b
<1>. QED  BY <1>3, <1>4, <1>5

\* What a line of a Conffiles section, or another, is to it.
LEMMA ConffileLineIs ==
    ASSUME NEW L, NEW s \in StatesIn(L), NEW line \in L
    PROVE  LET t     == ConffileLine(s, line)
               entry == DbEntry(Plain(s.builder.name), line.value, <<"RegularFileBasic", line.sum>>, TRUE)
               kept  == s.in_conffiles /\ line.key = " " /\ line.mark \notin SkippedMarks
           IN  /\ t \in StatesIn(L)
               /\ t.in_conffiles <=> s.in_conffiles /\ line.key = " "
               /\ t.builder = s.builder /\ t.packages = s.packages /\ t.depends = s.depends
               /\ t.failed = s.failed
               /\ t.conffiles = IF kept THEN Append(s.conffiles, entry) ELSE s.conffiles
<1>. DEFINE t == ConffileLine(s, line)
            entry == DbEntry(Plain(s.builder.name), line.value, <<"RegularFileBasic", line.sum>>, TRUE)
            kept == s.in_conffiles /\ line.key = " " /\ line.mark \notin SkippedMarks
<1>1. s.conffiles \in Seq(EntriesIn(L)) /\ entry \in EntriesIn(L)
  <2>1. s.conffiles \in Seq(EntriesIn(L)) /\ s.builder.name \in ValuesIn(L) /\ line.value \in ValuesIn(L)
    BY DEF StatesIn, BuildersIn, ValuesIn
  <2>2. Plain(s.builder.name) \in {Plain(name) : name \in ValuesIn(L)}
    BY <2>1
  <2>3. <<"RegularFileBasic", line.sum>> \in {<<"RegularFileBasic", x.sum>> : x \in L}
    OBVIOUS
  <2>. QED  BY <2>1, <2>2, <2>3 DEF EntriesIn, DbEntry
<1>2. CASE ~s.in_conffiles
  <2>1. t = s
    BY <1>2 DEF ConffileLine
  <2>. QED  BY <1>2, <2>1
<1>3. CASE s.in_conffiles /\ line.key # " "
  <2>1. t = [s EXCEPT !.in_conffiles = FALSE]
    BY <1>3 DEF ConffileLine
  <2>2. /\ t \in StatesIn(L) /\ ~t.in_conffiles
        /\ t.builder = s.builder /\ t.packages = s.packages /\ t.depends = s.depends
        /\ t.failed = s.failed /\ t.conffiles = s.conffiles
    BY <2>1 DEF StatesIn
  <2>. QED  BY <1>3, <2>2
<1>4. CASE s.in_conffiles /\ line.key = " " /\ line.mark \in SkippedMarks
  <2>1. t = s
    BY <1>4 DEF ConffileLine
  <2>. QED  BY <1>4, <2>1
<1>5. CASE kept
  <2>1. t = [s EXCEPT !.conffiles = Append(s.conffiles, entry)]
    BY <1>5 DEF ConffileLine
  <2>2. Append(s.conffiles, entry) \in Seq(EntriesIn(L))
    BY <1>1, AppendProperties
  <2>. HIDE DEF entry, t
  <2>3. /\ t \in StatesIn(L) /\ t.in_conffiles = s.in_conffiles
        /\ t.builder = s.builder /\ t.packages = s.packages /\ t.depends = s.depends
        /\ t.failed = s.failed /\ t.conffiles = Append(s.conffiles, entry)
    BY <2>1, <2>2 DEF StatesIn
  <2>. QED  BY <1>5, <2>3 DEF entry, t
<1>. QED  BY <1>2, <1>3, <1>4, <1>5

BuilderKeys == {"Version", "Architecture", "Status"}

\* The builder has what the line says in t, and otherwise what it had in s.
BuildsOn(s, line, t) ==
    /\ t.builder.name = s.builder.name
    /\ t.depends = s.depends \o DependsAt(line)
    /\ \A key \in BuilderKeys :
          t.builder[key] = IF line.key = key THEN line.value ELSE s.builder[key]
    /\ t.builder.Provides = IF line.key = "Provides" THEN ParseDepends(<<line.value>>)[1]
                            ELSE s.builder.Provides

\* What the field of a line becomes, once there is a package.
LEMMA FieldLineIs ==
    ASSUME NEW L, AreLines(L), NEW s \in StatesIn(L), NEW line \in L
    PROVE  LET t == FieldLine(s, line)
           IN  /\ t \in StatesIn(L)
               /\ s.builder.name # None =>
                    /\ t.packages = s.packages /\ t.conffiles = s.conffiles /\ t.failed = s.failed
                    /\ BuildsOn(s, line, t)
                    /\ t.in_conffiles <=> s.in_conffiles \/ line.key = "Conffiles"
<1>. DEFINE t == FieldLine(s, line)
            Keys == BuilderKeys \cup {"Provides", "Description", "Conffiles"}
<1>0. /\ s.builder \in BuildersIn(L) /\ s.depends \in Seq(DependsIn(L))
      /\ line.value \in ValuesIn(L) /\ ParseDepends(<<line.value>>)[1] \in ProvidesIn(L)
  BY DEF StatesIn, ValuesIn, ProvidesIn
<1>1. CASE line.key \in {"Pre-Depends", "Depends"}
  <2>1. t = [s EXCEPT !.depends = s.depends \o DependsAt(line)]
    BY <1>1, DependsAre DEF FieldLine
  <2>2. s.depends \o DependsAt(line) \in Seq(DependsIn(L))
    BY <1>0, DependsAre, ConcatProperties
  <2>3. /\ t \in StatesIn(L) /\ t.packages = s.packages /\ t.conffiles = s.conffiles
        /\ t.failed = s.failed /\ t.builder = s.builder /\ t.in_conffiles = s.in_conffiles
        /\ t.depends = s.depends \o DependsAt(line)
    <3>. DEFINE d == s.depends \o DependsAt(line)
    <3>. HIDE DEF d, t
    <3>1. t = [s EXCEPT !.depends = d] /\ d \in Seq(DependsIn(L))
      BY <2>1, <2>2 DEF d
    <3>2. /\ t \in StatesIn(L) /\ t.packages = s.packages /\ t.conffiles = s.conffiles
          /\ t.failed = s.failed /\ t.builder = s.builder /\ t.in_conffiles = s.in_conffiles
          /\ t.depends = d
      BY <3>1 DEF StatesIn
    <3>. QED  BY <3>2 DEF d
  <2>. HIDE DEF t
  <2>. QED  BY <1>1, <2>3 DEF BuilderKeys, BuildsOn, t
<1>2. line.key \notin {"Pre-Depends", "Depends"} => s.depends \o DependsAt(line) = s.depends
  BY <1>0, DependsAre, ConcatEmptySeq
<1>3. CASE line.key \in Keys /\ s.builder.name = None
  <2>1. t = Failed(s)
    BY <1>3 DEF FieldLine, BuilderKeys
  <2>2. t \in StatesIn(L)
    BY <2>1 DEF Failed, StatesIn
  <2>. QED  BY <1>3, <2>2
<1>4. CASE line.key \in BuilderKeys /\ s.builder.name # None
  <2>. DEFINE b == [s.builder EXCEPT ![line.key] = line.value]
  <2>1. t = [s EXCEPT !.builder = b]
    BY <1>4 DEF FieldLine, BuilderKeys
  <2>2. /\ b \in BuildersIn(L) /\ b.name = s.builder.name /\ b.Provides = s.builder.Provides
        /\ \A key \in BuilderKeys : b[key] = IF line.key = key THEN line.value ELSE s.builder[key]
    BY <1>0, <1>4 DEF BuildersIn, BuilderKeys
  <2>. HIDE DEF b, t
  <2>3. /\ t \in StatesIn(L) /\ t.packages = s.packages /\ t.conffiles = s.conffiles
        /\ t.failed = s.failed /\ t.builder = b /\ t.in_conffiles = s.in_conffiles
        /\ t.depends = s.depends
    BY <2>1, <2>2 DEF StatesIn
  <2>. QED  BY <1>2, <1>4, <2>2, <2>3 DEF BuilderKeys, BuildsOn, t
<1>5. CASE line.key = "Provides" /\ s.builder.name # None
  <2>. DEFINE b == [s.builder EXCEPT !.Provides = ParseDepends(<<line.value>>)[1]]
  <2>1. t = [s EXCEPT !.builder = b]
    BY <1>5 DEF FieldLine
  <2>2. /\ b \in BuildersIn(L) /\ b.name = s.builder.name
        /\ b.Provides = ParseDepends(<<line.value>>)[1]
        /\ \A key \in BuilderKeys : b[key] = s.builder[key]
    BY <1>0, <1>5 DEF BuildersIn, BuilderKeys
  <2>. HIDE DEF b, t
  <2>3. /\ t \in StatesIn(L) /\ t.packages = s.packages /\ t.conffiles = s.conffiles
        /\ t.failed = s.failed /\ t.builder = b /\ t.in_conffiles = s.in_conffiles
        /\ t.depends = s.depends
    BY <2>1, <2>2 DEF StatesIn
  <2>. QED  BY <1>2, <1>5, <2>2, <2>3 DEF BuilderKeys, BuildsOn, t
<1>6. CASE line.key = "Conffiles" /\ s.builder.name # None
  <2>1. t = [s EXCEPT !.in_conffiles = TRUE]
    BY <1>6 DEF FieldLine
  <2>2. /\ t \in StatesIn(L) /\ t.packages = s.packages /\ t.conffiles = s.conffiles
        /\ t.failed = s.failed /\ t.builder = s.builder /\ t.in_conffiles = TRUE
        /\ t.depends = s.depends
    BY <2>1 DEF StatesIn
  <2>. HIDE DEF t
  <2>. QED  BY <1>2, <1>6, <2>2 DEF BuilderKeys, BuildsOn, t
<1>7. CASE /\ line.key \notin {"Pre-Depends", "Depends"}
           /\ line.key \notin Keys \/ (line.key = "Description" /\ s.builder.name # None)
  <2>1. t = s
    BY <1>7 DEF FieldLine, BuilderKeys
  <2>. HIDE DEF t
  <2>. QED  BY <1>2, <1>7, <2>1 DEF BuilderKeys, BuildsOn, t
<1>. QED  BY <1>1, <1>3, <1>4, <1>5, <1>6, <1>7 DEF BuilderKeys

\* The line that begins a package ends the one before.
LEMMA FirstLine ==
    ASSUME NEW L, NEW s \in StatesIn(L), NEW line \in L, line.key = "Package"
    PROVE  LET d == Ended(s)
               t == StatusLine(s, line)
           IN  /\ d \in StatesIn(L) /\ t \in StatesIn(L)
               /\ d.failed => t.failed
               /\ ~d.failed =>
                    /\ t.packages = d.packages /\ t.conffiles = d.conffiles
                    /\ t.depends = d.depends /\ ~t.in_conffiles /\ ~t.failed
                    /\ t.builder = NewBuilder(line.value)
<1>. DEFINE d == Ended(s)
            t == StatusLine(s, line)
            b == NewBuilder(line.value)
<1>1. d \in StatesIn(L)
  BY FinishedIs DEF Ended
<1>2. CASE s.failed
  BY <1>1, <1>2 DEF Ended, StatusLine
<1>3. CASE ~s.failed /\ d.failed
  BY <1>1, <1>3 DEF Ended, StatusLine
<1>4. CASE ~s.failed /\ ~d.failed
  <2>1. t = [d EXCEPT !.builder = b, !.in_conffiles = FALSE]
    BY <1>4 DEF Ended, StatusLine, StartPackage
  <2>2. b \in BuildersIn(L)
    BY DEF NewBuilder, BuildersIn, ValuesIn, ProvidesIn
  <2>. HIDE DEF b, t, d
  <2>3. /\ t \in StatesIn(L) /\ t.packages = d.packages /\ t.conffiles = d.conffiles
        /\ t.depends = d.depends /\ ~t.in_conffiles /\ t.failed = d.failed
        /\ t.builder = b
    BY <1>1, <2>1, <2>2 DEF StatesIn
  <2>. QED  BY <1>1, <1>4, <2>3 DEF b, t, d
<1>. QED  BY <1>2, <1>3, <1>4

\* What another line does to the package it belongs to.
LEMMA AnotherLine ==
    ASSUME NEW L, AreLines(L), NEW s \in StatesIn(L), NEW line \in L,
           ~s.failed, line.key # "Package"
    PROVE  LET t     == StatusLine(s, line)
               entry == DbEntry(Plain(s.builder.name), line.value, <<"RegularFileBasic", line.sum>>, TRUE)
               kept  == s.in_conffiles /\ line.key = " " /\ line.mark \notin SkippedMarks
           IN  /\ t \in StatesIn(L)
               /\ s.builder.name # None =>
                    /\ t.packages = s.packages /\ ~t.failed
                    /\ t.conffiles = IF kept THEN Append(s.conffiles, entry) ELSE s.conffiles
                    /\ BuildsOn(s, line, t)
                    /\ t.in_conffiles <=> (s.in_conffiles /\ line.key = " ") \/ line.key = "Conffiles"
<1>. DEFINE u == ConffileLine(s, line)
            t == StatusLine(s, line)
            entry == DbEntry(Plain(s.builder.name), line.value, <<"RegularFileBasic", line.sum>>, TRUE)
            kept == s.in_conffiles /\ line.key = " " /\ line.mark \notin SkippedMarks
<1>1. t = FieldLine(u, line)
  BY DEF StatusLine
<1>2. /\ u \in StatesIn(L)
      /\ u.in_conffiles <=> s.in_conffiles /\ line.key = " "
      /\ u.builder = s.builder /\ u.packages = s.packages /\ u.depends = s.depends
      /\ u.failed = s.failed
      /\ u.conffiles = IF kept THEN Append(s.conffiles, entry) ELSE s.conffiles
  BY ConffileLineIs
<1>. HIDE DEF u, t
<1>3. /\ t \in StatesIn(L)
      /\ u.builder.name # None =>
           /\ t.packages = u.packages /\ t.conffiles = u.conffiles /\ t.failed = u.failed
           /\ BuildsOn(u, line, t)
           /\ t.in_conffiles <=> u.in_conffiles \/ line.key = "Conffiles"
  <2>1. u \in StatesIn(L) /\ line \in L /\ AreLines(L)
    BY <1>2
  <2>2. LET f == FieldLine(u, line)
        IN  /\ f \in StatesIn(L)
            /\ u.builder.name # None =>
                 /\ f.packages = u.packages /\ f.conffiles = u.conffiles /\ f.failed = u.failed
                 /\ BuildsOn(u, line, f)
                 /\ f.in_conffiles <=> u.in_conffiles \/ line.key = "Conffiles"
    BY ONLY <2>1, FieldLineIs
  <2>. QED  BY <1>1, <2>2
<1>4. BuildsOn(u, line, t) => BuildsOn(s, line, t)
  BY <1>2 DEF BuildsOn
<1>. HIDE DEF kept, entry
<1>. QED  BY <1>2, <1>3, <1>4 DEF t, kept, entry

\* The states of the parser are of their type; where it has failed it stays.
LEMMA StatusLineType ==
    ASSUME NEW L, AreLines(L), NEW s \in StatesIn(L), NEW line \in L
    PROVE  StatusLine(s, line) \in StatesIn(L) /\ (s.failed => StatusLine(s, line).failed)
<1>1. CASE s.failed
  BY <1>1 DEF StatusLine
<1>2. CASE ~s.failed /\ line.key = "Package"
  BY <1>2, FirstLine
<1>3. CASE ~s.failed /\ line.key # "Package"
  BY <1>3, AnotherLine
<1>. QED  BY <1>1, <1>2, <1>3

-----------------------------------------------------------------------------
(* A stanza *)

\* FieldOf, ProvidesOf and InConffiles, of the first n lines.
FieldTo(stanza, n, key) ==
    LET at == {i \in 1 .. n : stanza[i].key = key}
    IN IF at = {} THEN None ELSE stanza[Max(at)].value

ProvidesTo(stanza, n) ==
    IF FieldTo(stanza, n, "Provides") = None THEN <<>>
    ELSE ParseDepends(<<FieldTo(stanza, n, "Provides")>>)[1]

OpenAfter(stanza, n) ==
    \E j \in 1 .. n : /\ stanza[j].key = "Conffiles"
                      /\ \A k \in j + 1 .. n : stanza[k].key = " "

DependsOfLines(stanza) == [i \in DOMAIN stanza |-> DependsAt(stanza[i])]

ConffilesOfLines(stanza) == [i \in DOMAIN stanza |-> ConffileAt(stanza, i)]

\* After the first n lines of the stanza, read from where d is what was complete.
ReadTo(d, stanza, n, s) ==
    /\ s.packages = d.packages /\ ~s.failed
    /\ s.conffiles = d.conffiles \o Flat(ConffilesOfLines(stanza), n)
    /\ s.depends = Flat(DependsOfLines(stanza), n)
    /\ s.in_conffiles <=> OpenAfter(stanza, n)
    /\ s.builder.name = stanza[1].value
    /\ \A key \in BuilderKeys : s.builder[key] = FieldTo(stanza, n, key)
    /\ s.builder.Provides = ProvidesTo(stanza, n)

\* The next line has the field, or those before have it.
LEMMA FieldNext ==
    ASSUME NEW stanza, NEW n \in Nat, NEW key
    PROVE  /\ FieldTo(stanza, 0, key) = None
           /\ FieldTo(stanza, n + 1, key) = IF stanza[n + 1].key = key THEN stanza[n + 1].value
                                            ELSE FieldTo(stanza, n, key)
<1>. DEFINE With(m) == {i \in 1 .. m : stanza[i].key = key}
<1>1. With(0) = {}
  OBVIOUS
<1>2. CASE stanza[n + 1].key = key
  <2>1. With(n + 1) = With(n) \cup {n + 1} /\ With(n) \subseteq 1 .. n
    BY <1>2
  <2>. HIDE DEF With
  <2>2. Max(With(n + 1)) = n + 1 /\ With(n + 1) # {}
    BY <2>1, MaxIsLater
  <2>. QED  BY <1>1, <1>2, <2>2 DEF FieldTo, With
<1>3. CASE stanza[n + 1].key # key
  <2>1. With(n + 1) = With(n)
    BY <1>3
  <2>. HIDE DEF With
  <2>. QED  BY <1>1, <1>3, <2>1 DEF FieldTo, With
<1>. QED  BY <1>2, <1>3

\* So it is with a Conffiles section.
LEMMA OpenNext ==
    ASSUME NEW stanza, NEW n \in Nat
    PROVE  /\ ~OpenAfter(stanza, 0)
           /\ OpenAfter(stanza, n + 1) <=>
                 \/ stanza[n + 1].key = "Conffiles"
                 \/ OpenAfter(stanza, n) /\ stanza[n + 1].key = " "
           /\ InConffiles(stanza, n + 1) <=> OpenAfter(stanza, n) /\ stanza[n + 1].key = " "
<1>1. ~OpenAfter(stanza, 0)
  BY DEF OpenAfter
<1>2. ASSUME stanza[n + 1].key = "Conffiles" PROVE OpenAfter(stanza, n + 1)
  <2>1. n + 1 \in 1 .. n + 1 /\ \A k \in (n + 1) + 1 .. n + 1 : FALSE
    OBVIOUS
  <2>2. \A k \in (n + 1) + 1 .. n + 1 : stanza[k].key = " "
    BY <2>1
  <2>. QED  BY <1>2, <2>1, <2>2 DEF OpenAfter
<1>3. ASSUME OpenAfter(stanza, n), stanza[n + 1].key = " " PROVE OpenAfter(stanza, n + 1)
  <2>1. PICK j \in 1 .. n : stanza[j].key = "Conffiles" /\ \A k \in j + 1 .. n : stanza[k].key = " "
    BY <1>3 DEF OpenAfter
  <2>2. j \in 1 .. n + 1 /\ \A k \in j + 1 .. n + 1 : k \in j + 1 .. n \/ k = n + 1
    OBVIOUS
  <2>3. \A k \in j + 1 .. n + 1 : stanza[k].key = " "
    BY <1>3, <2>1, <2>2
  <2>. QED  BY <2>1, <2>2, <2>3 DEF OpenAfter
<1>4. ASSUME OpenAfter(stanza, n + 1), stanza[n + 1].key # "Conffiles"
      PROVE  OpenAfter(stanza, n) /\ stanza[n + 1].key = " "
  <2>1. PICK j \in 1 .. n + 1 : stanza[j].key = "Conffiles" /\ \A k \in j + 1 .. n + 1 : stanza[k].key = " "
    BY <1>4 DEF OpenAfter
  <2>0. j # n + 1
    BY <1>4, <2>1
  <2>2. j \in 1 .. n /\ n + 1 \in j + 1 .. n + 1 /\ \A k \in j + 1 .. n : k \in j + 1 .. n + 1
    BY <2>0
  <2>. QED  BY <2>1, <2>2 DEF OpenAfter
<1>5. InConffiles(stanza, n + 1) <=> OpenAfter(stanza, n) /\ stanza[n + 1].key = " "
  <2>1. (n + 1) - 1 = n
    OBVIOUS
  <2>. QED  BY <2>1 DEF InConffiles, OpenAfter
<1>. QED  BY <1>1, <1>2, <1>3, <1>4, <1>5

\* The fields of a stanza, and its name.
LEMMA StanzaIs ==
    ASSUME NEW L, NEW stanza \in Seq(L), IsStanza(stanza)
    PROVE  /\ Len(stanza) \in Nat \ {0} /\ DOMAIN stanza = 1 .. Len(stanza)
           /\ \A i \in 1 .. Len(stanza) : /\ stanza[i] \in L
                                          /\ stanza[i].value # None
                                          /\ stanza[i].key = "Package" <=> i = 1
           /\ \A key : FieldOf(stanza, key) = FieldTo(stanza, Len(stanza), key)
           /\ ProvidesOf(stanza) = ProvidesTo(stanza, Len(stanza))
           /\ FieldOf(stanza, "Package") = stanza[1].value
<1>1. /\ Len(stanza) \in Nat \ {0} /\ DOMAIN stanza = 1 .. Len(stanza)
      /\ \A i \in 1 .. Len(stanza) : /\ stanza[i] \in L
                                     /\ stanza[i].value # None
                                     /\ stanza[i].key = "Package" <=> i = 1
  <2>1. Len(stanza) \in Nat /\ DOMAIN stanza = 1 .. Len(stanza) /\ stanza # <<>>
    BY LenProperties DEF IsStanza
  <2>2. Len(stanza) # 0
    BY <2>1, EmptySeq
  <2>3. \A i \in 1 .. Len(stanza) : stanza[i] \in L
    BY <2>1
  <2>. QED  BY <2>1, <2>2, <2>3 DEF IsStanza
<1>2. \A key : FieldOf(stanza, key) = FieldTo(stanza, Len(stanza), key)
  BY <1>1 DEF FieldOf, FieldTo
<1>3. ProvidesOf(stanza) = ProvidesTo(stanza, Len(stanza))
  BY <1>2 DEF ProvidesOf, ProvidesTo
<1>4. FieldOf(stanza, "Package") = stanza[1].value
  <2>. DEFINE at == {i \in DOMAIN stanza : stanza[i].key = "Package"}
  <2>1. at = {} \cup {0 + 1}
    BY <1>1
  <2>2. Max({} \cup {0 + 1}) = 0 + 1
    BY MaxIsLater
  <2>. HIDE DEF at
  <2>3. at # {} /\ Max(at) = 1
    BY <2>1, <2>2
  <2>. QED  BY <2>3 DEF FieldOf, at
<1>. QED  BY <1>1, <1>2, <1>3, <1>4

\* What its lines say of dependencies and configuration files, one after the other.
LEMMA LinesOfStanza ==
    ASSUME NEW L, AreLines(L), NEW stanza \in Seq(L), IsStanza(stanza)
    PROVE  LET D == DependsOfLines(stanza)
               C == ConffilesOfLines(stanza)
           IN  /\ \A i \in 1 .. Len(stanza) :
                     /\ D[i] = DependsAt(stanza[i]) /\ D[i] \in Seq(DependsIn(L))
                     /\ C[i] = ConffileAt(stanza, i) /\ C[i] \in Seq(EntriesIn(L))
               /\ \A n \in 0 .. Len(stanza) :
                     FlatAt(DependsIn(L), D, n) /\ FlatAt(EntriesIn(L), C, n)
               /\ DependsOf(stanza) = Flat(D, Len(stanza))
               /\ ConffilesOf(stanza) = Flat(C, Len(stanza))
<1>. DEFINE D == DependsOfLines(stanza)
            C == ConffilesOfLines(stanza)
            last == Len(stanza)
<1>1. /\ last \in Nat \ {0} /\ DOMAIN stanza = 1 .. last
      /\ \A i \in 1 .. last : stanza[i] \in L
      /\ FieldOf(stanza, "Package") = stanza[1].value
  BY StanzaIs
<1>2. D = [i \in 1 .. last |-> DependsAt(stanza[i])] /\ C = [i \in 1 .. last |-> ConffileAt(stanza, i)]
  BY <1>1 DEF DependsOfLines, ConffilesOfLines
<1>3. DependsOf(stanza) = FlattenSeq(D) /\ ConffilesOf(stanza) = FlattenSeq(C)
  BY DEF DependsOf, ConffilesOf, DependsOfLines, ConffilesOfLines
<1>. HIDE DEF D, C, last
<1>4. D = [i \in 1 .. last |-> D[i]] /\ C = [i \in 1 .. last |-> C[i]]
  BY <1>2
<1>5. D \in [1 .. last -> Seq(DependsIn(L))]
  <2>1. \A i \in 1 .. last : DependsAt(stanza[i]) \in Seq(DependsIn(L))
    BY <1>1, DependsAre
  <2>. QED  BY <1>2, <2>1
<1>6. C \in [1 .. last -> Seq(EntriesIn(L))]
  <2>1. ASSUME NEW i \in 1 .. last PROVE ConffileAt(stanza, i) \in Seq(EntriesIn(L))
    <3>. DEFINE line == stanza[i]
                name == FieldOf(stanza, "Package")
                entry == DbEntry(Plain(name), line.value, <<"RegularFileBasic", line.sum>>, TRUE)
    <3>1. line \in L /\ line.value \in ValuesIn(L) /\ name \in ValuesIn(L)
      BY <1>1 DEF ValuesIn
    <3>. HIDE DEF line, name
    <3>2. /\ Plain(name) \in {Plain(x) : x \in ValuesIn(L)}
          /\ <<"RegularFileBasic", line.sum>> \in {<<"RegularFileBasic", x.sum>> : x \in L}
      BY <3>1
    <3>3. entry \in EntriesIn(L)
      BY <3>1, <3>2 DEF EntriesIn, DbEntry
    <3>. HIDE DEF entry
    <3>4. <<entry>> \in Seq(EntriesIn(L)) /\ <<>> \in Seq(EntriesIn(L))
      BY <3>3
    <3>5. ConffileAt(stanza, i) \in {<<entry>>, <<>>}
      BY DEF ConffileAt, entry, line, name
    <3>. QED  BY <3>4, <3>5
  <2>. QED  BY <1>2, <2>1
<1>7. \A n \in 0 .. last : FlatAt(DependsIn(L), D, n) /\ FlatAt(EntriesIn(L), C, n)
  BY <1>1, <1>5, <1>6, Flattened
<1>8. FlattenSeq(D) = Flat(D, last) /\ FlattenSeq(C) = Flat(C, last)
  BY <1>4 DEF Flat
<1>9. \A i \in 1 .. last : /\ D[i] = DependsAt(stanza[i]) /\ D[i] \in Seq(DependsIn(L))
                            /\ C[i] = ConffileAt(stanza, i) /\ C[i] \in Seq(EntriesIn(L))
  BY <1>2, <1>5, <1>6
<1>. QED  BY <1>3, <1>7, <1>8, <1>9 DEF D, C, last

\* The first line of a stanza begins the package.
LEMMA StanzaStarts ==
    ASSUME NEW L, AreLines(L), NEW stanza \in Seq(L), IsStanza(stanza),
           NEW s \in StatesIn(L), ~Ended(s).failed, Ended(s).depends = <<>>
    PROVE  LET t == StatusLine(s, stanza[1])
           IN  t \in StatesIn(L) /\ ReadTo(Ended(s), stanza, 1, t)
<1>. DEFINE d == Ended(s)
            t == StatusLine(s, stanza[1])
            D == DependsOfLines(stanza)
            C == ConffilesOfLines(stanza)
<1>1. 1 \in 1 .. Len(stanza) /\ stanza[1] \in L /\ stanza[1].key = "Package"
  BY StanzaIs
<1>2. /\ d \in StatesIn(L) /\ t \in StatesIn(L)
      /\ t.packages = d.packages /\ t.conffiles = d.conffiles
      /\ t.depends = d.depends /\ ~t.in_conffiles /\ ~t.failed
      /\ t.builder = NewBuilder(stanza[1].value)
  BY <1>1, FirstLine
<1>3. \A key : stanza[1].key # key => FieldTo(stanza, 1, key) = None
  <2>1. \A key : stanza[0 + 1].key # key => FieldTo(stanza, 0 + 1, key) = None
    BY FieldNext
  <2>. QED  BY <2>1
<1>4. ~OpenAfter(stanza, 1) /\ ~InConffiles(stanza, 1)
  <2>1. ~OpenAfter(stanza, 0 + 1) /\ ~InConffiles(stanza, 0 + 1)
    <3>1. stanza[0 + 1].key = "Package"
      BY <1>1
    <3>. QED  BY <3>1, OpenNext
  <2>. QED  BY <2>1
<1>5. Flat(D, 1) = <<>> /\ Flat(C, 1) = <<>>
  <2>1. D[1] = <<>> /\ C[1] = <<>>
    BY <1>1, <1>4, LinesOfStanza DEF DependsAt, ConffileAt
  <2>2. /\ FlatAt(DependsIn(L), D, 0) /\ FlatAt(EntriesIn(L), C, 0)
        /\ FlatAt(DependsIn(L), D, 1) /\ FlatAt(EntriesIn(L), C, 1)
    BY <1>1, LinesOfStanza
  <2>. HIDE DEF D, C
  <2>3. /\ Flat(D, 0) = <<>> /\ Flat(C, 0) = <<>>
        /\ Flat(D, 1) = Flat(D, 1 - 1) \o D[1] /\ Flat(C, 1) = Flat(C, 1 - 1) \o C[1]
    BY <2>2 DEF FlatAt
  <2>4. <<>> \o <<>> = <<>>
    OBVIOUS
  <2>. QED  BY <2>1, <2>3, <2>4
<1>6. d.conffiles \o Flat(C, 1) = d.conffiles
  <2>1. d.conffiles \in Seq(EntriesIn(L))
    BY <1>2 DEF StatesIn
  <2>. HIDE DEF d, C
  <2>. QED  BY <1>5, <2>1, ConcatEmptySeq
<1>7. /\ t.builder.name = stanza[1].value
      /\ \A key \in BuilderKeys : t.builder[key] = FieldTo(stanza, 1, key)
      /\ t.builder.Provides = ProvidesTo(stanza, 1)
  <2>1. t.builder = NewBuilder(stanza[1].value)
    BY <1>2
  <2>. HIDE DEF t
  <2>. QED  BY <1>1, <1>3, <2>1 DEF NewBuilder, BuilderKeys, ProvidesTo
<1>. HIDE DEF d, t
<1>. QED  BY <1>2, <1>4, <1>5, <1>6, <1>7 DEF ReadTo, d, t

\* And every other one adds to it what it says.
LEMMA StanzaGoesOn ==
    ASSUME NEW L, AreLines(L), NEW stanza \in Seq(L), IsStanza(stanza),
           NEW d \in StatesIn(L), NEW s \in StatesIn(L),
           NEW n \in 1 .. Len(stanza) - 1, ReadTo(d, stanza, n, s)
    PROVE  LET t == StatusLine(s, stanza[n + 1])
           IN  t \in StatesIn(L) /\ ReadTo(d, stanza, n + 1, t)
<1>. DEFINE line == stanza[n + 1]
            t == StatusLine(s, line)
            D == DependsOfLines(stanza)
            C == ConffilesOfLines(stanza)
            entry == DbEntry(Plain(s.builder.name), line.value, <<"RegularFileBasic", line.sum>>, TRUE)
            kept == s.in_conffiles /\ line.key = " " /\ line.mark \notin SkippedMarks
<1>1. /\ Len(stanza) \in Nat /\ n \in Nat /\ n + 1 \in 1 .. Len(stanza) /\ (n + 1) - 1 = n
      /\ n + 1 # 1 /\ 1 \in 1 .. Len(stanza)
      /\ n \in 0 .. Len(stanza) /\ n + 1 \in 0 .. Len(stanza)
  <2>1. Len(stanza) \in Nat
    BY StanzaIs
  <2>. QED  BY <2>1
<1>2. /\ line \in L /\ line.key # "Package" /\ line.value # None /\ stanza[1].value # None
      /\ FieldOf(stanza, "Package") = stanza[1].value
  BY <1>1, StanzaIs
<1>3. /\ s.packages = d.packages /\ ~s.failed
      /\ s.conffiles = d.conffiles \o Flat(C, n)
      /\ s.depends = Flat(D, n)
      /\ s.in_conffiles <=> OpenAfter(stanza, n)
      /\ s.builder.name = stanza[1].value
      /\ \A key \in BuilderKeys : s.builder[key] = FieldTo(stanza, n, key)
      /\ s.builder.Provides = ProvidesTo(stanza, n)
  BY DEF ReadTo
<1>4. /\ t \in StatesIn(L) /\ t.packages = s.packages /\ ~t.failed
      /\ t.conffiles = IF kept THEN Append(s.conffiles, entry) ELSE s.conffiles
      /\ BuildsOn(s, line, t)
      /\ t.in_conffiles <=> (s.in_conffiles /\ line.key = " ") \/ line.key = "Conffiles"
  BY <1>2, <1>3, AnotherLine
<1>5. /\ D[n + 1] = DependsAt(line) /\ C[n + 1] = ConffileAt(stanza, n + 1)
      /\ FlatAt(DependsIn(L), D, n + 1) /\ FlatAt(EntriesIn(L), C, n + 1)
      /\ FlatAt(EntriesIn(L), C, n)
  BY <1>1, LinesOfStanza
<1>6. /\ Flat(D, n + 1) = Flat(D, n) \o D[n + 1]
      /\ Flat(C, n + 1) = Flat(C, n) \o C[n + 1] /\ Flat(C, n) \in Seq(EntriesIn(L))
  <2>1. n + 1 > 0
    BY <1>1
  <2>. HIDE DEF C, D
  <2>2. /\ Flat(D, n + 1) = Flat(D, (n + 1) - 1) \o D[n + 1]
        /\ Flat(C, n + 1) = Flat(C, (n + 1) - 1) \o C[n + 1] /\ Flat(C, n) \in Seq(EntriesIn(L))
    BY <1>5, <2>1 DEF FlatAt
  <2>. QED  BY <1>1, <2>2
<1>13. t.depends = Flat(D, n + 1)
  <2>1. t.depends = s.depends \o DependsAt(line)
    BY <1>4 DEF BuildsOn
  <2>. HIDE DEF C, D, t, line
  <2>. QED  BY <1>3, <1>5, <1>6, <2>1
<1>7. t.in_conffiles <=> OpenAfter(stanza, n + 1)
  BY <1>1, <1>3, <1>4, OpenNext
<1>8. t.conffiles = d.conffiles \o Flat(C, n + 1)
  <2>1. /\ Flat(C, n + 1) = Flat(C, n) \o C[n + 1] /\ Flat(C, n) \in Seq(EntriesIn(L))
        /\ d.conffiles \in Seq(EntriesIn(L)) /\ s.conffiles = d.conffiles \o Flat(C, n)
    <3>1. d.conffiles \in Seq(EntriesIn(L))
      BY DEF StatesIn
    <3>. HIDE DEF C
    <3>. QED  BY <1>3, <1>6, <3>1
  <2>2. kept <=> InConffiles(stanza, n + 1) /\ line.mark \notin SkippedMarks
    BY <1>1, <1>3, OpenNext
  <2>3. C[n + 1] = IF kept THEN <<entry>> ELSE <<>>
    BY <1>2, <1>3, <1>5, <2>2 DEF ConffileAt
  <2>4. C[n + 1] \in Seq(EntriesIn(L))
    BY <1>1, LinesOfStanza
  <2>. HIDE DEF C, entry, kept, line, t
  <2>5. t.conffiles = s.conffiles \o C[n + 1]
    <3>1. CASE kept
      <4>1. t.conffiles = Append(s.conffiles, entry) /\ s.conffiles \in Seq(EntriesIn(L))
        BY <1>4, <3>1 DEF StatesIn
      <4>2. C[n + 1] = <<entry>>
        BY <2>3, <3>1
      <4>. QED  BY <2>4, <4>1, <4>2
    <3>2. CASE ~kept
      <4>1. t.conffiles = s.conffiles /\ s.conffiles \in Seq(EntriesIn(L)) /\ C[n + 1] = <<>>
        BY <1>4, <2>3, <3>2 DEF StatesIn
      <4>. QED  BY <4>1, ConcatEmptySeq
    <3>. QED  BY <3>1, <3>2
  <2>6. (d.conffiles \o Flat(C, n)) \o C[n + 1] = d.conffiles \o (Flat(C, n) \o C[n + 1])
    <3>. DEFINE S == EntriesIn(L)
    <3>1. d.conffiles \in Seq(S) /\ Flat(C, n) \in Seq(S) /\ C[n + 1] \in Seq(S)
      BY <2>1, <2>4
    <3>2. \A a, b, c \in Seq(S) : (a \o b) \o c = a \o (b \o c)
      <4>. HIDE DEF S
      <4>. QED  BY ConcatAssociative
    <3>. QED  BY <3>1, <3>2
  <2>. QED  BY <2>1, <2>5, <2>6
<1>9. \A key \in BuilderKeys : t.builder[key] = FieldTo(stanza, n + 1, key)
  <2>1. \A key : FieldTo(stanza, n + 1, key) = IF line.key = key THEN line.value
                                                ELSE FieldTo(stanza, n, key)
    BY <1>1, FieldNext
  <2>. HIDE DEF line, t
  <2>. QED  BY <1>3, <1>4, <2>1 DEF BuildsOn
<1>10. t.builder.Provides = ProvidesTo(stanza, n + 1)
  <2>1. FieldTo(stanza, n + 1, "Provides") = IF line.key = "Provides" THEN line.value
                                             ELSE FieldTo(stanza, n, "Provides")
    BY <1>1, FieldNext
  <2>. HIDE DEF line, t
  <2>. QED  BY <1>2, <1>3, <1>4, <2>1 DEF BuildsOn, ProvidesTo
<1>. HIDE DEF line, t, C, D
<1>11. t.builder.name = stanza[1].value /\ t.packages = d.packages /\ ~t.failed
  BY <1>3, <1>4 DEF BuildsOn
<1>12. ReadTo(d, stanza, n + 1, t)
  BY <1>13, <1>7, <1>8, <1>9, <1>10, <1>11 DEF ReadTo, C, D
<1>. QED  BY <1>4, <1>12 DEF t, line

\* A stanza that is read after others: its package is added to theirs as it is written,
\* and its configuration files.
LEMMA StanzaRead ==
    ASSUME NEW L, AreLines(L), NEW stanza \in Seq(L), IsStanza(stanza), NEW s \in StatesIn(L)
    PROVE  LET d == Ended(s)
               t == StatusStates(s, stanza)[Len(stanza)]
               e == Ended(t)
           IN  /\ t \in StatesIn(L) /\ d \in StatesIn(L)
               /\ d.failed => e.failed
               /\ ~d.failed /\ d.depends = <<>> =>
                    /\ e.failed <=> ~Complete(stanza)
                    /\ ~e.failed => /\ e.depends = <<>>
                                    /\ e.packages = Append(d.packages, PackageOf(stanza))
                                    /\ e.conffiles = d.conffiles \o ConffilesOf(stanza)
<1>. DEFINE X == StatesIn(L)
            d == Ended(s)
            last == Len(stanza)
            S == StatusStates(s, stanza)
            t == S[last]
            e == Ended(t)
<1>1. /\ last \in Nat \ {0}
      /\ \A i \in 1 .. last : stanza[i] \in L /\ (stanza[i].key = "Package" <=> i = 1)
      /\ stanza[1].value # None
      /\ \A key : FieldOf(stanza, key) = FieldTo(stanza, last, key)
      /\ ProvidesOf(stanza) = ProvidesTo(stanza, last)
      /\ FieldOf(stanza, "Package") = stanza[1].value
  <2>1. 1 \in 1 .. Len(stanza)
    BY StanzaIs
  <2>. QED  BY <2>1, StanzaIs
<1>2. S \in Steps(X, s, last, OnStatus(X, stanza))
  <2>1. s \in X /\ \A x \in X : \A line \in L : StatusLine(x, line) \in X
    BY StatusLineType
  <2>. HIDE DEF X
  <2>. QED  BY <2>1, StatusSteps
<1>3. /\ S[0] = s /\ \A n \in 0 .. last : S[n] \in X
      /\ \A n \in 0 .. last - 1 : S[n + 1] = StatusLine(S[n], stanza[n + 1])
  <2>. HIDE DEF X, last, S
  <2>1. \A n \in 0 .. last : S[n] \in X
    BY <1>1, <1>2, StepsType
  <2>2. S[0] = s /\ \A n \in 1 .. last : S[n] = OnStatus(X, stanza)[n][S[n - 1]]
    BY <1>2 DEF Steps
  <2>3. ASSUME NEW n \in 0 .. last - 1 PROVE S[n + 1] = StatusLine(S[n], stanza[n + 1])
    <3>1. n + 1 \in 1 .. last /\ (n + 1) - 1 = n /\ n \in 0 .. last
      BY <1>1
    <3>2. S[n + 1] = OnStatus(X, stanza)[n + 1][S[n]] /\ S[n] \in X
      BY <2>1, <2>2, <3>1
    <3>. QED  BY <3>1, <3>2 DEF OnStatus, last
  <2>. QED  BY <2>1, <2>2, <2>3
<1>4. d \in X
  BY FinishedIs DEF Ended
<1>. HIDE DEF S, d, last
<1>5. ASSUME d.failed PROVE t.failed
  <2>. DEFINE T == {n \in 0 .. last : n > 0 => S[n].failed}
  <2>1. 0 \in T
    BY <1>1
  <2>2. ASSUME NEW n \in 0 .. last - 1, n \in T PROVE n + 1 \in T
    <3>1. n + 1 \in 1 .. last /\ n \in 0 .. last /\ S[n] \in X /\ stanza[n + 1] \in L
          /\ S[n + 1] = StatusLine(S[n], stanza[n + 1])
      BY <1>1, <1>3
    <3>2. CASE n = 0
      <4>1. S[n] = s /\ stanza[n + 1].key = "Package"
        BY <1>1, <1>3, <3>1, <3>2
      <4>. QED  BY <1>5, <3>1, <4>1, FirstLine DEF d
    <3>3. CASE n # 0
      <4>1. S[n].failed
        BY <2>2, <3>3
      <4>. QED  BY <3>1, <4>1, StatusLineType
    <3>. QED  BY <3>2, <3>3
  <2>3. last \in T
    <3>. HIDE DEF T
    <3>1. \A n \in 0 .. last : n \in T
      BY <1>1, <2>1, <2>2, UpTo
    <3>. QED  BY <1>1, <3>1
  <2>. QED  BY <1>1, <2>3
<1>6. ASSUME ~d.failed, d.depends = <<>> PROVE ReadTo(d, stanza, last, t)
  <2>. DEFINE T == {n \in 0 .. last : n > 0 => ReadTo(d, stanza, n, S[n])}
  <2>1. 0 \in T
    BY <1>1
  <2>2. ASSUME NEW n \in 0 .. last - 1, n \in T PROVE n + 1 \in T
    <3>1. n + 1 \in 1 .. last /\ n \in 0 .. last /\ S[n] \in X
          /\ S[n + 1] = StatusLine(S[n], stanza[n + 1])
      BY <1>1, <1>3
    <3>2. CASE n = 0
      <4>1. S[1] = StatusLine(s, stanza[1]) /\ n + 1 = 1
        BY <1>3, <3>1, <3>2
      <4>2. ReadTo(d, stanza, 1, S[1])
        BY <1>6, <4>1, StanzaStarts DEF d
      <4>. QED  BY <3>1, <4>1, <4>2
    <3>3. CASE n # 0
      <4>1. ReadTo(d, stanza, n, S[n]) /\ n \in 1 .. Len(stanza) - 1
        BY <2>2, <3>3 DEF last
      <4>. QED  BY <1>4, <3>1, <4>1, StanzaGoesOn
    <3>. QED  BY <3>2, <3>3
  <2>3. last \in T
    <3>. HIDE DEF T
    <3>1. \A n \in 0 .. last : n \in T
      BY <1>1, <2>1, <2>2, UpTo
    <3>. QED  BY <1>1, <3>1
  <2>. QED  BY <1>1, <2>3
<1>7. t \in X
  BY <1>1, <1>3
<1>. HIDE DEF t
<1>8. t.failed => e.failed
  BY DEF Ended
<1>9. ASSUME ~d.failed, d.depends = <<>>
      PROVE  /\ e.failed <=> ~Complete(stanza)
             /\ ~e.failed => /\ e.depends = <<>>
                             /\ e.packages = Append(d.packages, PackageOf(stanza))
                             /\ e.conffiles = d.conffiles \o ConffilesOf(stanza)
  <2>. DEFINE b == t.builder
              fail == b.name # None /\ None \in {b.Version, b.Architecture, b.Status}
              pkg == Package(b.name, b.Version, b.Architecture,
                             b.Status = "install ok installed", t.depends, b.Provides)
  <2>1. /\ t.packages = d.packages /\ ~t.failed
        /\ t.conffiles = d.conffiles \o Flat(ConffilesOfLines(stanza), last)
        /\ t.depends = Flat(DependsOfLines(stanza), last)
        /\ b.name = stanza[1].value
        /\ \A key \in BuilderKeys : b[key] = FieldTo(stanza, last, key)
        /\ b.Provides = ProvidesTo(stanza, last)
    BY <1>6, <1>9 DEF ReadTo
  <2>2. /\ DependsOf(stanza) = Flat(DependsOfLines(stanza), last)
        /\ ConffilesOf(stanza) = Flat(ConffilesOfLines(stanza), last)
    BY LinesOfStanza DEF last
  <2>3. /\ b.Version = FieldOf(stanza, "Version") /\ b.Architecture = FieldOf(stanza, "Architecture")
        /\ b.Status = FieldOf(stanza, "Status")
    BY <1>1, <2>1 DEF BuilderKeys
  <2>4. fail <=> ~Complete(stanza)
    BY <1>1, <2>1, <2>3 DEF Complete
  <2>5. pkg = PackageOf(stanza)
    BY <1>1, <2>1, <2>2, <2>3 DEF PackageOf
  <2>6. e = Finished(t)
    BY <2>1 DEF Ended
  <2>7. /\ fail => Finished(t).failed
        /\ ~fail => Finished(t).failed = t.failed /\ Finished(t).conffiles = t.conffiles
        /\ b.name # None /\ ~fail => /\ Finished(t).depends = <<>>
                                     /\ Finished(t).packages = Append(t.packages, pkg)
    BY <1>7, FinishedIs
  <2>. HIDE DEF b, fail, pkg, e
  <2>. QED  BY <1>1, <2>1, <2>2, <2>4, <2>5, <2>6, <2>7
<1>. QED  BY <1>4, <1>5, <1>7, <1>8, <1>9 DEF t, d, S, last

-----------------------------------------------------------------------------
(* The files of dpkg and apt *)

\* All the lines of some stanzas.
LinesIn(stanzas) == UNION {ToSet(stanzas[i]) : i \in DOMAIN stanzas}

AreStanzas(stanzas) ==
    /\ stanzas \in Seq(ToSet(stanzas))
    /\ \A i \in DOMAIN stanzas : IsStanza(stanzas[i])

\* Stanzas are sequences of lines, and what is read is them one after the other.
LEMMA StanzasAre ==
    ASSUME NEW stanzas, AreStanzas(stanzas)
    PROVE  LET n == Len(stanzas)
               L == LinesIn(stanzas)
           IN  /\ n \in Nat /\ DOMAIN stanzas = 1 .. n
               /\ \A i \in 1 .. n : stanzas[i] \in Seq(L) /\ IsStanza(stanzas[i])
               /\ AreLines(L)
               /\ \A k \in 0 .. n : FlatAt(L, stanzas, k)
               /\ FlattenSeq(stanzas) = Flat(stanzas, n)
<1>. DEFINE n == Len(stanzas)
            L == LinesIn(stanzas)
<1>1. n \in Nat /\ DOMAIN stanzas = 1 .. n
  BY LenProperties DEF AreStanzas
<1>2. \A i \in 1 .. n : IsStanza(stanzas[i])
  BY <1>1 DEF AreStanzas
<1>3. \A i \in 1 .. n : stanzas[i] \in Seq(L)
  <2>1. \A i \in 1 .. n : stanzas[i] \in Seq(ToSet(stanzas[i])) /\ ToSet(stanzas[i]) \subseteq L
    BY <1>1, <1>2 DEF IsStanza, LinesIn
  <2>. QED  BY <2>1
<1>4. AreLines(L)
  <2>1. ASSUME NEW line \in L, line.key \in {"Pre-Depends", "Depends"}
        PROVE  line.value \in Seq(ToSet(line.value))
    <3>1. PICK i \in 1 .. n : line \in ToSet(stanzas[i])
      BY <1>1 DEF LinesIn
    <3>2. PICK j \in DOMAIN stanzas[i] : line = stanzas[i][j]
      BY <3>1 DEF ToSet
    <3>. QED  BY <1>2, <2>1, <3>2 DEF IsStanza
  <2>. QED  BY <2>1 DEF AreLines
<1>5. stanzas \in [1 .. n -> Seq(L)] /\ stanzas = [i \in 1 .. n |-> stanzas[i]]
  <2>1. stanzas \in [1 .. n -> ToSet(stanzas)]
    BY <1>1 DEF AreStanzas
  <2>. HIDE DEF n, L
  <2>. QED  BY <1>3, <2>1
<1>. HIDE DEF n, L
<1>6. \A k \in 0 .. n : FlatAt(L, stanzas, k)
  BY <1>1, <1>5, Flattened
<1>7. FlattenSeq(stanzas) = Flat(stanzas, n)
  BY <1>5 DEF Flat
<1>. QED  BY <1>1, <1>2, <1>3, <1>4, <1>6, <1>7 DEF n, L

\* A list of what is found, with what is found next.
LEMMA Lengthened ==
    ASSUME NEW m \in Nat, NEW S, NEW f \in [1 .. m + 1 -> S]
    PROVE  Append([i \in 1 .. m |-> f[i]], f[m + 1]) = f
<1>. DEFINE a == [i \in 1 .. m |-> f[i]]
<1>1. a \in [1 .. m -> S] /\ m + 1 \in 1 .. m + 1
  OBVIOUS
<1>2. a \in Seq(S) /\ f \in Seq(S) /\ Len(a) = m /\ Len(f) = m + 1
  <2>. HIDE DEF a
  <2>1. a \in Seq(S) /\ DOMAIN a = 1 .. m
    BY <1>1, SeqDef
  <2>2. f \in Seq(S) /\ DOMAIN f = 1 .. m + 1
    BY SeqDef
  <2>. QED  BY <2>1, <2>2, LenProperties
<1>3. \A i \in 1 .. m : a[i] = f[i]
  OBVIOUS
<1>. HIDE DEF a
<1>4. /\ Append(a, f[m + 1]) \in Seq(S) /\ Len(Append(a, f[m + 1])) = m + 1
      /\ \A i \in 1 .. m : Append(a, f[m + 1])[i] = a[i]
      /\ Append(a, f[m + 1])[m + 1] = f[m + 1]
  BY <1>1, <1>2, AppendProperties
<1>5. \A i \in 1 .. m + 1 : Append(a, f[m + 1])[i] = f[i]
  <2>1. \A i \in 1 .. m + 1 : i \in 1 .. m \/ i = m + 1
    OBVIOUS
  <2>. QED  BY <1>3, <1>4, <2>1
<1>6. Append(a, f[m + 1]) = f
  BY <1>2, <1>4, <1>5, SeqEqual
<1>. QED  BY <1>6 DEF a

\* What the first k stanzas say.
Parsed(stanzas, k, e) ==
    /\ e.failed <=> \E i \in 1 .. k : ~Complete(stanzas[i])
    /\ ~e.failed => /\ e.depends = <<>>
                    /\ e.packages = [i \in 1 .. k |-> PackageOf(stanzas[i])]
                    /\ e.conffiles = FlattenSeq([i \in 1 .. k |-> ConffilesOf(stanzas[i])])

\* The parser, after each stanza.
LEMMA StanzasRead ==
    ASSUME NEW stanzas, AreStanzas(stanzas), NEW k \in 0 .. Len(stanzas)
    PROVE  LET lines == Flat(stanzas, k)
               s     == StatusStates(StatusStart, lines)[Len(lines)]
           IN  s \in StatesIn(LinesIn(stanzas)) /\ Parsed(stanzas, k, Ended(s))
<1>. DEFINE L == LinesIn(stanzas)
            X == StatesIn(L)
            last == Len(stanzas)
            St(m) == StatusStates(StatusStart, Flat(stanzas, m))[Len(Flat(stanzas, m))]
            C == [i \in 1 .. last |-> ConffilesOf(stanzas[i])]
            T == {m \in 0 .. last : St(m) \in X /\ Parsed(stanzas, m, Ended(St(m)))}
<1>1. /\ last \in Nat /\ DOMAIN stanzas = 1 .. last
      /\ \A i \in 1 .. last : stanzas[i] \in Seq(L) /\ IsStanza(stanzas[i])
      /\ AreLines(L)
      /\ \A m \in 0 .. last : FlatAt(L, stanzas, m)
  BY StanzasAre
<1>2. StatusStart \in X /\ \A x \in X : \A line \in L : StatusLine(x, line) \in X
  <2>1. StatusStart \in X
    BY DEF StatusStart, NewBuilder, StatesIn, BuildersIn, ValuesIn, ProvidesIn
  <2>. QED  BY <1>1, <2>1, StatusLineType
<1>3. C \in [1 .. last -> Seq(EntriesIn(L))]
  <2>1. ASSUME NEW i \in 1 .. last PROVE ConffilesOf(stanzas[i]) \in Seq(EntriesIn(L))
    <3>. DEFINE stanza == stanzas[i]
    <3>1. stanza \in Seq(L) /\ IsStanza(stanza) /\ Len(stanza) \in 0 .. Len(stanza)
      BY <1>1, StanzaIs
    <3>. HIDE DEF stanza, L
    <3>2. /\ ConffilesOf(stanza) = Flat(ConffilesOfLines(stanza), Len(stanza))
          /\ FlatAt(EntriesIn(L), ConffilesOfLines(stanza), Len(stanza))
      BY <1>1, <3>1, LinesOfStanza
    <3>. QED  BY <3>2 DEF FlatAt, stanza
  <2>. HIDE DEF L, last
  <2>. QED  BY <2>1
<1>4. \A m \in 0 .. last : /\ FlatAt(EntriesIn(L), C, m)
                           /\ Flat(C, m) = FlattenSeq([i \in 1 .. m |-> ConffilesOf(stanzas[i])])
  <2>1. \A m \in 0 .. last : [i \in 1 .. m |-> C[i]] = [i \in 1 .. m |-> ConffilesOf(stanzas[i])]
    BY <1>1
  <2>. HIDE DEF C, L, last
  <2>2. \A m \in 0 .. last : FlatAt(EntriesIn(L), C, m)
    BY <1>1, <1>3, Flattened
  <2>3. \A m \in 0 .. last : Flat(C, m) = FlattenSeq([i \in 1 .. m |-> C[i]])
    BY DEF Flat
  <2>. QED  BY <2>1, <2>2, <2>3
<1>5. 0 \in T
  <2>1. Flat(stanzas, 0) = <<>> /\ 0 \in 0 .. last
    <3>1. 0 \in 0 .. last
      BY <1>1
    <3>2. FlatAt(L, stanzas, 0)
      BY <1>1, <3>1
    <3>. QED  BY <3>1, <3>2 DEF FlatAt
  <2>2. St(0) = StatusStart
    <3>1. <<>> \in Seq(L) /\ Len(<<>>) = 0
      OBVIOUS
    <3>. HIDE DEF X, L
    <3>2. StatusStates(StatusStart, <<>>) \in Steps(X, StatusStart, Len(<<>>), OnStatus(X, <<>>))
      BY <1>2, <3>1, StatusSteps
    <3>. QED  BY <2>1, <3>1, <3>2 DEF Steps
  <2>3. Ended(StatusStart) = StatusStart
    BY DEF Ended, StatusStart, Finished, NewBuilder
  <2>4. FlattenSeq([i \in 1 .. 0 |-> ConffilesOf(stanzas[i])]) = <<>>
    BY <1>4, <2>1 DEF FlatAt
  <2>5. [i \in 1 .. 0 |-> PackageOf(stanzas[i])] = <<>>
    OBVIOUS
  <2>6. Parsed(stanzas, 0, StatusStart)
    BY <2>4, <2>5 DEF Parsed, StatusStart
  <2>. HIDE DEF St, X
  <2>. QED  BY <1>2, <2>1, <2>2, <2>3, <2>6
<1>6. ASSUME NEW m \in 0 .. last - 1, m \in T PROVE m + 1 \in T
  <2>. DEFINE s == St(m)
              d == Ended(s)
              stanza == stanzas[m + 1]
              t == StatusStates(s, stanza)[Len(stanza)]
              e == Ended(t)
  <2>1. m + 1 \in 1 .. last /\ m + 1 \in 0 .. last /\ m \in 0 .. last /\ m \in Nat /\ (m + 1) - 1 = m
        /\ m + 1 > 0
    BY <1>1
  <2>2. s \in X /\ Parsed(stanzas, m, d)
    BY <1>6
  <2>3. stanza \in Seq(L) /\ IsStanza(stanza)
    BY <1>1, <2>1
  <2>4. St(m + 1) = t
    <3>. DEFINE a == Flat(stanzas, m)
    <3>1. a \in Seq(L) /\ Flat(stanzas, m + 1) = a \o stanza
      <4>1. FlatAt(L, stanzas, m) /\ FlatAt(L, stanzas, m + 1)
        BY <1>1, <2>1
      <4>2. Flat(stanzas, m + 1) = Flat(stanzas, (m + 1) - 1) \o stanza /\ a \in Seq(L)
        BY <2>1, <4>1 DEF FlatAt
      <4>. QED  BY <2>1, <4>2
    <3>. HIDE DEF a, X, L, stanza
    <3>2. StatusContinues(StatusStart, a, stanza)
      BY <1>2, <2>3, <3>1, StatusGoesOn
    <3>. QED  BY <3>1, <3>2 DEF a, StatusContinues
  <2>. HIDE DEF St, s
  <2>5. /\ t \in X
        /\ d.failed => e.failed
        /\ ~d.failed /\ d.depends = <<>> =>
             /\ e.failed <=> ~Complete(stanza)
             /\ ~e.failed => /\ e.depends = <<>>
                             /\ e.packages = Append(d.packages, PackageOf(stanza))
                             /\ e.conffiles = d.conffiles \o ConffilesOf(stanza)
    <3>. HIDE DEF L, stanza
    <3>. QED  BY <1>1, <2>2, <2>3, StanzaRead
  <2>. HIDE DEF d, e, t, X, L, C
  <2>6. Parsed(stanzas, m + 1, e)
    <3>1. e.failed <=> \E i \in 1 .. m + 1 : ~Complete(stanzas[i])
      <4>1. (\E i \in 1 .. m + 1 : ~Complete(stanzas[i])) <=>
                (\E i \in 1 .. m : ~Complete(stanzas[i])) \/ ~Complete(stanza)
        <5>1. \A i \in 1 .. m + 1 : i \in 1 .. m \/ i = m + 1
          BY <2>1
        <5>2. \A i \in 1 .. m : i \in 1 .. m + 1
          BY <2>1
        <5>3. m + 1 \in 1 .. m + 1
          BY <2>1
        <5>. QED  BY <5>1, <5>2, <5>3
      <4>. QED  BY <2>2, <2>5, <4>1 DEF Parsed
    <3>2. ASSUME ~e.failed
          PROVE  /\ e.depends = <<>>
                 /\ e.packages = [i \in 1 .. m + 1 |-> PackageOf(stanzas[i])]
                 /\ e.conffiles = FlattenSeq([i \in 1 .. m + 1 |-> ConffilesOf(stanzas[i])])
      <4>1. ~d.failed /\ d.depends = <<>>
        BY <2>2, <2>5, <3>2 DEF Parsed
      <4>2. /\ e.depends = <<>>
            /\ e.packages = Append([i \in 1 .. m |-> PackageOf(stanzas[i])], PackageOf(stanza))
            /\ e.conffiles = Flat(C, m) \o ConffilesOf(stanza)
        BY <1>4, <2>1, <2>2, <2>5, <3>2, <4>1 DEF Parsed
      <4>3. Append([i \in 1 .. m |-> PackageOf(stanzas[i])], PackageOf(stanza)) =
                [i \in 1 .. m + 1 |-> PackageOf(stanzas[i])]
        <5>. DEFINE f == [i \in 1 .. m + 1 |-> PackageOf(stanzas[i])]
                    S == {PackageOf(stanzas[i]) : i \in 1 .. m + 1}
        <5>1. /\ f \in [1 .. m + 1 -> S] /\ f[m + 1] = PackageOf(stanza)
              /\ [i \in 1 .. m |-> f[i]] = [i \in 1 .. m |-> PackageOf(stanzas[i])]
          BY <2>1
        <5>. HIDE DEF f, S
        <5>2. Append([i \in 1 .. m |-> f[i]], f[m + 1]) = f
          BY <2>1, <5>1, Lengthened
        <5>. QED  BY <5>1, <5>2 DEF f
      <4>4. Flat(C, m + 1) = Flat(C, m) \o ConffilesOf(stanza)
        <5>1. Flat(C, m + 1) = Flat(C, (m + 1) - 1) \o C[m + 1]
          BY <1>4, <2>1 DEF FlatAt
        <5>2. C[m + 1] = ConffilesOf(stanza)
          BY <2>1 DEF C
        <5>. QED  BY <2>1, <5>1, <5>2
      <4>5. Flat(C, m + 1) = FlattenSeq([i \in 1 .. m + 1 |-> ConffilesOf(stanzas[i])])
        BY <1>4, <2>1
      <4>. QED  BY <4>2, <4>3, <4>4, <4>5
    <3>. QED  BY <3>1, <3>2 DEF Parsed
  <2>. QED  BY <2>1, <2>4, <2>5, <2>6 DEF e, X, L
<1>7. k \in T
  <2>1. k \in 0 .. last
    OBVIOUS
  <2>. HIDE DEF T, last
  <2>2. \A m \in 0 .. last : m \in T
    BY <1>1, <1>5, <1>6, UpTo
  <2>. QED  BY <2>1, <2>2
<1>. QED  BY <1>7

\* What dpkg's status file says, for every one that is well-formed.
LEMMA StatusWritten ==
    ASSUME NEW stanzas, AreStanzas(stanzas)
    PROVE  StatusAsWritten(stanzas)
<1>. DEFINE n == Len(stanzas)
            e == ParseStatus(FlattenSeq(stanzas))
<1>1. n \in Nat /\ DOMAIN stanzas = 1 .. n /\ FlattenSeq(stanzas) = Flat(stanzas, n) /\ n \in 0 .. n
  BY StanzasAre
<1>2. Parsed(stanzas, n, e)
  BY <1>1, StanzasRead DEF ParseStatus
<1>. HIDE DEF e
<1>3. [i \in DOMAIN stanzas |-> PackageOf(stanzas[i])] = [i \in 1 .. n |-> PackageOf(stanzas[i])]
  BY <1>1
<1>4. [i \in DOMAIN stanzas |-> ConffilesOf(stanzas[i])] = [i \in 1 .. n |-> ConffilesOf(stanzas[i])]
  BY <1>1
<1>. QED  BY <1>1, <1>2, <1>3, <1>4 DEF StatusAsWritten, Parsed, e

\* The packages it lists, and the configuration files, are of their types.
LEMMA StatusTyped ==
    ASSUME NEW stanzas, AreStanzas(stanzas)
    PROVE  LET s == ParseStatus(FlattenSeq(stanzas))
           IN  /\ s.packages \in Seq(PackagesIn(LinesIn(stanzas)))
               /\ s.conffiles \in Seq(EntriesIn(LinesIn(stanzas)))
<1>. DEFINE n == Len(stanzas)
            s == ParseStatus(FlattenSeq(stanzas))
<1>1. FlattenSeq(stanzas) = Flat(stanzas, n) /\ n \in 0 .. n
  BY StanzasAre
<1>2. s \in StatesIn(LinesIn(stanzas))
  BY <1>1, StanzasRead, FinishedIs DEF ParseStatus, Ended
<1>. QED  BY <1>2 DEF StatesIn

-----------------------------------------------------------------------------
(* Reasons *)

\* What a line does, of that parser.
OnExtended(X, lines) == [n \in 1 .. Len(lines) |-> [x \in X |-> ExtendedLine(x, lines[n])]]

\* The states of parse_extended_status, line by line.
LEMMA ExtendedSteps ==
    ASSUME NEW X, NEW L, \A x \in X : \A line \in L : ExtendedLine(x, line) \in X,
           NEW s \in X, NEW lines \in Seq(L)
    PROVE  ExtendedStates(s, lines) \in Steps(X, s, Len(lines), OnExtended(X, lines))
<1>. DEFINE n == Len(lines)
            h == OnExtended(X, lines)
            after == CHOOSE f : f = [k \in 0 .. n |->
                        IF k = 0 THEN s ELSE ExtendedLine(f[k - 1], lines[k])]
<1>1. n \in Nat /\ h \in [1 .. n -> [X -> X]] /\ \A k \in 1 .. n : \A x \in X :
                                                    h[k][x] = ExtendedLine(x, lines[k])
  <2>1. n \in Nat /\ \A k \in 1 .. n : lines[k] \in L
    BY LenProperties
  <2>2. \A k \in 1 .. n : [x \in X |-> ExtendedLine(x, lines[k])] \in [X -> X]
    BY <2>1
  <2>. HIDE DEF n
  <2>3. h = [k \in 1 .. n |-> [x \in X |-> ExtendedLine(x, lines[k])]]
    BY DEF OnExtended, n
  <2>. QED  BY <2>1, <2>2, <2>3
<1>. HIDE DEF n, h
<1>2. PICK g \in [0 .. n -> X] : g[0] = s /\ \A k \in 1 .. n : g[k] = h[k][g[k - 1]]
  <2>1. Steps(X, s, n, h) # {}
    BY <1>1, Recursion
  <2>. QED  BY <2>1 DEF Steps
<1>3. g = [k \in 0 .. n |-> IF k = 0 THEN s ELSE ExtendedLine(g[k - 1], lines[k])]
  <2>1. ASSUME NEW k \in 0 .. n, k # 0 PROVE g[k] = ExtendedLine(g[k - 1], lines[k])
    <3>1. k \in 1 .. n /\ k - 1 \in 0 .. n
      BY <1>1, <2>1
    <3>. QED  BY <1>1, <1>2, <3>1
  <2>. QED  BY <1>2, <2>1
<1>4. after = [k \in 0 .. n |-> IF k = 0 THEN s ELSE ExtendedLine(after[k - 1], lines[k])]
  BY <1>3, Zenon
<1>5. ExtendedStates(s, lines) = after
  BY DEF ExtendedStates, n
<1>. HIDE DEF after
<1>6. \A k \in 0 .. n : after[k] = IF k = 0 THEN s ELSE ExtendedLine(after[k - 1], lines[k])
  BY <1>4
<1>. DEFINE T == {k \in 0 .. n : after[k] = g[k]}
<1>7. 0 \in T
  BY <1>1, <1>2, <1>6
<1>8. ASSUME NEW k \in 0 .. n - 1, k \in T PROVE k + 1 \in T
  <2>1. k + 1 \in 1 .. n /\ k + 1 \in 0 .. n /\ (k + 1) - 1 = k /\ k + 1 # 0
    BY <1>1
  <2>2. after[k + 1] = ExtendedLine(after[k], lines[k + 1])
    BY <1>6, <2>1
  <2>3. g[k + 1] = ExtendedLine(g[k], lines[k + 1])
    BY <1>1, <1>2, <2>1
  <2>. QED  BY <1>8, <2>1, <2>2, <2>3
<1>9. \A k \in 0 .. n : k \in T
  <2>. HIDE DEF T
  <2>. QED  BY <1>1, <1>7, <1>8, UpTo
<1>10. after = g
  BY <1>4, <1>9
<1>. QED  BY <1>2, <1>5, <1>10 DEF Steps, n, h

\* It too goes on where the lines before lead.
ExtendedContinues(s, a, b) ==
    LET t == ExtendedStates(s, a)[Len(a)]
    IN  ExtendedStates(s, a \o b)[Len(a \o b)] = ExtendedStates(t, b)[Len(b)]

LEMMA ExtendedGoesOn ==
    ASSUME NEW X, NEW L, \A x \in X : \A line \in L : ExtendedLine(x, line) \in X,
           NEW s \in X, NEW a \in Seq(L), NEW b \in Seq(L)
    PROVE  ExtendedStates(s, a)[Len(a)] \in X /\ ExtendedContinues(s, a, b)
<1>. DEFINE A == ExtendedStates(s, a)
            t == A[Len(a)]
            B == ExtendedStates(t, b)
            C == ExtendedStates(s, a \o b)
            n == Len(a)
            m == Len(b)
            h == OnExtended(X, a \o b)
            g == OnExtended(X, a)
            e == OnExtended(X, b)
<1>1. /\ Len(a) \in Nat /\ Len(b) \in Nat /\ Len(a \o b) = Len(a) + Len(b) /\ a \o b \in Seq(L)
      /\ \A i \in 1 .. Len(a) : (a \o b)[i] = a[i]
      /\ \A i \in 1 .. Len(b) : (a \o b)[Len(a) + i] = b[i]
  <2>1. \A i \in 1 .. Len(b) : Len(a) + i \in 1 .. Len(a) + Len(b) /\ Len(a) + i > Len(a)
    BY LenProperties
  <2>2. \A i \in 1 .. Len(b) : (Len(a) + i) - Len(a) = i
    BY LenProperties
  <2>3. \A i \in 1 .. Len(a) : i \in 1 .. Len(a) + Len(b)
    BY LenProperties
  <2>. QED  BY <2>1, <2>2, <2>3, ConcatProperties, LenProperties
<1>2. ExtendedStates(s, a) \in Steps(X, s, Len(a), OnExtended(X, a))
  BY ExtendedSteps
<1>3. t \in X
  <2>1. A \in Steps(X, s, n, g) /\ n \in Nat
    BY <1>1, <1>2
  <2>. HIDE DEF A, n, g
  <2>2. \A k \in 0 .. n : A[k] \in X
    BY <2>1, StepsType
  <2>3. n \in 0 .. n
    BY <2>1
  <2>. QED  BY <2>2, <2>3 DEF n
<1>4. ExtendedStates(t, b) \in Steps(X, t, Len(b), OnExtended(X, b))
  BY <1>3, ExtendedSteps
<1>5. ExtendedStates(s, a \o b) \in Steps(X, s, Len(a) + Len(b), OnExtended(X, a \o b))
  BY <1>1, ExtendedSteps
<1>6. \A i \in 1 .. Len(a) : OnExtended(X, a \o b)[i] = OnExtended(X, a)[i]
  <2>1. \A i \in 1 .. Len(a) : i \in 1 .. Len(a \o b)
    BY <1>1
  <2>. QED  BY <1>1, <2>1 DEF OnExtended
<1>7. \A i \in 1 .. Len(b) : OnExtended(X, a \o b)[Len(a) + i] = OnExtended(X, b)[i]
  <2>1. \A i \in 1 .. Len(b) : Len(a) + i \in 1 .. Len(a \o b)
    BY <1>1
  <2>. QED  BY <1>1, <2>1 DEF OnExtended
<1>8. ExtendedStates(s, a \o b)[Len(a) + Len(b)] = ExtendedStates(t, b)[Len(b)]
  <2>1. Joins(X, s, n, m, h, g, e, C, A, B)
    BY <1>1, <1>2, <1>4, <1>5, <1>6, <1>7 DEF Joins
  <2>. HIDE DEF A, B, C, n, m, h, g, e
  <2>2. C[n + m] = B[m]
    BY <2>1, Joined
  <2>. QED  BY <2>2 DEF B, C, n, m
<1>. QED  BY <1>1, <1>3, <1>8 DEF ExtendedContinues

\* What a value of Auto-Installed means.
ReasonOf(value) ==
    CASE value = "1" -> "Dependency" [] value = "0" -> "Explicit" [] OTHER -> None

Reason == {"Dependency", "Explicit", None}

FindingsIn(L) == [key : ValuesIn(L) \X (ValuesIn(L) \cup {ALL}), reason : Reason]

ExtendedIn(L) ==
    [ state : {"Start", "Package", "Architecture"}, name : ValuesIn(L), arch : ValuesIn(L),
      result : Seq(FindingsIn(L)) ]

ForBoth(name, arch, reason) ==
    << [key |-> <<name, arch>>, reason |-> reason], [key |-> <<name, ALL>>, reason |-> reason] >>

\* What each line makes of the state.
ExtendedStep(s, line, t) ==
    /\ line.key = "Package" =>
         t.state = "Package" /\ t.name = line.value /\ t.result = s.result
    /\ line.key # "Package" => t.name = s.name
    /\ s.state = "Package" /\ line.key = "Architecture" =>
         t.state = "Architecture" /\ t.arch = line.value /\ t.result = s.result
    /\ s.state = "Architecture" /\ line.key = "Auto-Installed" =>
         t.state = "Start" /\ t.result = s.result \o ForBoth(s.name, s.arch, ReasonOf(line.value))
    /\ line.key \notin {"Package", "Architecture", "Auto-Installed"} => t = s

LEMMA ExtendedLineIs ==
    ASSUME NEW L, NEW s \in ExtendedIn(L), NEW line \in L
    PROVE  /\ ExtendedLine(s, line) \in ExtendedIn(L)
           /\ ExtendedStep(s, line, ExtendedLine(s, line))
<1>. DEFINE t == ExtendedLine(s, line)
            f == ForBoth(s.name, s.arch, ReasonOf(line.value))
<1>1. line.value \in ValuesIn(L) /\ s.name \in ValuesIn(L) /\ s.arch \in ValuesIn(L)
      /\ s.result \in Seq(FindingsIn(L))
  BY DEF ValuesIn, ExtendedIn
<1>2. f \in Seq(FindingsIn(L))
  <2>. DEFINE reason == ReasonOf(line.value)
              x == [key |-> <<s.name, s.arch>>, reason |-> reason]
              y == [key |-> <<s.name, ALL>>, reason |-> reason]
  <2>1. reason \in Reason
    BY DEF ReasonOf, Reason
  <2>. HIDE DEF reason
  <2>2. x \in FindingsIn(L) /\ y \in FindingsIn(L)
    BY <1>1, <2>1 DEF FindingsIn
  <2>. HIDE DEF x, y
  <2>3. <<x, y>> \in Seq(FindingsIn(L))
    BY <2>2
  <2>. QED  BY <2>3 DEF ForBoth, x, y, reason
<1>3. CASE line.key = "Package"
  <2>1. t = [s EXCEPT !.state = "Package", !.name = line.value]
    BY <1>3 DEF ExtendedLine
  <2>. QED  BY <1>1, <1>3, <2>1 DEF ExtendedIn, ExtendedStep
<1>4. CASE line.key = "Architecture" /\ s.state = "Package"
  <2>1. t = [s EXCEPT !.state = "Architecture", !.arch = line.value]
    BY <1>4 DEF ExtendedLine
  <2>. QED  BY <1>1, <1>4, <2>1 DEF ExtendedIn, ExtendedStep
<1>5. CASE line.key = "Auto-Installed" /\ s.state = "Architecture"
  <2>1. t = [s EXCEPT !.state = "Start", !.result = s.result \o f]
    BY <1>5 DEF ExtendedLine, ForBoth, ReasonOf
  <2>2. s.result \o f \in Seq(FindingsIn(L))
    BY <1>1, <1>2, ConcatProperties
  <2>. HIDE DEF f, t
  <2>3. t \in ExtendedIn(L) /\ t.state = "Start" /\ t.result = s.result \o f /\ t.name = s.name
    BY <2>1, <2>2 DEF ExtendedIn
  <2>. QED  BY <1>2, <1>5, <2>3 DEF f, t, ExtendedStep
<1>6. CASE /\ line.key # "Package"
           /\ ~(line.key = "Architecture" /\ s.state = "Package")
           /\ ~(line.key = "Auto-Installed" /\ s.state = "Architecture")
  <2>1. t = s
    BY <1>6 DEF ExtendedLine
  <2>. QED  BY <1>6, <2>1 DEF ExtendedStep
<1>. QED  BY <1>3, <1>4, <1>5, <1>6

\* A field is found when one of the lines has it.
LEMMA FieldFound ==
    ASSUME NEW stanza, NEW n \in Nat, NEW key, \A i \in 1 .. n : stanza[i].value # None
    PROVE  FieldTo(stanza, n, key) # None <=> \E i \in 1 .. n : stanza[i].key = key
<1>. DEFINE at == {i \in 1 .. n : stanza[i].key = key}
<1>1. CASE at = {}
  BY <1>1 DEF FieldTo
<1>2. CASE at # {}
  <2>1. Max(at) \in at
    <3>1. at \in SUBSET (0 .. n)
      OBVIOUS
    <3>. HIDE DEF at
    <3>. QED  BY <1>2, <3>1, Greatest
  <2>2. stanza[Max(at)].value # None
    BY <2>1
  <2>. QED  BY <1>2, <2>2 DEF FieldTo
<1>. QED  BY <1>1, <1>2

\* After the first n lines of a stanza, read from where r was found.
ExtendedTo(r, stanza, n, s) ==
    LET arch   == FieldTo(stanza, n, "Architecture")
        value  == FieldTo(stanza, n, "Auto-Installed")
    IN  /\ s.name = stanza[1].value
        /\ value # None => arch # None
        /\ arch = None => s.state = "Package" /\ s.result = r
        /\ arch # None /\ value = None => s.state = "Architecture" /\ s.arch = arch /\ s.result = r
        /\ value # None => /\ s.result = r \o ForBoth(stanza[1].value, arch, ReasonOf(value))
                           /\ s.state = "Start"

\* What a stanza adds to what was found.
FoundIn(stanza) ==
    IF FieldOf(stanza, "Auto-Installed") = None THEN <<>>
    ELSE ForBoth(FieldOf(stanza, "Package"), FieldOf(stanza, "Architecture"),
               ReasonOf(FieldOf(stanza, "Auto-Installed")))

LEMMA ExtendedGoesThrough ==
    ASSUME NEW L, NEW stanza \in Seq(L), IsExtended(stanza), NEW r,
           NEW s \in ExtendedIn(L), NEW n \in 1 .. Len(stanza) - 1, ExtendedTo(r, stanza, n, s)
    PROVE  LET t == ExtendedLine(s, stanza[n + 1])
           IN  t \in ExtendedIn(L) /\ ExtendedTo(r, stanza, n + 1, t)
<1>. DEFINE line == stanza[n + 1]
            t == ExtendedLine(s, line)
            arch == FieldTo(stanza, n, "Architecture")
            value == FieldTo(stanza, n, "Auto-Installed")
            last == Len(stanza)
<1>1. /\ last \in Nat /\ DOMAIN stanza = 1 .. last
      /\ \A i \in 1 .. last : /\ stanza[i] \in L /\ stanza[i].value # None
                              /\ stanza[i].key = "Package" <=> i = 1
      /\ FieldTo(stanza, last, "Architecture") # None
  BY StanzaIs DEF IsExtended
<1>2. n \in Nat /\ n + 1 \in 1 .. last /\ n + 1 # 1 /\ \A i \in 1 .. n : i \in 1 .. last /\ i # n + 1
  BY <1>1
<1>3. line \in L /\ line.key # "Package" /\ line.value # None
  BY <1>1, <1>2
<1>4. /\ \A key : FieldTo(stanza, n, key) # None <=> \E i \in 1 .. n : stanza[i].key = key
      /\ \A key : FieldTo(stanza, last, key) # None <=> \E i \in 1 .. last : stanza[i].key = key
  BY <1>1, <1>2, FieldFound
<1>5. \A i, j \in 1 .. last :
        /\ stanza[i].key = stanza[j].key
              /\ stanza[i].key \in {"Architecture", "Auto-Installed"} => i = j
        /\ stanza[i].key = "Architecture" /\ stanza[j].key = "Auto-Installed" => i < j
  BY <1>1 DEF IsExtended
<1>6. line.key = "Architecture" => arch = None /\ value = None
  <2>1. ASSUME line.key = "Architecture", NEW i \in 1 .. n, stanza[i].key = "Auto-Installed" PROVE FALSE
    <3>1. n + 1 < i
      BY <1>2, <1>5, <2>1
    <3>. QED  BY <3>1
  <2>2. ASSUME line.key = "Architecture", NEW i \in 1 .. n, stanza[i].key = "Architecture" PROVE FALSE
    BY <1>2, <1>5, <2>2
  <2>. QED  BY <1>4, <2>1, <2>2
<1>7. line.key = "Auto-Installed" => arch # None /\ value = None
  <2>1. ASSUME line.key = "Auto-Installed", NEW i \in 1 .. n, stanza[i].key = "Auto-Installed" PROVE FALSE
    BY <1>2, <1>5, <2>1
  <2>2. ASSUME line.key = "Auto-Installed" PROVE \E i \in 1 .. n : stanza[i].key = "Architecture"
    <3>1. PICK i \in 1 .. last : stanza[i].key = "Architecture"
      BY <1>1, <1>4
    <3>2. i < n + 1
      BY <1>2, <1>5, <2>2, <3>1
    <3>3. i \in 1 .. n
      BY <3>2
    <3>. QED  BY <3>1, <3>3
  <2>. QED  BY <1>4, <2>1, <2>2
<1>8. /\ FieldTo(stanza, n + 1, "Architecture") =
            IF line.key = "Architecture" THEN line.value ELSE arch
      /\ FieldTo(stanza, n + 1, "Auto-Installed") =
            IF line.key = "Auto-Installed" THEN line.value ELSE value
  BY <1>2, FieldNext
<1>9. /\ s.name = stanza[1].value
      /\ value # None => arch # None
      /\ arch = None => s.state = "Package" /\ s.result = r
      /\ arch # None /\ value = None => s.state = "Architecture" /\ s.arch = arch /\ s.result = r
      /\ value # None => /\ s.result = r \o ForBoth(stanza[1].value, arch, ReasonOf(value))
                         /\ s.state = "Start"
  BY DEF ExtendedTo
<1>10. t \in ExtendedIn(L) /\ ExtendedStep(s, line, t)
  <2>. HIDE DEF line
  <2>. QED  BY <1>3, ExtendedLineIs
<1>. HIDE DEF t, line, arch, value
<1>11. ExtendedTo(r, stanza, n + 1, t)
  <2>1. CASE line.key = "Architecture"
    BY <1>3, <1>6, <1>8, <1>9, <1>10, <2>1 DEF ExtendedTo, ExtendedStep
  <2>2. CASE line.key = "Auto-Installed"
    BY <1>3, <1>7, <1>8, <1>9, <1>10, <2>2 DEF ExtendedTo, ExtendedStep
  <2>3. CASE line.key \notin {"Architecture", "Auto-Installed"}
    BY <1>3, <1>8, <1>9, <1>10, <2>3 DEF ExtendedTo, ExtendedStep
  <2>. QED  BY <2>1, <2>2, <2>3
<1>. QED  BY <1>10, <1>11 DEF t, line

\* A stanza of apt's file adds what it says, wherever it is read.
LEMMA ExtendedRead ==
    ASSUME NEW L, NEW stanza \in Seq(L), IsExtended(stanza), NEW s \in ExtendedIn(L)
    PROVE  LET t == ExtendedStates(s, stanza)[Len(stanza)]
           IN  t \in ExtendedIn(L) /\ t.result = s.result \o FoundIn(stanza)
<1>. DEFINE X == ExtendedIn(L)
            last == Len(stanza)
            S == ExtendedStates(s, stanza)
            t == S[last]
<1>0. IsStanza(stanza)
  BY DEF IsExtended
<1>1. /\ last \in Nat \ {0}
      /\ \A i \in 1 .. last : stanza[i] \in L /\ stanza[i].value # None
      /\ stanza[1].key = "Package" /\ stanza[1].value # None
      /\ \A key : FieldOf(stanza, key) = FieldTo(stanza, last, key)
      /\ FieldOf(stanza, "Package") = stanza[1].value
      /\ FieldTo(stanza, last, "Architecture") # None
  <2>1. 1 \in 1 .. Len(stanza)
    BY <1>0, StanzaIs
  <2>. QED  BY <1>0, <2>1, StanzaIs DEF IsExtended
<1>2. S \in Steps(X, s, last, OnExtended(X, stanza))
  <2>1. s \in X /\ \A x \in X : \A line \in L : ExtendedLine(x, line) \in X
    BY ExtendedLineIs
  <2>. HIDE DEF X
  <2>. QED  BY <2>1, ExtendedSteps
<1>3. /\ S[0] = s /\ \A n \in 0 .. last : S[n] \in X
      /\ \A n \in 0 .. last - 1 : S[n + 1] = ExtendedLine(S[n], stanza[n + 1])
  <2>. HIDE DEF X, last, S
  <2>1. \A n \in 0 .. last : S[n] \in X
    BY <1>1, <1>2, StepsType
  <2>2. S[0] = s /\ \A n \in 1 .. last : S[n] = OnExtended(X, stanza)[n][S[n - 1]]
    BY <1>2 DEF Steps
  <2>3. ASSUME NEW n \in 0 .. last - 1 PROVE S[n + 1] = ExtendedLine(S[n], stanza[n + 1])
    <3>1. n + 1 \in 1 .. last /\ (n + 1) - 1 = n /\ n \in 0 .. last
      BY <1>1
    <3>2. S[n + 1] = OnExtended(X, stanza)[n + 1][S[n]] /\ S[n] \in X
      BY <2>1, <2>2, <3>1
    <3>. QED  BY <3>1, <3>2 DEF OnExtended, last
  <2>. QED  BY <2>1, <2>2, <2>3
<1>. DEFINE T == {n \in 0 .. last : n > 0 => ExtendedTo(s.result, stanza, n, S[n])}
<1>. HIDE DEF S, last
<1>4. 0 \in T
  BY <1>1
<1>5. ASSUME NEW n \in 0 .. last - 1, n \in T PROVE n + 1 \in T
  <2>1. n + 1 \in 1 .. last /\ n + 1 \in 0 .. last /\ n \in 0 .. last /\ S[n] \in X
        /\ S[n + 1] = ExtendedLine(S[n], stanza[n + 1])
    BY <1>1, <1>3
  <2>2. CASE n = 0
    <3>. DEFINE u == ExtendedLine(s, stanza[1])
    <3>1. S[1] = u /\ n + 1 = 1 /\ stanza[1] \in L
      BY <1>1, <1>3, <2>1, <2>2
    <3>2. u.state = "Package" /\ u.name = stanza[1].value /\ u.result = s.result
      <4>1. ExtendedStep(s, stanza[1], u)
        BY <3>1, ExtendedLineIs
      <4>. QED  BY <1>1, <4>1 DEF ExtendedStep
    <3>3. FieldTo(stanza, 1, "Architecture") = None /\ FieldTo(stanza, 1, "Auto-Installed") = None
      BY <1>1 DEF FieldTo
    <3>. HIDE DEF u
    <3>4. ExtendedTo(s.result, stanza, 1, u)
      BY <3>2, <3>3 DEF ExtendedTo
    <3>. QED  BY <2>1, <3>1, <3>4
  <2>3. CASE n # 0
    <3>1. ExtendedTo(s.result, stanza, n, S[n]) /\ n \in 1 .. Len(stanza) - 1
      BY <1>5, <2>3 DEF last
    <3>2. ExtendedTo(s.result, stanza, n + 1, S[n + 1])
      BY <2>1, <3>1, ExtendedGoesThrough
    <3>. QED  BY <2>1, <3>2
  <2>. QED  BY <2>2, <2>3
<1>6. ExtendedTo(s.result, stanza, last, t)
  <2>1. last \in T
    <3>. HIDE DEF T
    <3>1. \A n \in 0 .. last : n \in T
      BY <1>1, <1>4, <1>5, UpTo
    <3>. QED  BY <1>1, <3>1
  <2>. QED  BY <1>1, <2>1
<1>7. t \in X /\ s.result \in Seq(FindingsIn(L))
  BY <1>1, <1>3 DEF ExtendedIn
<1>. HIDE DEF t
<1>8. t.result = s.result \o FoundIn(stanza)
  <2>1. CASE FieldOf(stanza, "Auto-Installed") = None
    <3>1. t.result = s.result
      BY <1>1, <1>6, <2>1 DEF ExtendedTo
    <3>. QED  BY <1>7, <2>1, <3>1, ConcatEmptySeq DEF FoundIn
  <2>2. CASE FieldOf(stanza, "Auto-Installed") # None
    BY <1>1, <1>6, <2>2 DEF ExtendedTo, FoundIn
  <2>. QED  BY <2>1, <2>2
<1>. QED  BY <1>7, <1>8 DEF t, S, last

\* What is found later counts.
LEMMA ReasonAfter ==
    ASSUME NEW F, NEW r \in Seq(F), NEW name, NEW arch, NEW reason, NEW key
    PROVE  ReasonFor(r \o ForBoth(name, arch, reason), key) =
             IF key \in {<<name, arch>>, <<name, ALL>>} THEN reason ELSE ReasonFor(r, key)
<1>. DEFINE x == [key |-> <<name, arch>>, reason |-> reason]
            y == [key |-> <<name, ALL>>, reason |-> reason]
            n == Len(r)
            u == r \o <<x, y>>
            at == {i \in 1 .. n + 2 : u[i].key = key}
            before == {i \in 1 .. n : r[i].key = key}
<1>1. x.key = <<name, arch>> /\ x.reason = reason /\ y.key = <<name, ALL>> /\ y.reason = reason
  OBVIOUS
<1>2. /\ n \in Nat /\ DOMAIN r = 1 .. n /\ DOMAIN u = 1 .. n + 2
      /\ \A i \in 1 .. n : u[i] = r[i]
      /\ u[n + 1] = x /\ u[n + 2] = y
  <2>. DEFINE f == <<x, y>>
              G == F \cup {x, y}
  <2>. HIDE DEF x, y
  <2>1. f \in Seq(G) /\ Len(f) = 2 /\ f[1] = x /\ f[2] = y /\ r \in Seq(G)
    OBVIOUS
  <2>. HIDE DEF f, G
  <2>2. /\ r \o f \in Seq(G) /\ Len(r \o f) = Len(r) + Len(f)
        /\ \A i \in 1 .. Len(r) + Len(f) :
             (r \o f)[i] = IF i <= Len(r) THEN r[i] ELSE f[i - Len(r)]
    BY <2>1, ConcatProperties
  <2>3. n \in Nat /\ DOMAIN r = 1 .. n /\ DOMAIN (r \o f) = 1 .. n + 2
    BY <2>1, <2>2, LenProperties
  <2>4. \A i \in 1 .. n : i \in 1 .. Len(r) + Len(f) /\ i <= Len(r)
    BY <2>1, <2>3
  <2>5. /\ n + 1 \in 1 .. Len(r) + Len(f) /\ ~(n + 1 <= Len(r)) /\ (n + 1) - Len(r) = 1
        /\ n + 2 \in 1 .. Len(r) + Len(f) /\ ~(n + 2 <= Len(r)) /\ (n + 2) - Len(r) = 2
    BY <2>1, <2>3
  <2>. QED  BY <2>1, <2>2, <2>3, <2>4, <2>5 DEF f
<1>. HIDE DEF x, y, u, n
<1>3. /\ ReasonFor(u, key) = IF at = {} THEN None ELSE u[Max(at)].reason
      /\ ReasonFor(r, key) = IF before = {} THEN None ELSE r[Max(before)].reason
  <2>1. at = {i \in DOMAIN u : u[i].key = key} /\ before = {i \in DOMAIN r : r[i].key = key}
    BY <1>2
  <2>. HIDE DEF at, before
  <2>. QED  BY <2>1 DEF ReasonFor
<1>4. at \in SUBSET (0 .. n + 2) /\ before \in SUBSET (0 .. n)
  BY <1>2
<1>5. CASE key = <<name, ALL>>
  <2>1. n + 2 \in at /\ \A i \in at : i <= n + 2
    BY <1>1, <1>2, <1>5
  <2>2. Max(at) = n + 2
    <3>. HIDE DEF at
    <3>1. n + 2 \in Nat
      BY <1>2
    <3>. QED  BY <1>4, <2>1, <3>1, TheGreatest
  <2>3. ReasonFor(u, key) = reason
    BY <1>1, <1>2, <1>3, <2>1, <2>2
  <2>. QED  BY <1>5, <2>3 DEF ForBoth, u, x, y
<1>6. CASE key # <<name, ALL>> /\ key = <<name, arch>>
  <2>1. n + 1 \in at /\ n + 2 \notin at /\ \A i \in at : i <= n + 1
    <3>1. n + 1 \in at /\ n + 2 \notin at
      BY <1>1, <1>2, <1>6
    <3>2. ASSUME NEW i \in at PROVE i <= n + 1
      <4>1. i \in 1 .. n + 2 /\ i # n + 2
        BY <3>1
      <4>. QED  BY <1>2, <4>1
    <3>. QED  BY <3>1, <3>2
  <2>2. Max(at) = n + 1
    <3>. HIDE DEF at
    <3>1. n + 2 \in Nat
      BY <1>2
    <3>. QED  BY <1>4, <2>1, <3>1, TheGreatest
  <2>3. ReasonFor(u, key) = reason
    BY <1>1, <1>2, <1>3, <2>1, <2>2
  <2>. QED  BY <1>6, <2>3 DEF ForBoth, u, x, y
<1>7. CASE key \notin {<<name, arch>>, <<name, ALL>>}
  <2>1. n + 1 \notin at /\ n + 2 \notin at
    BY <1>1, <1>2, <1>7
  <2>2. at = before
    <3>1. ASSUME NEW i \in at PROVE i \in before
      <4>1. i \in 1 .. n + 2 /\ i # n + 1 /\ i # n + 2 /\ u[i].key = key
        BY <2>1
      <4>2. i \in 1 .. n
        BY <1>2, <4>1
      <4>. QED  BY <1>2, <4>1, <4>2
    <3>2. ASSUME NEW i \in before PROVE i \in at
      <4>1. i \in 1 .. n + 2 /\ u[i] = r[i]
        BY <1>2
      <4>. QED  BY <4>1
    <3>. QED  BY <3>1, <3>2
  <2>3. before # {} => Max(before) \in before
    <3>. HIDE DEF before
    <3>. QED  BY <1>2, <1>4, Greatest
  <2>4. before # {} => u[Max(before)] = r[Max(before)]
    BY <1>2, <2>3
  <2>5. ReasonFor(u, key) = ReasonFor(r, key)
    <3>. HIDE DEF at, before
    <3>. QED  BY <1>3, <2>2, <2>4
  <2>. QED  BY <1>7, <2>5 DEF ForBoth, u, x, y
<1>. QED  BY <1>5, <1>6, <1>7

\* Whether the first k stanzas say that apt installed a package by itself.
InstalledByApt(extended, k, pkg) ==
    \E i \in 1 .. k : /\ Decides(extended[i], pkg)
                      /\ FieldOf(extended[i], "Auto-Installed") = "1"
                      /\ \A m \in 1 .. k : m > i => ~Decides(extended[m], pkg)

\* One more stanza, and what it adds to what was found.
LEMMA ReasonNext ==
    ASSUME None # "Dependency",
           NEW F, NEW r \in Seq(F), NEW extended, NEW k \in Nat, NEW pkg,
           ReasonFor(r, <<pkg.name, pkg.arch>>) = "Dependency" <=> InstalledByApt(extended, k, pkg)
    PROVE  ReasonFor(r \o FoundIn(extended[k + 1]), <<pkg.name, pkg.arch>>) = "Dependency"
             <=> InstalledByApt(extended, k + 1, pkg)
<1>. DEFINE stanza == extended[k + 1]
            key == <<pkg.name, pkg.arch>>
            value == FieldOf(stanza, "Auto-Installed")
            arch == FieldOf(stanza, "Architecture")
            name == FieldOf(stanza, "Package")
<1>1. FoundIn(stanza) = IF value = None THEN <<>> ELSE ForBoth(name, arch, ReasonOf(value))
  BY DEF FoundIn
<1>2. Decides(stanza, pkg) <=> name = pkg.name /\ value # None /\ pkg.arch \in {arch, ALL}
  BY DEF Decides
<1>3. key \in {<<name, arch>>, <<name, ALL>>} <=> name = pkg.name /\ pkg.arch \in {arch, ALL}
  OBVIOUS
<1>4. CASE Decides(stanza, pkg)
  <2>1. ReasonFor(r \o FoundIn(stanza), key) = ReasonOf(value)
    <3>. HIDE DEF stanza, key, value, arch, name
    <3>1. FoundIn(stanza) = ForBoth(name, arch, ReasonOf(value)) /\ key \in {<<name, arch>>, <<name, ALL>>}
      BY <1>1, <1>2, <1>3, <1>4
    <3>2. ReasonFor(r \o ForBoth(name, arch, ReasonOf(value)), key) =
            IF key \in {<<name, arch>>, <<name, ALL>>} THEN ReasonOf(value) ELSE ReasonFor(r, key)
      BY ReasonAfter
    <3>. QED  BY <3>1, <3>2
  <2>2. ReasonOf(value) = "Dependency" <=> value = "1"
    BY DEF ReasonOf
  <2>3. InstalledByApt(extended, k + 1, pkg) <=> value = "1"
    <3>1. k + 1 \in 1 .. k + 1 /\ \A m \in 1 .. k + 1 : ~(m > k + 1)
      OBVIOUS
    <3>2. ASSUME NEW i \in 1 .. k + 1, \A m \in 1 .. k + 1 : m > i => ~Decides(extended[m], pkg)
          PROVE  i = k + 1
      <4>1. ~(k + 1 > i)
        BY <1>4, <3>1, <3>2
      <4>. QED  BY <4>1
    <3>. QED  BY <1>4, <3>1, <3>2 DEF InstalledByApt
  <2>. QED  BY <2>1, <2>2, <2>3
<1>5. CASE ~Decides(stanza, pkg)
  <2>1. ReasonFor(r \o FoundIn(stanza), key) = ReasonFor(r, key)
    <3>. HIDE DEF stanza, key, value, arch, name
    <3>1. CASE value = None
      BY <1>1, <3>1, ConcatEmptySeq
    <3>2. CASE value # None
      <4>1. FoundIn(stanza) = ForBoth(name, arch, ReasonOf(value)) /\ key \notin {<<name, arch>>, <<name, ALL>>}
        BY <1>1, <1>2, <1>3, <1>5, <3>2
      <4>2. ReasonFor(r \o ForBoth(name, arch, ReasonOf(value)), key) =
              IF key \in {<<name, arch>>, <<name, ALL>>} THEN ReasonOf(value) ELSE ReasonFor(r, key)
        BY ReasonAfter
      <4>. QED  BY <4>1, <4>2
    <3>. QED  BY <3>1, <3>2
  <2>2. InstalledByApt(extended, k + 1, pkg) <=> InstalledByApt(extended, k, pkg)
    <3>1. \A i \in 1 .. k + 1 : i \in 1 .. k \/ i = k + 1
      OBVIOUS
    <3>2. \A i \in 1 .. k : i \in 1 .. k + 1
      OBVIOUS
    <3>. QED  BY <1>5, <3>1, <3>2 DEF InstalledByApt
  <2>. QED  BY <2>1, <2>2
<1>. QED  BY <1>4, <1>5

AreExtended(extended) ==
    /\ extended \in Seq(ToSet(extended))
    /\ \A i \in DOMAIN extended : IsExtended(extended[i])

\* The parser, after each stanza of apt's file.
LEMMA ReasonsRead ==
    ASSUME None # "Dependency", NEW extended, AreExtended(extended), NEW pkg
    PROVE  ReasonFor(ParseExtendedStatus(FlattenSeq(extended)), <<pkg.name, pkg.arch>>) = "Dependency"
             <=> InstalledByApt(extended, Len(extended), pkg)
<1>. DEFINE L == LinesIn(extended)
            X == ExtendedIn(L)
            last == Len(extended)
            St(m) == ExtendedStates(ExtendedStart, Flat(extended, m))[Len(Flat(extended, m))]
            Right(m) == ReasonFor(St(m).result, <<pkg.name, pkg.arch>>) = "Dependency"
                          <=> InstalledByApt(extended, m, pkg)
            T == {m \in 0 .. last : St(m) \in X /\ Right(m)}
<1>1. /\ last \in Nat /\ DOMAIN extended = 1 .. last
      /\ \A i \in 1 .. last : extended[i] \in Seq(L) /\ IsExtended(extended[i])
      /\ \A m \in 0 .. last : FlatAt(L, extended, m)
      /\ FlattenSeq(extended) = Flat(extended, last)
  <2>1. AreStanzas(extended)
    BY DEF AreExtended, AreStanzas, IsExtended
  <2>. QED  BY <2>1, StanzasAre DEF AreExtended
<1>2. ExtendedStart \in X /\ \A x \in X : \A line \in L : ExtendedLine(x, line) \in X
  <2>1. ExtendedStart \in X
    BY DEF ExtendedStart, ExtendedIn, ValuesIn
  <2>. QED  BY <2>1, ExtendedLineIs
<1>3. 0 \in T
  <2>1. Flat(extended, 0) = <<>>
    <3>. HIDE DEF L, last
    <3>1. FlatAt(L, extended, 0)
      BY <1>1
    <3>. QED  BY <3>1 DEF FlatAt
  <2>2. St(0) = ExtendedStart
    <3>. DEFINE none == <<>>
    <3>1. none \in Seq(L) /\ Len(none) = 0
      OBVIOUS
    <3>. HIDE DEF none, X, L
    <3>2. ExtendedStates(ExtendedStart, none) \in Steps(X, ExtendedStart, Len(none), OnExtended(X, none))
      BY <1>2, <3>1, ExtendedSteps
    <3>3. ExtendedStates(ExtendedStart, none)[Len(none)] = ExtendedStart
      BY <3>1, <3>2 DEF Steps
    <3>. QED  BY <2>1, <3>3 DEF none
  <2>3. ReasonFor(ExtendedStart.result, <<pkg.name, pkg.arch>>) = None
    BY DEF ReasonFor, ExtendedStart
  <2>4. ~InstalledByApt(extended, 0, pkg)
    BY DEF InstalledByApt
  <2>. HIDE DEF St, X
  <2>. QED  BY <1>1, <1>2, <2>2, <2>3, <2>4
<1>4. ASSUME NEW m \in 0 .. last - 1, m \in T PROVE m + 1 \in T
  <2>. DEFINE a == Flat(extended, m)
              b == extended[m + 1]
  <2>1. m + 1 \in 1 .. last /\ m + 1 \in 0 .. last /\ m \in 0 .. last /\ m \in Nat
    BY <1>1
  <2>2. a \in Seq(L) /\ b \in Seq(L) /\ IsExtended(b) /\ Flat(extended, m + 1) = a \o b
    <3>. HIDE DEF L, last
    <3>1. FlatAt(L, extended, m) /\ FlatAt(L, extended, m + 1) /\ m + 1 > 0 /\ (m + 1) - 1 = m
      BY <1>1, <2>1
    <3>. QED  BY <1>1, <2>1, <3>1 DEF FlatAt
  <2>3. St(m) \in X /\ Right(m)
    BY <1>4
  <2>4. St(m + 1) = ExtendedStates(St(m), b)[Len(b)]
    <3>. HIDE DEF X, L, a, b
    <3>1. ExtendedContinues(ExtendedStart, a, b)
      BY <1>2, <2>2, ExtendedGoesOn
    <3>. QED  BY <2>2, <3>1 DEF ExtendedContinues, a
  <2>. HIDE DEF St
  <2>5. St(m + 1) \in X /\ St(m + 1).result = St(m).result \o FoundIn(b)
    <3>. HIDE DEF b, L
    <3>. QED  BY <2>2, <2>3, <2>4, ExtendedRead
  <2>6. St(m).result \in Seq(FindingsIn(L))
    BY <2>3 DEF ExtendedIn
  <2>7. Right(m + 1)
    <3>. HIDE DEF L
    <3>1. ReasonFor(St(m).result \o FoundIn(extended[m + 1]), <<pkg.name, pkg.arch>>) = "Dependency"
            <=> InstalledByApt(extended, m + 1, pkg)
      BY <2>1, <2>3, <2>6, ReasonNext
    <3>. QED  BY <2>5, <3>1
  <2>. QED  BY <2>1, <2>5, <2>7
<1>5. last \in T
  <2>. HIDE DEF T
  <2>1. \A m \in 0 .. last : m \in T
    BY <1>1, <1>3, <1>4, UpTo
  <2>. QED  BY <1>1, <2>1
<1>. QED  BY <1>1, <1>5 DEF ParseExtendedStatus

\* What apt's file says, for every one that is well-formed.
LEMMA ReasonsWritten ==
    ASSUME None # "Dependency", NEW stanzas, AreStanzas(stanzas), NEW extended, AreExtended(extended)
    PROVE  ReasonsAsWritten(stanzas, extended)
<1>. DEFINE parsed == ParseStatus(FlattenSeq(stanzas)).packages
            reasons == ParseExtendedStatus(FlattenSeq(extended))
            pkgs == ReadPackages(FlattenSeq(stanzas), FlattenSeq(extended))
<1>1. parsed \in Seq(PackagesIn(LinesIn(stanzas)))
  BY StatusTyped
<1>2. pkgs = [i \in DOMAIN parsed |-> WithReason(parsed[i], reasons)]
  BY DEF ReadPackages
<1>3. \A i \in DOMAIN parsed : parsed[i] \in PackagesIn(LinesIn(stanzas))
  BY <1>1
<1>4. Len(extended) \in Nat /\ DOMAIN extended = 1 .. Len(extended)
  BY LenProperties DEF AreExtended
<1>. HIDE DEF parsed, reasons, pkgs
<1>5. ASSUME NEW i \in DOMAIN pkgs
      PROVE  pkgs[i].reason = "Dependency" <=> InstalledByApt(extended, Len(extended), pkgs[i])
  <2>. DEFINE p == parsed[i]
              reason == ReasonFor(reasons, <<p.name, p.arch>>)
  <2>1. p \in PackagesIn(LinesIn(stanzas)) /\ pkgs[i] = WithReason(p, reasons)
    BY <1>2, <1>3
  <2>2. p.reason = "Explicit" /\ pkgs[i] = IF reason = None THEN p ELSE [p EXCEPT !.reason = reason]
    BY <2>1 DEF PackagesIn, PackageRecords, WithReason
  <2>3. /\ pkgs[i].name = p.name /\ pkgs[i].arch = p.arch
        /\ pkgs[i].reason = IF reason = None THEN "Explicit" ELSE reason
    <3>. HIDE DEF p, reason
    <3>. QED  BY <2>1, <2>2 DEF PackagesIn, PackageRecords
  <2>4. reason = "Dependency" <=> InstalledByApt(extended, Len(extended), p)
    BY ReasonsRead DEF reasons
  <2>5. InstalledByApt(extended, Len(extended), p) <=> InstalledByApt(extended, Len(extended), pkgs[i])
    BY <2>3 DEF InstalledByApt, Decides
  <2>. HIDE DEF p, reason
  <2>. QED  BY <2>3, <2>4, <2>5
<1>6. \A i \in DOMAIN pkgs :
        pkgs[i].reason = "Dependency" <=>
            \E k \in DOMAIN extended :
               /\ Decides(extended[k], pkgs[i])
               /\ FieldOf(extended[k], "Auto-Installed") = "1"
               /\ \A m \in DOMAIN extended : m > k => ~Decides(extended[m], pkgs[i])
  BY <1>4, <1>5 DEF InstalledByApt
<1>. QED  BY <1>6 DEF ReasonsAsWritten, pkgs

-----------------------------------------------------------------------------
(* What the databases declare *)

\* The entries of a sequence are among those it may have.
LEMMA OfSequence ==
    ASSUME NEW S, NEW s \in Seq(S)
    PROVE  ToSet(s) \subseteq S
  BY DEF ToSet

\* A sequence is one of its own items.
LEMMA OfItsItems ==
    ASSUME NEW S, NEW s \in Seq(S)
    PROVE  s \in Seq(ToSet(s))
<1>1. Len(s) \in Nat /\ s \in [1 .. Len(s) -> S] /\ DOMAIN s = 1 .. Len(s)
  BY LenProperties
<1>2. s \in [1 .. Len(s) -> ToSet(s)]
  BY <1>1 DEF ToSet
<1>. QED  BY <1>1, <1>2, SeqDef

\* An entry as it is in a file of the database.
IsEntry(e) == e.config \in BOOLEAN /\ e = DbEntry(e.package, e.path, e.props, e.config)

\* A diversion leaves all but the path alone.
LEMMA DivertedEntry ==
    ASSUME NEW e, IsEntry(e), NEW diversions, NEW own
    PROVE  /\ IsEntry(AfterDiversion(e, diversions, own))
           /\ AfterDiversion(e, diversions, own).props = e.props
<1>1. \A q : [e EXCEPT !.path = q] = DbEntry(e.package, q, e.props, e.config)
  BY DEF DbEntry, IsEntry
<1>2. ASSUME NEW q PROVE IsEntry(DbEntry(e.package, q, e.props, e.config))
                         /\ DbEntry(e.package, q, e.props, e.config).props = e.props
  BY DEF DbEntry, IsEntry
<1>3. AfterDiversion(e, diversions, own) \in
        {e, DbEntry(e.package, diversions[e.path].to, e.props, e.config)}
  BY <1>1 DEF AfterDiversion
<1>. QED  BY <1>2, <1>3

\* The files of the database hold lists of entries, those of configuration files always
\* with a checksum.
LEMMA DeclaredAre ==
    ASSUME NEW d \in DOMAIN Databases
    PROVE  /\ \A i \in DOMAIN ListsOf[d] : ListsOf[d][i] \in Seq(ToSet(ListsOf[d][i]))
           /\ StatusOf[d].conffiles \in Seq(ToSet(StatusOf[d].conffiles))
           /\ ClaimsOf[d] \cup ConfClaimsOf[d] \subseteq EntriesOf(d)
           /\ \A e \in ClaimsOf[d] : e.props = <<"Unknown">> \/ e.props[1] = "RegularFileBasic"
           /\ \A e \in ConfClaimsOf[d] : e.props[1] = "RegularFileBasic"
<1>. DEFINE L == LinesIn(Databases[d].stanzas)
            known == ClaimsOf[d] \cup ConfClaimsOf[d]
            Kind(e) == e.props = <<"Unknown">> \/ e.props[1] = "RegularFileBasic"
<1>1. StatusOf[d].conffiles \in Seq(EntriesIn(L))
  <2>1. AreStanzas(Databases[d].stanzas)
    BY WrittenAssumption DEF AreStanzas
  <2>. QED  BY <2>1, StatusTyped DEF StatusOf
<1>2. ASSUME NEW e \in ToSet(StatusOf[d].conffiles)
      PROVE  IsEntry(e) /\ e.props[1] = "RegularFileBasic"
  <2>1. e \in EntriesIn(L)
    BY <1>1, OfSequence
  <2>2. e = DbEntry(e.package, e.path, e.props, e.config) /\ e.config \in BOOLEAN
    BY <2>1 DEF EntriesIn, DbEntry
  <2>3. PICK line \in L : e.props = <<"RegularFileBasic", line.sum>>
    BY <2>1 DEF EntriesIn
  <2>. QED  BY <2>2, <2>3 DEF IsEntry
<1>3. ASSUME NEW i \in DOMAIN ListsOf[d]
      PROVE  /\ ListsOf[d][i] \in Seq(ToSet(ListsOf[d][i]))
             /\ \A e \in ToSet(ListsOf[d][i]) : IsEntry(e) /\ Kind(e)
  <2>. DEFINE file == Databases[d].info[i]
              entries == InfoEntries(file)
              n == Len(file.lines)
  <2>1. ListsOf[d][i] = entries /\ i \in DOMAIN Databases[d].info
    BY DEF ListsOf
  <2>2. CASE file.extension \in {"list", "md5sums"}
    <3>1. n \in Nat /\ DOMAIN file.lines = 1 .. n
      BY <2>1, <2>2, WrittenAssumption, LenProperties
    <3>2. PICK Path1, Props1 :
            /\ entries = [k \in 1 .. n |-> DbEntry(file.package, Path1[k], Props1[k], FALSE)]
            /\ \A k \in 1 .. n : Props1[k] = <<"Unknown">> \/ Props1[k][1] = "RegularFileBasic"
      <4>1. CASE file.extension = "list"
        <5>. DEFINE paths == [k \in 1 .. n |-> PathOf[file.lines[k]]]
                    props == [k \in 1 .. n |-> <<"Unknown">>]
        <5>1. entries = [k \in 1 .. n |-> DbEntry(file.package, paths[k], props[k], FALSE)]
          BY <3>1, <4>1 DEF InfoEntries
        <5>2. \A k \in 1 .. n : props[k] = <<"Unknown">>
          OBVIOUS
        <5>. HIDE DEF paths, props, entries, file, n
        <5>. QED  BY <5>1, <5>2
      <4>2. CASE file.extension = "md5sums"
        <5>. DEFINE paths == [k \in 1 .. n |-> PathOf[file.lines[k].name]]
                    props == [k \in 1 .. n |-> <<"RegularFileBasic", file.lines[k].sum>>]
        <5>1. entries = [k \in 1 .. n |-> DbEntry(file.package, paths[k], props[k], FALSE)]
          BY <3>1, <4>2 DEF InfoEntries
        <5>2. \A k \in 1 .. n : props[k][1] = "RegularFileBasic"
          OBVIOUS
        <5>. HIDE DEF paths, props, entries, file, n
        <5>. QED  BY <5>1, <5>2
      <4>. QED  BY <2>2, <4>1, <4>2
    <3>. HIDE DEF entries, file, n
    <3>3. entries \in [1 .. n -> ToSet(entries)] /\ DOMAIN entries = 1 .. n
      BY <3>2 DEF ToSet
    <3>4. entries \in Seq(ToSet(entries))
      BY <3>1, <3>3, SeqDef DEF n
    <3>5. ASSUME NEW e \in ToSet(entries) PROVE IsEntry(e) /\ Kind(e)
      <4>1. PICK k \in 1 .. n : e = DbEntry(file.package, Path1[k], Props1[k], FALSE)
        BY <3>2, <3>3 DEF ToSet
      <4>2. e.props = Props1[k]
        BY <4>1 DEF DbEntry
      <4>3. IsEntry(e)
        BY <4>1 DEF DbEntry, IsEntry
      <4>. QED  BY <3>2, <4>2, <4>3
    <3>. QED  BY <2>1, <3>4, <3>5
  <2>3. CASE file.extension \notin {"list", "md5sums"}
    <3>1. entries = <<>>
      BY <2>3 DEF InfoEntries
    <3>2. entries \in Seq(ToSet(entries)) /\ ToSet(entries) = {}
      BY <3>1 DEF ToSet
    <3>. QED  BY <2>1, <3>2
  <2>. QED  BY <2>2, <2>3
<1>. HIDE DEF Kind
<1>4. ASSUME NEW e \in ClaimsOf[d]
      PROVE  Kind(e) /\ IsEntry(e)
  <2>1. PICK i \in DOMAIN ListsOf[d] : \E f \in ToSet(ListsOf[d][i]) :
          e = AfterDiversion(f, DiversionsOf[d].map, {f.package})
    BY DEF ClaimsOf, DivertedSet
  <2>2. PICK f \in ToSet(ListsOf[d][i]) : e = AfterDiversion(f, DiversionsOf[d].map, {f.package})
    BY <2>1
  <2>3. IsEntry(f) /\ Kind(f)
    BY <1>3
  <2>4. IsEntry(e) /\ e.props = f.props
    BY <2>2, <2>3, DivertedEntry
  <2>. QED  BY <2>3, <2>4 DEF Kind
<1>5. ASSUME NEW e \in ConfClaimsOf[d]
      PROVE  e.props[1] = "RegularFileBasic" /\ IsEntry(e)
  <2>1. PICK f \in ToSet(StatusOf[d].conffiles) :
          e = AfterDiversion(f, DiversionsOf[d].map, {f.package})
    BY DEF ConfClaimsOf, DivertedSet
  <2>2. IsEntry(f) /\ f.props[1] = "RegularFileBasic"
    BY <1>2
  <2>3. IsEntry(e) /\ e.props = f.props
    BY <2>1, <2>2, DivertedEntry
  <2>. QED  BY <2>2, <2>3
<1>6. ASSUME NEW e \in known PROVE e \in EntriesOf(d)
  <2>1. e = [package |-> e.package, path |-> e.path, props |-> e.props, config |-> e.config]
        /\ e.config \in BOOLEAN /\ e.path \in Path
    BY <1>4, <1>5, DatabaseAssumption DEF IsEntry, DbEntry
  <2>. HIDE DEF known
  <2>2. e.package \in {x.package : x \in known} /\ e.props \in {x.props : x \in known}
    OBVIOUS
  <2>3. e \in [ package: {x.package : x \in known}, path: Path, props: {x.props : x \in known},
                config: BOOLEAN ]
    BY <2>1, <2>2
  <2>. QED  BY <2>3 DEF EntriesOf, known
<1>7. StatusOf[d].conffiles \in Seq(ToSet(StatusOf[d].conffiles))
  BY <1>1, OfItsItems
<1>. QED  BY <1>3, <1>4, <1>5, <1>6, <1>7 DEF Kind

\* packages_to_package_map: an id leads to a package that has it.
LEMMA InstalledAre ==
    ASSUME NEW d \in DOMAIN Databases, NEW r \in DOMAIN InstalledOf[d]
    PROVE  LET pkg == InstalledOf[d][r]
           IN  r \in ToSet(pkg.ids) /\ pkg.ids = Ids(pkg.name, pkg.arch)
<1>. DEFINE stanzas == Databases[d].stanzas
            parsed == ParseStatus(FlattenSeq(stanzas)).packages
            reasons == ParseExtendedStatus(FlattenSeq(Databases[d].extended))
            pkgs == ReadPackages(FlattenSeq(stanzas), FlattenSeq(Databases[d].extended))
            kept == {i \in DOMAIN pkgs : pkgs[i].installed}
            with == {i \in kept : r \in ToSet(pkgs[i].ids)}
<1>1. parsed \in Seq(PackagesIn(LinesIn(stanzas)))
  <2>1. AreStanzas(stanzas)
    BY WrittenAssumption DEF AreStanzas
  <2>. QED  BY <2>1, StatusTyped
<1>2. pkgs = [i \in DOMAIN parsed |-> WithReason(parsed[i], reasons)]
  BY DEF ReadPackages
<1>3. InstalledOf[d] = PackageMap(pkgs, kept)
  BY DEF InstalledOf, InstalledMap
<1>. HIDE DEF parsed, reasons, pkgs, stanzas
<1>4. ASSUME NEW i \in DOMAIN pkgs PROVE pkgs[i].ids = Ids(pkgs[i].name, pkgs[i].arch)
  <2>1. i \in DOMAIN parsed /\ parsed[i] \in PackagesIn(LinesIn(stanzas))
        /\ pkgs[i] = WithReason(parsed[i], reasons)
    BY <1>1, <1>2
  <2>2. \A reason : LET p == [parsed[i] EXCEPT !.reason = reason]
                    IN p.ids = parsed[i].ids /\ p.name = parsed[i].name /\ p.arch = parsed[i].arch
    BY <2>1 DEF PackagesIn, PackageRecords
  <2>. QED  BY <2>1, <2>2 DEF WithReason, PackagesIn
<1>5. /\ with # {} /\ InstalledOf[d][r] = pkgs[Max(with)]
  <2>. HIDE DEF kept
  <2>1. PackageMap(pkgs, kept) =
          [id \in UNION {ToSet(pkgs[i].ids) : i \in kept} |->
              pkgs[Max({i \in kept : id \in ToSet(pkgs[i].ids)})]]
    BY DEF PackageMap
  <2>2. r \in UNION {ToSet(pkgs[i].ids) : i \in kept}
    BY <1>3, <2>1
  <2>. QED  BY <1>3, <2>1, <2>2
<1>6. Max(with) \in with
  <2>1. Len(parsed) \in Nat /\ DOMAIN pkgs = 1 .. Len(parsed)
    BY <1>1, <1>2, LenProperties
  <2>2. with \in SUBSET (0 .. Len(parsed))
    BY <2>1
  <2>. HIDE DEF with
  <2>. QED  BY <1>5, <2>1, <2>2, Greatest
<1>. QED  BY <1>4, <1>5, <1>6

-----------------------------------------------------------------------------
(* What is merged *)

\* The entries as they are in the files.
Raw == UNION {ToSet(ListsOf[db][i]) : i \in DOMAIN ListsOf[db]}

\* Those that are left, with diversions.
Left == {Divert(e) : e \in UNION {ToSet(lists[i]) : i \in DOMAIN lists}}

ConfLeft == {Divert(e) : e \in ToSet(conffiles)}

Checked(e) == e.props[1] = "RegularFileBasic"

Owners(p) == {e.package : e \in IF Claims(p) # {} THEN Claims(p) ELSE ConfClaims(p)}

\* What became of the claims to p whose entry is m.
Merged(p, m) ==
    /\ m \in EntriesOf(db)
    /\ m.package \in Owners(p)
    /\ \/ m.props \in Checksums(ConfClaims(p))
       \/ /\ ConfClaims(p) \subseteq ConfLeft
          /\ \/ m.props \in Checksums(Claims(p))
             \/ m.props = <<"Unknown">> /\ \A e \in Claims(p) : Checked(e) => e \in Left

PathInv(p) ==
    /\ merged[p] = None => Claims(p) \subseteq Left /\ ConfClaims(p) \subseteq ConfLeft
    /\ merged[p] # None => Merged(p, merged[p])

ListsType ==
    /\ lists \in [DOMAIN lists -> Seq(Raw)]
    /\ conffiles \in Seq(ToSet(Status.conffiles))
    /\ merged \in [Path -> EntriesOf(db) \cup {None}]

MergeInv ==
    files_stage = "lists" =>
        /\ ListsType
        /\ db \in DOMAIN Databases
        /\ None \notin filter
        /\ ~MergedLists => conffiles = Status.conffiles
        /\ \A p \in Path : PathInv(p)

FilesInv ==
    /\ backend = "apt" => db \in DOMAIN Databases
    /\ backend # "apt" \/ stage = "idle" => files_stage = "idle"
    /\ MergeInv
    /\ MergeAgrees

-----------------------------------------------------------------------------
(* Entries *)

\* The first entry of a file and the others are its entries.
LEMMA HeadAndTail ==
    ASSUME NEW S, NEW s \in Seq(S), s # <<>>
    PROVE  /\ Head(s) \in ToSet(s) /\ Tail(s) \in Seq(S)
           /\ ToSet(s) = {Head(s)} \cup ToSet(Tail(s))
<1>1. /\ Tail(s) \in Seq(S) /\ Len(s) \in Nat \ {0} /\ Head(s) = s[1]
      /\ DOMAIN s = 1..Len(s) /\ DOMAIN Tail(s) = 1..(Len(s) - 1)
      /\ \A i \in 1..(Len(s) - 1) : Tail(s)[i] = s[i + 1]
  BY HeadTailProperties
<1>2. 1 \in DOMAIN s
  BY <1>1
<1>3. \A i \in DOMAIN Tail(s) : i + 1 \in DOMAIN s /\ Tail(s)[i] = s[i + 1]
  BY <1>1
<1>4. \A i \in DOMAIN s : i # 1 => i - 1 \in DOMAIN Tail(s) /\ s[i] = Tail(s)[i - 1]
  BY <1>1
<1>5. ToSet(s) \subseteq {Head(s)} \cup ToSet(Tail(s))
  <2>1. SUFFICES ASSUME NEW i \in DOMAIN s PROVE s[i] \in {Head(s)} \cup ToSet(Tail(s))
    BY DEF ToSet
  <2>2. CASE i = 1
    BY <1>1, <2>2
  <2>3. CASE i # 1
    BY <1>4, <2>3 DEF ToSet
  <2>. QED  BY <2>2, <2>3
<1>6. {Head(s)} \cup ToSet(Tail(s)) \subseteq ToSet(s)
  BY <1>1, <1>2, <1>3 DEF ToSet
<1>. QED  BY <1>1, <1>5, <1>6

\* With diversions, the entries are the claims, and these are entries at paths.
LEMMA ClaimsAre ==
    ASSUME db \in DOMAIN Databases
    PROVE  /\ {Divert(e) : e \in Raw} = ClaimsOf[db]
           /\ {Divert(e) : e \in ToSet(Status.conffiles)} = ConfClaimsOf[db]
           /\ ClaimsOf[db] \cup ConfClaimsOf[db] \subseteq EntriesOf(db)
           /\ \A e \in EntriesOf(db) : e # None /\ e.path \in Path
           /\ \A e \in ClaimsOf[db] : e.props = <<"Unknown">> \/ Checked(e)
           /\ \A e \in ConfClaimsOf[db] : Checked(e)
<1>1. {Divert(e) : e \in Raw} = ClaimsOf[db]
  BY DEF ClaimsOf, DivertedSet, Divert, Raw, Diversions
<1>2. {Divert(e) : e \in ToSet(Status.conffiles)} = ConfClaimsOf[db]
  BY DEF ConfClaimsOf, DivertedSet, Divert, Status, Diversions
<1>3. \A e \in EntriesOf(db) : e # None /\ e.path \in Path
  <2>1. None \notin EntriesOf(db)
    BY DatabaseAssumption
  <2>2. \A e \in EntriesOf(db) : e.path \in Path
    BY DEF EntriesOf
  <2>. QED  BY <2>1, <2>2
<1>. QED  BY <1>1, <1>2, <1>3, DeclaredAre DEF Checked

-----------------------------------------------------------------------------
(* Merging *)

\* Merging changes the entry at one path only, and what it becomes.
LEMMA MergeAt ==
    ASSUME db \in DOMAIN Databases, NEW acc \in [Path -> EntriesOf(db) \cup {None}],
           NEW e \in ClaimsOf[db] \cup ConfClaimsOf[db]
    PROVE  /\ e.path \in Path
           /\ Merge(acc, e) \in [Path -> EntriesOf(db) \cup {None}]
           /\ \A q \in Path \ {e.path} : Merge(acc, e)[q] = acc[q]
           /\ acc[e.path] = None => Merge(acc, e)[e.path] = e
           /\ acc[e.path] # None /\ Checked(e) =>
                 /\ Merge(acc, e)[e.path] \in EntriesOf(db)
                 /\ Merge(acc, e)[e.path].package = acc[e.path].package
                 /\ Merge(acc, e)[e.path].props = e.props
           /\ acc[e.path] # None /\ ~Checked(e) => Merge(acc, e)[e.path] = acc[e.path]
<1>1. e \in EntriesOf(db) /\ e.path \in Path
  BY ClaimsAre
<1>2. CASE acc[e.path] = None
  <2>1. Merge(acc, e) = [acc EXCEPT ![e.path] = e]
    BY <1>2 DEF Merge
  <2>. QED  BY <1>1, <1>2, <2>1
<1>3. CASE acc[e.path] # None /\ Checked(e)
  <2>. DEFINE m == [acc[e.path] EXCEPT !.props = e.props]
  <2>1. Merge(acc, e) = [acc EXCEPT ![e.path] = m]
    BY <1>1, <1>3 DEF Merge, Checked
  <2>2. acc[e.path] \in EntriesOf(db)
    BY <1>1, <1>3
  <2>3. m \in EntriesOf(db) /\ m.package = acc[e.path].package /\ m.props = e.props
    BY <1>1, <2>2 DEF EntriesOf
  <2>. HIDE DEF m
  <2>. QED  BY <1>1, <1>3, <2>1, <2>3
<1>4. CASE acc[e.path] # None /\ ~Checked(e)
  <2>1. Merge(acc, e) = acc
    BY <1>4 DEF Merge, Checked
  <2>. QED  BY <1>1, <1>4, <2>1
<1>. QED  BY <1>2, <1>3, <1>4

\* What a worker takes, is left no more, and everything else is.
LEMMA LeftAfter ==
    ASSUME lists \in [DOMAIN lists -> Seq(Raw)], NEW i \in DOMAIN lists, lists[i] # <<>>,
           lists' = [lists EXCEPT ![i] = Tail(@)], db' = db
    PROVE  /\ Head(lists[i]) \in Raw
           /\ lists' \in [DOMAIN lists' -> Seq(Raw)]
           /\ Left \subseteq {Divert(Head(lists[i]))} \cup Left'
           /\ Left' \subseteq Left
<1>1. /\ Head(lists[i]) \in ToSet(lists[i]) /\ Tail(lists[i]) \in Seq(Raw)
      /\ ToSet(lists[i]) = {Head(lists[i])} \cup ToSet(Tail(lists[i]))
  BY HeadAndTail
<1>2. /\ DOMAIN lists' = DOMAIN lists
      /\ lists'[i] = Tail(lists[i])
      /\ \A j \in DOMAIN lists \ {i} : lists'[j] = lists[j]
  OBVIOUS
<1>3. Head(lists[i]) \in Raw
  BY <1>1, OfSequence
<1>4. lists' \in [DOMAIN lists' -> Seq(Raw)]
  BY <1>1, <1>2
<1>5. \A e : Divert(e)' = Divert(e)
  BY DEF Divert, Diversions
<1>. DEFINE before == UNION {ToSet(lists[j]) : j \in DOMAIN lists}
            after  == UNION {ToSet(lists'[j]) : j \in DOMAIN lists'}
<1>6. before = {Head(lists[i])} \cup after
  <2>1. ASSUME NEW e \in before PROVE e \in {Head(lists[i])} \cup after
    <3>1. PICK j \in DOMAIN lists : e \in ToSet(lists[j])
      OBVIOUS
    <3>2. CASE j = i
      BY <1>1, <1>2, <3>1, <3>2
    <3>3. CASE j # i
      BY <1>2, <3>1, <3>3
    <3>. QED  BY <3>2, <3>3
  <2>2. {Head(lists[i])} \cup after \subseteq before
    BY <1>1, <1>2
  <2>. QED  BY <2>1, <2>2
<1>7. Left = {Divert(e) : e \in before} /\ Left' = {Divert(e) : e \in after}
  BY <1>5 DEF Left
<1>. HIDE DEF before, after
<1>. QED  BY <1>3, <1>4, <1>6, <1>7

\* A worker merges an entry.
LEMMA MergeEntryKeeps ==
    ASSUME MergeInv, MergeEntry, db' = db
    PROVE  MergeInv'
<1>1. /\ ListsType /\ db \in DOMAIN Databases /\ None \notin filter
      /\ ~MergedLists => conffiles = Status.conffiles
      /\ \A p \in Path : PathInv(p)
      /\ UNCHANGED <<files_stage, filter, conffiles>>
  BY DEF MergeInv, MergeEntry
<1>2. PICK i \in DOMAIN lists :
         /\ lists[i] # <<>>
         /\ merged' = Merge(merged, Divert(Head(lists[i])))
         /\ lists' = [lists EXCEPT ![i] = Tail(@)]
  BY DEF MergeEntry
<1>. DEFINE e == Divert(Head(lists[i]))
<1>3. /\ Head(lists[i]) \in Raw
      /\ lists' \in [DOMAIN lists' -> Seq(Raw)]
      /\ Left \subseteq {e} \cup Left'
      /\ Left' \subseteq Left
  BY <1>1, <1>2, LeftAfter DEF ListsType
<1>4. e \in ClaimsOf[db]
  BY <1>1, <1>3, ClaimsAre
<1>5. /\ Status' = Status /\ Raw' = Raw /\ EntriesOf(db)' = EntriesOf(db)
      /\ ConfLeft' = ConfLeft
      /\ \A p : /\ Claims(p)' = Claims(p) /\ ConfClaims(p)' = ConfClaims(p)
                /\ Owners(p)' = Owners(p)
  BY <1>1 DEF Status, Raw, ConfLeft, Divert, Diversions, Claims, ConfClaims, Owners, EntriesOf
<1>6. ConfClaimsOf[db] = ConfLeft
  <2>1. ~MergedLists
    BY <1>2 DEF MergedLists
  <2>. QED  BY <1>1, <2>1, ClaimsAre DEF ConfLeft
<1>. HIDE DEF e
<1>7. merged \in [Path -> EntriesOf(db) \cup {None}] /\ merged' = Merge(merged, e)
  BY <1>1, <1>2 DEF ListsType, e
<1>8. /\ e.path \in Path
      /\ merged' \in [Path -> EntriesOf(db) \cup {None}]
      /\ \A q \in Path \ {e.path} : merged'[q] = merged[q]
      /\ merged[e.path] = None => merged'[e.path] = e
      /\ merged[e.path] # None /\ Checked(e) =>
            /\ merged'[e.path] \in EntriesOf(db)
            /\ merged'[e.path].package = merged[e.path].package
            /\ merged'[e.path].props = e.props
      /\ merged[e.path] # None /\ ~Checked(e) => merged'[e.path] = merged[e.path]
  BY <1>1, <1>4, <1>7, MergeAt
<1>9. ASSUME NEW p \in Path PROVE PathInv(p)'
  <2>1. /\ merged[p] = None => Claims(p) \subseteq Left /\ ConfClaims(p) \subseteq ConfLeft
        /\ merged[p] # None => Merged(p, merged[p])
    BY <1>1 DEF PathInv
  <2>2. ConfClaims(p) \subseteq ConfLeft
    BY <1>6 DEF ConfClaims
  <2>3. CASE p # e.path
    <3>1. merged'[p] = merged[p]
      BY <1>8, <2>3
    <3>2. e \notin Claims(p)
      BY <2>3 DEF Claims
    <3>3. \A x \in Claims(p) : x \in Left => x \in Left'
      BY <1>3, <3>2
    <3>. QED  BY <1>5, <2>1, <3>1, <3>3 DEF PathInv, Merged
  <2>4. CASE p = e.path
    <3>1. e \in Claims(p) /\ Claims(p) # {} /\ e \in EntriesOf(db) /\ e # None
      BY <1>1, <1>4, <2>4, ClaimsAre DEF Claims
    <3>2. e.package \in Owners(p)
      BY <3>1 DEF Owners
    <3>3. Checked(e) => e.props \in Checksums(Claims(p))
      BY <3>1 DEF Checksums, Checked
    <3>4. ~Checked(e) => e.props = <<"Unknown">>
      BY <1>1, <1>4, ClaimsAre
    <3>5. ~Checked(e) => \A x \in Claims(p) : Checked(x) /\ x \in Left => x \in Left'
      BY <1>3
    <3>6. CASE merged[p] = None
      <4>1. merged'[p] = e
        BY <1>8, <2>4, <3>6
      <4>2. Claims(p) \subseteq Left
        BY <2>1, <3>6
      <4>. QED
        BY <1>5, <2>2, <3>1, <3>2, <3>3, <3>4, <3>5, <4>1, <4>2 DEF PathInv, Merged
    <3>7. CASE merged[p] # None /\ Checked(e)
      <4>1. /\ merged'[p] \in EntriesOf(db) /\ merged'[p].package = merged[p].package
            /\ merged'[p].props = e.props
        BY <1>8, <2>4, <3>7
      <4>2. merged'[p] # None
        BY <1>1, <4>1, ClaimsAre
      <4>. QED  BY <1>5, <2>1, <2>2, <3>3, <3>7, <4>1, <4>2 DEF PathInv, Merged
    <3>8. CASE merged[p] # None /\ ~Checked(e)
      <4>1. merged'[p] = merged[p]
        BY <1>8, <2>4, <3>8
      <4>. QED  BY <1>5, <2>1, <3>5, <3>8, <4>1 DEF PathInv, Merged
    <3>. QED  BY <3>6, <3>7, <3>8
  <2>. QED  BY <2>3, <2>4
<1>10. ListsType'
  BY <1>1, <1>3, <1>5, <1>8 DEF ListsType
<1>11. ~MergedLists' => conffiles' = Status'.conffiles
  <2>1. ~MergedLists
    BY <1>2 DEF MergedLists
  <2>. QED  BY <1>1, <1>5, <2>1
<1>. QED  BY <1>1, <1>9, <1>10, <1>11 DEF MergeInv

\* A configuration file is merged.
LEMMA MergeConffileKeeps ==
    ASSUME MergeInv, MergeConffile, db' = db
    PROVE  MergeInv'
<1>. DEFINE e == Divert(Head(conffiles))
<1>1. /\ ListsType /\ db \in DOMAIN Databases /\ None \notin filter
      /\ MergedLists /\ conffiles # <<>>
      /\ \A p \in Path : PathInv(p)
      /\ UNCHANGED <<files_stage, filter, lists>>
      /\ merged' = Merge(merged, e) /\ conffiles' = Tail(conffiles)
  BY DEF MergeInv, MergeConffile
<1>2. /\ Head(conffiles) \in ToSet(Status.conffiles)
      /\ conffiles' \in Seq(ToSet(Status.conffiles))
      /\ ToSet(conffiles) = {Head(conffiles)} \cup ToSet(conffiles')
  <2>1. conffiles \in Seq(ToSet(Status.conffiles))
    BY <1>1 DEF ListsType
  <2>. QED  BY <1>1, <2>1, HeadAndTail, OfSequence
<1>3. e \in ConfClaimsOf[db]
  BY <1>1, <1>2, ClaimsAre
<1>4. /\ Status' = Status /\ Raw' = Raw /\ EntriesOf(db)' = EntriesOf(db)
      /\ Left' = Left
      /\ \A p : /\ Claims(p)' = Claims(p) /\ ConfClaims(p)' = ConfClaims(p)
                /\ Owners(p)' = Owners(p)
  BY <1>1 DEF Status, Raw, Left, Divert, Diversions, Claims, ConfClaims, Owners, EntriesOf
<1>5. ConfLeft \subseteq {e} \cup ConfLeft'
  <2>1. \A x : Divert(x)' = Divert(x)
    BY DEF Divert, Diversions
  <2>2. ConfLeft' = {Divert(x) : x \in ToSet(conffiles')}
    BY <2>1 DEF ConfLeft
  <2>. QED  BY <1>2, <2>2 DEF ConfLeft
<1>6. Left = {}
  <2>1. \A i \in DOMAIN lists : ToSet(lists[i]) = {}
    BY <1>1 DEF MergedLists, ToSet
  <2>. QED  BY <2>1 DEF Left
<1>. HIDE DEF e
<1>7. /\ e.path \in Path
      /\ merged' \in [Path -> EntriesOf(db) \cup {None}]
      /\ \A q \in Path \ {e.path} : merged'[q] = merged[q]
      /\ merged[e.path] = None => merged'[e.path] = e
      /\ merged[e.path] # None /\ Checked(e) =>
            /\ merged'[e.path] \in EntriesOf(db)
            /\ merged'[e.path].package = merged[e.path].package
            /\ merged'[e.path].props = e.props
  BY <1>1, <1>3, MergeAt DEF ListsType
<1>8. ASSUME NEW p \in Path PROVE PathInv(p)'
  <2>1. /\ merged[p] = None => Claims(p) \subseteq Left /\ ConfClaims(p) \subseteq ConfLeft
        /\ merged[p] # None => Merged(p, merged[p])
    BY <1>1 DEF PathInv
  <2>2. CASE p # e.path
    <3>1. merged'[p] = merged[p]
      BY <1>7, <2>2
    <3>2. e \notin ConfClaims(p)
      BY <2>2 DEF ConfClaims
    <3>3. ConfClaims(p) \subseteq ConfLeft => ConfClaims(p) \subseteq ConfLeft'
      BY <1>5, <3>2
    <3>. QED  BY <1>4, <2>1, <3>1, <3>3 DEF PathInv, Merged
  <2>3. CASE p = e.path
    <3>1. e \in ConfClaims(p) /\ e \in EntriesOf(db) /\ e # None /\ Checked(e)
      BY <1>1, <1>3, <2>3, ClaimsAre DEF ConfClaims
    <3>2. e.props \in Checksums(ConfClaims(p))
      BY <3>1 DEF Checksums, Checked
    <3>3. CASE merged[p] = None
      <4>1. e.package \in Owners(p)
        BY <1>6, <2>1, <3>1, <3>3 DEF Owners
      <4>2. merged'[p] = e
        BY <1>7, <2>3, <3>3
      <4>. QED  BY <1>4, <3>1, <3>2, <4>1, <4>2 DEF PathInv, Merged
    <3>4. CASE merged[p] # None
      <4>1. /\ merged'[p] \in EntriesOf(db) /\ merged'[p].package = merged[p].package
            /\ merged'[p].props = e.props
        BY <1>7, <2>3, <3>1, <3>4
      <4>2. merged'[p] # None
        BY <1>1, <4>1, ClaimsAre
      <4>. QED  BY <1>4, <2>1, <3>2, <3>4, <4>1, <4>2 DEF PathInv, Merged
    <3>. QED  BY <3>3, <3>4
  <2>. QED  BY <2>2, <2>3
<1>9. ListsType' /\ MergedLists'
  BY <1>1, <1>2, <1>4, <1>7 DEF ListsType, MergedLists
<1>. QED  BY <1>1, <1>8, <1>9 DEF MergeInv

\* When everything is merged, what is asked for agrees with the database.
LEMMA FilterFilesAgrees ==
    ASSUME MergeInv, FilterFiles, db' = db
    PROVE  MergeInv' /\ MergeAgrees'
<1>1. /\ ListsType /\ db \in DOMAIN Databases /\ None \notin filter
      /\ MergedLists /\ conffiles = <<>>
      /\ \A p \in Path : PathInv(p)
      /\ filter' = filter /\ files_stage' = "done"
      /\ merged' = [p \in Path |-> IF merged[p] # None /\ merged[p].package \in filter
                                   THEN merged[p] ELSE None]
  BY DEF MergeInv, FilterFiles
<1>2. Left = {} /\ ConfLeft = {}
  <2>1. /\ \A i \in DOMAIN lists : ToSet(lists[i]) = {}
        /\ ToSet(conffiles) = {}
    BY <1>1 DEF MergedLists, ToSet
  <2>. QED  BY <2>1 DEF Left, ConfLeft
<1>3. \A p : Claims(p)' = Claims(p) /\ ConfClaims(p)' = ConfClaims(p)
  BY DEF Claims, ConfClaims
<1>4. ASSUME NEW p \in Path
      PROVE  /\ merged'[p] = None => Owners(p) = {} \/ \E o \in Owners(p) : o \notin filter
             /\ merged'[p] # None =>
                  /\ merged'[p].package \in Owners(p) \cap filter
                  /\ merged'[p].props \in
                       CASE Checksums(ConfClaims(p)) # {} -> Checksums(ConfClaims(p))
                         [] Checksums(ConfClaims(p)) = {} /\ Checksums(Claims(p)) # {} ->
                               Checksums(Claims(p))
                         [] OTHER -> {<<"Unknown">>}
  <2>1. CASE merged[p] = None
    <3>1. Claims(p) = {} /\ ConfClaims(p) = {}
      BY <1>1, <1>2, <2>1 DEF PathInv
    <3>. QED  BY <1>1, <2>1, <3>1 DEF Owners
  <2>2. CASE merged[p] # None /\ merged[p].package \notin filter
    <3>1. merged[p].package \in Owners(p)
      BY <1>1, <2>2 DEF PathInv, Merged
    <3>. QED  BY <1>1, <2>2, <3>1
  <2>3. CASE merged[p] # None /\ merged[p].package \in filter
    <3>1. merged'[p] = merged[p] /\ Merged(p, merged[p])
      BY <1>1, <2>3 DEF PathInv
    <3>2. CASE merged[p].props \in Checksums(ConfClaims(p))
      BY <2>3, <3>1, <3>2 DEF Merged
    <3>3. CASE ConfClaims(p) = {} /\ merged[p].props \in Checksums(Claims(p))
      <4>1. Checksums(ConfClaims(p)) = {}
        BY <3>3 DEF Checksums
      <4>. QED  BY <2>3, <3>1, <3>3, <4>1 DEF Merged
    <3>4. CASE /\ ConfClaims(p) = {} /\ merged[p].props = <<"Unknown">>
               /\ \A e \in Claims(p) : ~Checked(e)
      <4>1. Checksums(ConfClaims(p)) = {} /\ Checksums(Claims(p)) = {}
        BY <3>4 DEF Checksums, Checked
      <4>. QED  BY <2>3, <3>1, <3>4, <4>1 DEF Merged
    <3>. QED  BY <1>2, <3>1, <3>2, <3>3, <3>4 DEF Merged
  <2>. QED  BY <2>1, <2>2, <2>3
<1>5. MergeAgrees'
  BY <1>1, <1>3, <1>4 DEF MergeAgrees, Owners
<1>. QED  BY <1>1, <1>5 DEF MergeInv

\* What is read is all left to be merged.
LEMMA ReadDatabaseStarts ==
    ASSUME db \in DOMAIN Databases, NEW wanted, None \notin wanted, ReadDatabase(wanted), db' = db
    PROVE  MergeInv' /\ MergeAgrees'
<1>1. CASE Status.failed \/ Diversions.failed
  BY <1>1 DEF ReadDatabase, MergeInv, MergeAgrees
<1>2. CASE ~(Status.failed \/ Diversions.failed)
  <2>1. /\ files_stage' = "lists" /\ lists' = ListsOf[db] /\ conffiles' = Status.conffiles
        /\ filter' = wanted /\ merged' = NoEntries
    BY <1>2 DEF ReadDatabase
  <2>2. Status' = Status /\ Raw' = Raw /\ EntriesOf(db)' = EntriesOf(db)
    BY DEF Status, Raw, EntriesOf
  <2>3. ListsOf[db] \in [DOMAIN ListsOf[db] -> Seq(Raw)]
    <3>1. ListsOf[db] = [i \in DOMAIN ListsOf[db] |-> ListsOf[db][i]]
      BY DEF ListsOf
    <3>2. ASSUME NEW i \in DOMAIN ListsOf[db] PROVE ListsOf[db][i] \in Seq(Raw)
      <4>1. ListsOf[db][i] \in Seq(ToSet(ListsOf[db][i]))
        BY DeclaredAre
      <4>2. ToSet(ListsOf[db][i]) \subseteq Raw
        BY DEF Raw
      <4>. QED  BY <4>1, <4>2
    <3>. QED  BY <3>1, <3>2
  <2>4. Status.conffiles \in Seq(ToSet(Status.conffiles))
    BY DeclaredAre DEF Status
  <2>5. ListsType'
    BY <2>1, <2>2, <2>3, <2>4 DEF ListsType, NoEntries
  <2>6. Left' = ClaimsOf[db] /\ ConfLeft' = ConfClaimsOf[db]
    <3>1. \A e : Divert(e)' = Divert(e)
      BY DEF Divert, Diversions
    <3>2. Left' = {Divert(e) : e \in Raw} /\ ConfLeft' = {Divert(e) : e \in ToSet(Status.conffiles)}
      BY <2>1, <3>1 DEF Left, Raw, ConfLeft
    <3>. QED  BY <3>2, ClaimsAre
  <2>7. \A p \in Path : PathInv(p)'
    BY <2>1, <2>6 DEF PathInv, NoEntries, Claims, ConfClaims
  <2>. QED  BY <2>1, <2>2, <2>5, <2>7 DEF MergeInv, MergeAgrees
<1>. QED  BY <1>1, <1>2

-----------------------------------------------------------------------------
(* The steps of a run *)

\* Nothing is merged and nothing else is read.
LEMMA FilesStay ==
    ASSUME FilesInv, UNCHANGED <<backend, filesVars>>,
           db' = db \/ (files_stage = "idle" /\ db' \in DOMAIN Databases),
           stage' # "idle" \/ files_stage = "idle"
    PROVE  FilesInv'
<1>1. UNCHANGED <<backend, files_stage, filter, lists, conffiles, merged>>
  BY DEF filesVars
<1>2. CASE files_stage = "idle"
  BY <1>1, <1>2 DEF FilesInv, MergeInv, MergeAgrees
<1>3. CASE db' = db /\ files_stage # "idle"
  <2>1. /\ Left' = Left /\ ConfLeft' = ConfLeft /\ Raw' = Raw /\ Status' = Status
        /\ EntriesOf(db)' = EntriesOf(db)
        /\ \A p : /\ Claims(p)' = Claims(p) /\ ConfClaims(p)' = ConfClaims(p)
                  /\ Owners(p)' = Owners(p)
    BY <1>1, <1>3
       DEF Left, ConfLeft, Raw, Status, EntriesOf, Claims, ConfClaims, Owners, Divert, Diversions
  <2>2. \A p : PathInv(p)' <=> PathInv(p)
    BY <1>1, <2>1 DEF PathInv, Merged
  <2>3. (ListsType' <=> ListsType) /\ (MergedLists' <=> MergedLists)
    BY <1>1, <2>1 DEF ListsType, MergedLists
  <2>4. MergeInv'
    BY <1>1, <1>3, <2>1, <2>2, <2>3 DEF FilesInv, MergeInv
  <2>5. MergeAgrees'
    BY <1>1, <2>1 DEF FilesInv, MergeAgrees
  <2>. QED  BY <1>1, <1>3, <2>4, <2>5 DEF FilesInv
<1>. QED  BY <1>2, <1>3 DEF FilesInv

\* The database is read anew, with a filter of package ids.
LEMMA ReadingStarts ==
    ASSUME FilesInv, backend = "apt", UNCHANGED <<backend, db>>, stage' # "idle",
           NEW wanted, None \notin wanted, ReadDatabase(wanted)
    PROVE  FilesInv'
<1>1. db \in DOMAIN Databases /\ db' = db /\ backend' = "apt"
  BY DEF FilesInv
<1>2. MergeInv' /\ MergeAgrees'
  BY <1>1, ReadDatabaseStarts
<1>. QED  BY <1>1, <1>2 DEF FilesInv

\* The entries of the database are merged, or filtered.
LEMMA ReadingGoesOn ==
    ASSUME FilesInv, backend = "apt", UNCHANGED <<backend, db, stage>>, stage # "idle", FilesNext
    PROVE  FilesInv'
<1>1. MergeInv /\ db' = db
  BY DEF FilesInv
<1>2. MergeInv' /\ MergeAgrees'
  <2>1. CASE MergeEntry
    <3>1. MergeInv'
      BY <1>1, <2>1, MergeEntryKeeps
    <3>. QED  BY <2>1, <3>1 DEF MergeEntry, MergeAgrees
  <2>2. CASE MergeConffile
    <3>1. MergeInv'
      BY <1>1, <2>2, MergeConffileKeeps
    <3>. QED  BY <2>2, <3>1 DEF MergeConffile, MergeAgrees
  <2>3. CASE FilterFiles
    BY <1>1, <2>3, FilterFilesAgrees
  <2>. QED  BY <2>1, <2>2, <2>3 DEF FilesNext
<1>. QED  BY <1>2 DEF FilesInv

\* A run of the backend of apt, and what happens between runs.
LEMMA AptKeeps ==
    ASSUME FilesInv, AptNext
    PROVE  FilesInv'
<1>1. backend = "apt" /\ backend' = backend /\ ExpectedNext
  BY DEF AptNext
<1>2. CASE SystemChanges \/ CleanDebs \/ TimePasses
  <2>1. /\ stage = "idle" /\ stage' = "idle" /\ UNCHANGED filesVars
        /\ db' = db \/ db' \in DOMAIN Databases
    BY <1>2 DEF SystemChanges, CleanDebs, TimePasses
  <2>2. files_stage = "idle"
    BY <2>1 DEF FilesInv
  <2>. QED  BY <1>1, <2>1, <2>2, FilesStay
<1>3. CASE StartScan \/ FetchArchives \/ StoreResult \/ AssembleWithDatabase \/ QueryOriginals
  <2>1. UNCHANGED <<db, filesVars>> /\ stage' # "idle"
    BY <1>3 DEF StartScan, FetchArchives, StoreResult, AssembleWithDatabase, QueryOriginals
  <2>. QED  BY <1>1, <2>1, FilesStay
<1>4. CASE Assemble
  <2>1. db' = db /\ stage' # "idle"
    BY <1>4 DEF Assemble
  <2>2. CASE MissingIds # {}
    <3>1. ReadDatabase(Everything)
      BY <1>4, <2>2 DEF Assemble
    <3>. QED  BY <1>1, <2>1, <3>1, EverythingAssumption, ReadingStarts
  <2>3. CASE MissingIds = {}
    <3>1. UNCHANGED filesVars
      BY <1>4, <2>3 DEF Assemble
    <3>. QED  BY <1>1, <2>1, <3>1, FilesStay
  <2>. QED  BY <2>2, <2>3
<1>5. CASE ReadFiles
  <2>1. FilesNext /\ UNCHANGED <<db, stage>> /\ stage # "idle"
    BY <1>5 DEF ReadFiles
  <2>. QED  BY <1>1, <2>1, ReadingGoesOn
<1>6. CASE StartCheck
  <2>1. PICK wanted \in Filters : ReadDatabase(wanted)
    BY <1>6 DEF StartCheck
  <2>2. db' = db /\ stage' # "idle"
    BY <1>6 DEF StartCheck
  <2>. QED  BY <1>1, <2>1, <2>2, DatabaseAssumption, ReadingStarts
<1>7. CASE EndRun
  <2>1. files_stage' = "idle" /\ db' = db
    BY <1>7 DEF EndRun, Forget
  <2>. QED  BY <1>1, <2>1 DEF FilesInv, MergeInv, MergeAgrees
<1>. QED  BY <1>1, <1>2, <1>3, <1>4, <1>5, <1>6, <1>7 DEF ExpectedNext

-----------------------------------------------------------------------------
(* The theorem *)

\* The first state satisfies the invariant.
LEMMA InitFiles ==
    ASSUME Init
    PROVE  FilesInv
<1>1. files_stage = "idle" /\ (backend = "apt" => db \in DOMAIN Databases)
  BY DEF Init, AptInit, SystemdTmpfilesInit, ExpectedInit, ExpectedStart, FilesStart
<1>. QED  BY <1>1 DEF FilesInv, MergeInv, MergeAgrees

\* Every step preserves it.
LEMMA NextFiles ==
    ASSUME FilesInv, [Next]_vars
    PROVE  FilesInv'
<1>1. CASE AptNext
  BY <1>1, AptKeeps
<1>2. CASE SystemdTmpfilesNext \/ UNCHANGED vars
  <2>1. UNCHANGED <<backend, db, filesVars, stage>>
    BY <1>2 DEF SystemdTmpfilesNext, vars, expectedVars
  <2>2. stage' # "idle" \/ files_stage = "idle"
    BY <2>1 DEF FilesInv
  <2>. QED  BY <2>1, <2>2, FilesStay
<1>. QED  BY <1>1, <1>2 DEF Next

\* Debian::files, its workers and what calls it: in whatever order the .list and
\* .md5sums files are merged, whoever asks and for which packages, the answer knows the
\* paths the database declares, attributes each to one that declares it, and has the
\* checksum of the configuration file if it is one, or else one of the .md5sums.
THEOREM FilesAgree == Spec => []MergeAgrees
<1>1. Init => FilesInv
  BY InitFiles
<1>2. FilesInv /\ [Next]_vars => FilesInv'
  BY NextFiles
<1>3. FilesInv => MergeAgrees
  BY DEF FilesInv
<1>. QED  BY <1>1, <1>2, <1>3, PTL DEF Spec

-----------------------------------------------------------------------------
(* Archives and caches *)

\* What the archive of k has, with diversions.
UnpackedAt(k, diversions) ==
    LET map == Unpacked[k].map
        Moved(p) == AfterDiversion(FileEntry(p, map[p]), diversions.map, ToSet(Ids(k.name, k.arch)))
    IN {Moved(p) : p \in {q \in Path : map[q] # None}}

\* What c is as the original contents of path p of k.
OriginalOf(k, p, c) ==
    \E i \in DOMAIN Debs[k] :
        /\ PathOf[Debs[k][i].name] = p
        /\ c = IF Debs[k][i].type = "RegularFile" THEN Debs[k][i].data ELSE EMPTY

CacheInv ==
    /\ ~rediverted => \A k \in CacheKeys :
          from_archives[k] \in {None, Missing, Ok(UnpackedAt(k, Diversions))}
    /\ \A k \in CacheKeys : \A p \in Path :
          original_files[k][p] # None => OriginalOf(k, p, original_files[k][p])

ResultsInv ==
    ~rediverted => \A r \in DOMAIN results : results[r] \in {Missing, Error, Ok(Archived[r])}

StageInv ==
    /\ stage = "idle" => results = NoResult /\ answers = NoResult /\ uncached = {}
    /\ uncached \subseteq DOMAIN Installed
    /\ stage = "fetch" => DOMAIN results = DOMAIN Installed \ uncached
    /\ stage \in {"store", "assemble", "database", "scanned"} => DOMAIN results = DOMAIN Installed
    /\ stage = "database" => filter = Everything

RunInv ==
    /\ debs \subseteq DOMAIN Debs
    /\ CacheInv /\ ResultsInv /\ StageInv
    /\ ExpectedIsInstalled /\ OriginalsAreInstalled

\* An installed package has a key, by which alone its entries are determined.
LEMMA KeyOf ==
    ASSUME db \in DOMAIN Databases, NEW r \in DOMAIN Installed
    PROVE  /\ FormatPackage(Installed[r]) \in CacheKeys
           /\ r \in ToSet(Installed[r].ids)
           /\ Archived[r] = UnpackedAt(FormatPackage(Installed[r]), Diversions)
<1>1. /\ DebOf(Installed[r]) \in DOMAIN Debs
      /\ r \in ToSet(Installed[r].ids)
      /\ Installed[r].ids = Ids(Installed[r].name, Installed[r].arch)
  BY InstalledAre, EverythingAssumption DEF Installed
<1>2. /\ DebOf(Installed[r]).name = Installed[r].name
      /\ DebOf(Installed[r]).arch = Installed[r].arch
  BY DEF DebOf, Deb
<1>3. Archived[r] = ArchiveToEntries(Installed[r], Diversions)
  BY DEF Archived, ArchivedOf, Installed, Diversions
<1>4. ArchiveToEntries(Installed[r], Diversions) = UnpackedAt(DebOf(Installed[r]), Diversions)
  BY <1>1, <1>2 DEF ArchiveToEntries, UnpackedAt
<1>. QED  BY <1>1, <1>3, <1>4 DEF FormatPackage, CacheKeys

\* What is read from an archive is an entry of it, the only one of its path.
LEMMA ExtractedIs ==
    ASSUME NEW deb \in DOMAIN Debs, NEW path, Extracted(deb, path) # None
    PROVE  OriginalOf(deb, path, Extracted(deb, path))
<1>. DEFINE I == {i \in 1..Len(Debs[deb]) : Debs[deb][i].name \in Dotted /\ PathOf[Debs[deb][i].name] = path}
            n == SelectInSeq(Debs[deb], LAMBDA e : e.name \in Dotted /\ PathOf[e.name] = path)
<1>1. DOMAIN Debs[deb] = 1..Len(Debs[deb]) /\ Len(Debs[deb]) \in Nat
  <2>1. Debs[deb] \in Seq(ToSet(Debs[deb]))
    BY DebAssumption
  <2>. QED  BY <2>1
<1>2. n = IF I # {} THEN Min(I) ELSE 0
  BY DEF SelectInSeq
<1>3. Extracted(deb, path) = CASE n = 0 -> None
                              [] n # 0 /\ Debs[deb][n].type = "RegularFile" -> Debs[deb][n].data
                              [] OTHER -> EMPTY
  BY DEF Extracted
<1>. HIDE DEF n
<1>4. I # {}
  BY <1>2, <1>3
<1>5. PICK j : j \in I
  BY <1>4
<1>6. I = {j}
  BY <1>1, <1>5, DebAssumption
<1>7. j \in 1..Len(Debs[deb]) /\ PathOf[Debs[deb][j].name] = path
  BY <1>5
<1>. HIDE DEF I
<1>8. Min(I) = j
  BY <1>1, <1>6, <1>7 DEF Min
<1>9. n = j /\ n # 0
  BY <1>1, <1>2, <1>4, <1>7, <1>8
<1>. QED  BY <1>1, <1>3, <1>7, <1>9 DEF OriginalOf

\* What can be had for an id is the package's archive, or that there is none.
LEMMA OutcomesAre ==
    ASSUME NEW r, NEW before, NEW after
    PROVE  Outcomes(r, before, after) \subseteq {Missing, Error, Ok(Archived[r])}
  BY DEF Outcomes

\* What is found in the cache is of the packages it is found for.
LEMMA HitsAre ==
    ASSUME db \in DOMAIN Databases, CacheInv, ~rediverted
    PROVE  /\ DOMAIN Hits(Installed) \subseteq DOMAIN Installed
           /\ \A r \in DOMAIN Hits(Installed) : Hits(Installed)[r] \in {Missing, Ok(Archived[r])}
<1>1. \A r \in DOMAIN Hits(Installed) :
         /\ r \in DOMAIN Installed
         /\ Hits(Installed)[r] = from_archives[FormatPackage(Installed[r])]
         /\ from_archives[FormatPackage(Installed[r])] # None
  BY DEF Hits
<1>2. ASSUME NEW r \in DOMAIN Hits(Installed)
      PROVE  Hits(Installed)[r] \in {Missing, Ok(Archived[r])}
  <2>1. /\ FormatPackage(Installed[r]) \in CacheKeys
        /\ Archived[r] = UnpackedAt(FormatPackage(Installed[r]), Diversions)
    BY <1>1, KeyOf
  <2>. QED  BY <1>1, <2>1 DEF CacheInv
<1>. QED  BY <1>1, <1>2

-----------------------------------------------------------------------------
(* Original contents *)

\* The answers for installed packages are what their archives say, whether they were
\* cached or read.
LEMMA AnswersAre ==
    ASSUME db \in DOMAIN Databases, CacheInv, NEW queries \in QuerySets,
           NEW there, there \subseteq DOMAIN Debs,
           NEW found, found = AnswerOriginals(queries, Installed, there), found # None
    PROVE  /\ DOMAIN found = queries
           /\ \A q \in queries : q.package \in DOMAIN Installed =>
                 OriginalOf(DebOf(Installed[q.package]), q.path, found[q])
<1>. DEFINE uncd    == {q \in queries : CachedOriginal(q, Installed) = None}
            fetched == OriginalsFrom(uncd, Installed, there)
            Found(q) == Matching(q.package, Installed, there)
<1>1. /\ fetched # None
      /\ found = [q \in queries |-> IF q \in uncd THEN fetched[q] ELSE CachedOriginal(q, Installed)]
  BY DEF AnswerOriginals
<1>2. /\ \A q \in uncd : /\ Found(q) # {}
                         /\ Extracted(Latest(Found(q)), q.path) # None
      /\ fetched = [q \in uncd |-> Extracted(Latest(Found(q)), q.path)]
  BY <1>1 DEF OriginalsFrom
<1>3. ASSUME NEW q \in queries, q.package \in DOMAIN Installed
      PROVE  OriginalOf(DebOf(Installed[q.package]), q.path, found[q])
  <2>. DEFINE deb == DebOf(Installed[q.package])
  <2>1. deb \in DOMAIN Debs /\ deb \in CacheKeys /\ q.path \in Path
    BY <1>3, KeyOf, EverythingAssumption DEF FormatPackage, CacheKeys
  <2>2. CASE q \in uncd
    <3>1. Found(q) = {deb}
      BY <1>2, <1>3, <2>2 DEF Matching
    <3>2. DebRank[deb] <= DebRank[deb]
      BY <2>1, DebAssumption
    <3>3. Latest(Found(q)) = deb
      BY <3>1, <3>2 DEF Latest
    <3>4. found[q] = Extracted(deb, q.path) /\ Extracted(deb, q.path) # None
      BY <1>1, <1>2, <2>2, <3>3
    <3>. QED  BY <2>1, <3>4, ExtractedIs
  <2>3. CASE q \notin uncd
    <3>1. found[q] = CachedOriginal(q, Installed) /\ CachedOriginal(q, Installed) # None
      BY <1>1, <2>3
    <3>2. CachedOriginal(q, Installed) = original_files[deb][q.path]
      BY <1>3 DEF CachedOriginal, FormatPackage
    <3>. QED  BY <2>1, <3>1, <3>2 DEF CacheInv
  <2>. QED  BY <2>2, <2>3
<1>. QED  BY <1>1, <1>3

\* They are kept as such.
LEMMA RememberedOriginals ==
    ASSUME db \in DOMAIN Databases, CacheInv, NEW answered,
           \A q \in DOMAIN answered : q.package \in DOMAIN Installed =>
                 OriginalOf(DebOf(Installed[q.package]), q.path, answered[q]),
           RememberOriginals(answered, Installed)
    PROVE  \A k \in CacheKeys : \A p \in Path :
              original_files'[k][p] # None => OriginalOf(k, p, original_files'[k][p])
<1>. TAKE k \in CacheKeys
<1>. TAKE p \in Path
<1>. DEFINE of == {q \in DOMAIN answered : /\ q.package \in DOMAIN Installed
                                           /\ FormatPackage(Installed[q.package]) = k
                                           /\ q.path = p}
<1>1. original_files'[k][p] = IF of = {} THEN original_files[k][p] ELSE answered[CHOOSE q \in of : TRUE]
  BY DEF RememberOriginals
<1>2. CASE of = {}
  BY <1>1, <1>2 DEF CacheInv
<1>3. CASE of # {}
  <2>1. PICK q \in of : q = CHOOSE x \in of : TRUE
    BY <1>3
  <2>. QED  BY <1>1, <1>3, <2>1 DEF FormatPackage
<1>. QED  BY <1>2, <1>3

-----------------------------------------------------------------------------
(* The outcome of a scan *)

\* Of each path, one of the entries for it is expected.
LEMMA ExpectedAt ==
    ASSUME NEW extra, NEW archived, NEW result \in ExpectedFrom(extra, archived),
           \A e \in extra \cup archived : e = FileEntry(e.path, e.props) /\ e.props # None,
           NEW p \in Path
    PROVE  /\ result[p] = None => \A e \in extra \cup archived : e.path # p
           /\ result[p] # None => FileEntry(p, result[p]) \in extra \cup archived
<1>. DEFINE written   == extra \cup {e \in archived : \A x \in extra : x.path # e.path}
            OfPath(q)     == {e \in written : e.path = q}
            contested == {q \in Path : Cardinality(OfPath(q)) > 1}
<1>1. PICK f \in [contested -> {e.props : e \in written}] :
         /\ \A q \in contested : FileEntry(q, f[q]) \in written
         /\ result = [q \in Path |-> CASE q \in contested -> f[q]
                                       [] q \notin contested /\ OfPath(q) # {} ->
                                             (CHOOSE e \in OfPath(q) : TRUE).props
                                       [] OTHER -> None]
  BY DEF ExpectedFrom
<1>2. written \subseteq extra \cup archived
  OBVIOUS
<1>3. OfPath(p) = {} => \A e \in extra \cup archived : e.path # p
  OBVIOUS
<1>4. \A q, x : FileEntry(q, x).path = q /\ FileEntry(q, x).props = x
  BY DEF FileEntry
<1>5. \A e \in OfPath(p) : e = FileEntry(p, e.props) /\ e.props # None /\ e \in written
  BY <1>2
<1>6. result[p] = CASE p \in contested -> f[p]
                    [] p \notin contested /\ OfPath(p) # {} -> (CHOOSE e \in OfPath(p) : TRUE).props
                    [] OTHER -> None
  BY <1>1
<1>7. CASE p \in contested
  <2>1. FileEntry(p, f[p]) \in written /\ result[p] = f[p]
    BY <1>1, <1>6, <1>7
  <2>2. f[p] # None
    BY <1>2, <1>4, <2>1
  <2>. QED  BY <1>2, <2>1, <2>2
<1>8. CASE p \notin contested /\ OfPath(p) # {}
  <2>1. PICK e \in OfPath(p) : e = CHOOSE x \in OfPath(p) : TRUE
    BY <1>8
  <2>2. result[p] = e.props
    BY <1>6, <1>8, <2>1
  <2>. QED  BY <1>2, <1>5, <2>1, <2>2
<1>9. CASE p \notin contested /\ OfPath(p) = {}
  BY <1>3, <1>6, <1>9
<1>. QED  BY <1>7, <1>8, <1>9

\* Entries of archives are never None.
LEMMA ArchivedEntries ==
    ASSUME db \in DOMAIN Databases, NEW r \in DOMAIN Installed, NEW e \in Archived[r]
    PROVE  e.props # None
<1>1. PICK p \in Path :
         LET map == Unpacked[DebOf(Installed[r])].map
         IN /\ map[p] # None
            /\ e = AfterDiversion(FileEntry(p, map[p]), Diversions.map, ToSet(Installed[r].ids))
  BY DEF Archived, ArchivedOf, Installed, Diversions, ArchiveToEntries
<1>. QED  BY <1>1 DEF AfterDiversion, FileEntry

\* What the results have is what the archives of the installed packages have.
LEMMA ResultsArePacked ==
    ASSUME db \in DOMAIN Databases, ~rediverted, ResultsInv, DOMAIN results = DOMAIN Installed,
           \A r \in DOMAIN results : results[r] # Error
    PROVE  /\ FromArchives = Packed
           /\ \A e \in FromArchives : e = FileEntry(e.path, e.props) /\ e.props # None
           /\ \A pkg \in InstalledPackages : HasArchive(pkg) \/ NoArchive(pkg)
           /\ \A r \in DOMAIN results : results[r].kind = "PackageMissing" => NoArchive(Installed[r])
<1>1. /\ Missing.kind = "PackageMissing" /\ Missing.entries = {}
      /\ \A x : Ok(x).kind = "Ok" /\ Ok(x).entries = x
  BY DEF Missing, Ok
<1>2. \A r \in DOMAIN Installed : results[r] = Missing \/ results[r] = Ok(Archived[r])
  BY DEF ResultsInv
<1>3. \A r \in DOMAIN Installed :
         results[r].entries = IF results[r].kind = "Ok" THEN Archived[r] ELSE {}
  BY <1>1, <1>2
<1>4. ASSUME NEW r \in DOMAIN Installed, HasArchive(Installed[r])
      PROVE  \E x \in DOMAIN Installed : results[x].kind = "Ok" /\ Archived[x] = Archived[r]
  <2>1. PICK x \in DOMAIN results : Installed[x] = Installed[r] /\ results[x].kind = "Ok"
    BY <1>4 DEF HasArchive
  <2>2. Archived[x] = Archived[r]
    BY <2>1, KeyOf
  <2>. QED  BY <2>1, <2>2
<1>5. \A r \in DOMAIN Installed : results[r].kind = "Ok" => HasArchive(Installed[r])
  BY DEF HasArchive
<1>. DEFINE have == UNION {Archived[r] : r \in {x \in DOMAIN Installed : HasArchive(Installed[x])}}
            got  == UNION {results[r].entries : r \in DOMAIN results}
<1>6. got = have
  <2>1. got \subseteq have
    BY <1>3, <1>5
  <2>2. ASSUME NEW e \in have PROVE e \in got
    <3>1. PICK r \in DOMAIN Installed : HasArchive(Installed[r]) /\ e \in Archived[r]
      OBVIOUS
    <3>. QED  BY <1>3, <1>4, <3>1
  <2>. QED  BY <2>1, <2>2
<1>7. FromArchives = {FileEntry(Canonical[e.path], e.props) : e \in got}
      /\ Packed = {FileEntry(Canonical[e.path], e.props) : e \in have}
  BY DEF FromArchives, Packed
<1>8. \A e \in have : e.props # None
  BY ArchivedEntries
<1>. HIDE DEF have, got
<1>9. \A e \in FromArchives : e = FileEntry(e.path, e.props) /\ e.props # None
  BY <1>6, <1>7, <1>8 DEF FileEntry
<1>10. \A pkg \in InstalledPackages : HasArchive(pkg) \/ NoArchive(pkg)
  BY <1>1, <1>2 DEF InstalledPackages, HasArchive, NoArchive
<1>11. \A r \in DOMAIN results : results[r].kind = "PackageMissing" => NoArchive(Installed[r])
  BY DEF NoArchive
<1>. QED  BY <1>6, <1>7, <1>9, <1>10, <1>11

\* A scan for which all archives were there.
LEMMA ScanOfArchives ==
    ASSUME db \in DOMAIN Databases, UNCHANGED <<db, results, rediverted>>,
           ResultsInv, DOMAIN results = DOMAIN Installed,
           MissingIds = {}, expected' \in ExpectedFrom({}, FromArchives)
    PROVE  ExpectedIsInstalled'
<1>1. SUFFICES ASSUME ~rediverted, \A r \in DOMAIN results : results[r] # Error
               PROVE  ExpectedIsInstalled'
  BY DEF ExpectedIsInstalled, Error
<1>2. /\ FromArchives = Packed
      /\ \A e \in FromArchives : e = FileEntry(e.path, e.props) /\ e.props # None
      /\ \A pkg \in InstalledPackages : HasArchive(pkg) \/ NoArchive(pkg)
  BY <1>1, ResultsArePacked
<1>3. /\ Packed' = Packed /\ Listed' = Listed /\ InstalledPackages' = InstalledPackages
      /\ \A pkg : (HasArchive(pkg)' <=> HasArchive(pkg)) /\ (NoArchive(pkg)' <=> NoArchive(pkg))
  BY DEF Packed, Listed, InstalledPackages, HasArchive, NoArchive, Installed, Archived
<1>4. Listed = {}
  <2>1. ASSUME NEW pkg, NoArchive(pkg) PROVE ToSet(pkg.ids) = {}
    <3>1. PICK r \in DOMAIN results : Installed[r] = pkg /\ results[r].kind = "PackageMissing"
      BY <2>1 DEF NoArchive
    <3>. QED  BY <3>1 DEF MissingIds
  <2>. QED  BY <2>1 DEF Listed
<1>5. ASSUME NEW p \in Path
      PROVE  /\ expected'[p] = None => \A e \in Packed : e.path # p
             /\ expected'[p] # None => FileEntry(p, expected'[p]) \in Packed
  BY <1>2, ExpectedAt
<1>. QED  BY <1>2, <1>3, <1>4, <1>5 DEF ExpectedIsInstalled

\* What files() answers, in terms of the entries there are for a path.
LEMMA AnsweredAt ==
    ASSUME db \in DOMAIN Databases, MergeAgrees, files_stage = "done", filter = Everything,
           NEW p \in Path
    PROVE  /\ merged[p] = None => Claims(p) \cup ConfClaims(p) = {}
           /\ merged[p] # None =>
                 /\ merged[p].props # None
                 /\ \E e \in Claims(p) \cup ConfClaims(p) :
                       /\ e.package = merged[p].package
                       /\ merged[p].props \in {e.props} \cup Checksums(Claims(p) \cup ConfClaims(p))
<1>. DEFINE claims == Claims(p) \cup ConfClaims(p)
<1>1. /\ merged[p] = None => Owners(p) = {} \/ \E o \in Owners(p) : o \notin filter
      /\ merged[p] # None =>
           /\ merged[p].package \in Owners(p)
           /\ merged[p].props \in
                CASE Checksums(ConfClaims(p)) # {} -> Checksums(ConfClaims(p))
                  [] Checksums(ConfClaims(p)) = {} /\ Checksums(Claims(p)) # {} -> Checksums(Claims(p))
                  [] OTHER -> {<<"Unknown">>}
  BY DEF MergeAgrees, Owners
<1>2. \A e \in claims : e.package \in Everything /\ e.props # None
  <2>1. claims \subseteq EntriesOf(db)
    BY ClaimsAre DEF Claims, ConfClaims
  <2>. QED  BY <2>1, DatabaseAssumption, EverythingAssumption
<1>3. Owners(p) = {} => claims = {}
  BY DEF Owners
<1>4. \A o \in Owners(p) : \E e \in claims : e.package = o
  BY DEF Owners
<1>5. merged[p] = None => claims = {}
  BY <1>1, <1>2, <1>3, <1>4
<1>6. ASSUME merged[p] # None
      PROVE  /\ merged[p].props # None
             /\ \E e \in claims : /\ e.package = merged[p].package
                                  /\ merged[p].props \in {e.props} \cup Checksums(claims)
  <2>1. PICK e \in claims : e.package = merged[p].package
    BY <1>1, <1>4, <1>6
  <2>2. CASE merged[p].props \in Checksums(Claims(p)) \cup Checksums(ConfClaims(p))
    <3>1. Checksums(Claims(p)) \cup Checksums(ConfClaims(p)) = Checksums(claims)
      BY DEF Checksums
    <3>2. \A x \in Checksums(claims) : x # None
      BY <1>2 DEF Checksums
    <3>. QED  BY <2>1, <2>2, <3>1, <3>2
  <2>3. CASE merged[p].props \notin Checksums(Claims(p)) \cup Checksums(ConfClaims(p))
    <3>1. /\ merged[p].props = <<"Unknown">>
          /\ Checksums(ConfClaims(p)) = {} /\ Checksums(Claims(p)) = {}
      BY <1>1, <1>6, <2>3
    <3>2. ~Checked(e)
      BY <2>1, <3>1 DEF Checksums, Checked
    <3>3. e.props = <<"Unknown">>
      BY <2>1, <3>2, ClaimsAre DEF Claims, ConfClaims
    <3>. QED  BY <1>2, <2>1, <3>1, <3>3
  <2>. QED  BY <2>2, <2>3
<1>. QED  BY <1>5, <1>6

\* A scan for which the database had to be asked.
LEMMA ScanWithDatabase ==
    ASSUME db \in DOMAIN Databases, UNCHANGED <<db, results, rediverted>>,
           ResultsInv, DOMAIN results = DOMAIN Installed,
           MergeAgrees, files_stage = "done", filter = Everything,
           expected' \in ExpectedFrom(Extra, FromArchives)
    PROVE  ExpectedIsInstalled'
<1>1. SUFFICES ASSUME ~rediverted, \A r \in DOMAIN results : results[r] # Error
               PROVE  ExpectedIsInstalled'
  BY DEF ExpectedIsInstalled, Error
<1>2. /\ FromArchives = Packed
      /\ \A e \in FromArchives : e = FileEntry(e.path, e.props) /\ e.props # None
      /\ \A pkg \in InstalledPackages : HasArchive(pkg) \/ NoArchive(pkg)
      /\ \A r \in DOMAIN results : results[r].kind = "PackageMissing" => NoArchive(Installed[r])
  BY <1>1, ResultsArePacked
<1>3. /\ Packed' = Packed /\ Listed' = Listed /\ InstalledPackages' = InstalledPackages
      /\ \A pkg : (HasArchive(pkg)' <=> HasArchive(pkg)) /\ (NoArchive(pkg)' <=> NoArchive(pkg))
      /\ \A p : Claims(p)' = Claims(p) /\ ConfClaims(p)' = ConfClaims(p)
      /\ \A e : SharedWithOthers(e)' <=> SharedWithOthers(e)
  BY DEF Packed, Listed, InstalledPackages, HasArchive, NoArchive, Installed, Archived,
         Claims, ConfClaims, SharedWithOthers
<1>. DEFINE all == ClaimsOf[db] \cup ConfClaimsOf[db]
<1>4. \A e \in all : e \in Listed <=> e.package \in MissingIds
  <2>1. ASSUME NEW e \in all, e.package \in MissingIds PROVE e \in Listed
    <3>1. PICK r \in DOMAIN results :
             results[r].kind = "PackageMissing" /\ e.package \in ToSet(Installed[r].ids)
      BY <2>1 DEF MissingIds
    <3>2. NoArchive(Installed[r]) /\ Installed[r] \in InstalledPackages
      BY <1>2, <3>1 DEF InstalledPackages
    <3>. QED  BY <3>1, <3>2 DEF Listed
  <2>2. ASSUME NEW e \in Listed PROVE e.package \in MissingIds
    <3>1. PICK pkg : NoArchive(pkg) /\ e.package \in ToSet(pkg.ids)
      BY DEF Listed
    <3>2. PICK r \in DOMAIN results : Installed[r] = pkg /\ results[r].kind = "PackageMissing"
      BY <3>1 DEF NoArchive
    <3>. QED  BY <3>1, <3>2 DEF MissingIds
  <2>. QED  BY <2>1, <2>2
<1>5. Listed \subseteq all /\ \A e \in all : e.path \in Path
  BY ClaimsAre DEF Listed
<1>6. \A p : Claims(p) \cup ConfClaims(p) = {e \in all : e.path = p}
  BY DEF Claims, ConfClaims
<1>7. ASSUME NEW e \in Extra
      PROVE  /\ e = FileEntry(e.path, e.props) /\ e.props # None
             /\ \E x \in Listed :
                   /\ Canonical[x.path] = e.path
                   /\ e.props \in {x.props} \cup Checksums(Claims(x.path) \cup ConfClaims(x.path))
  <2>1. PICK p \in Path : /\ merged[p] # None /\ merged[p].package \in MissingIds
                          /\ e = FileEntry(Canonical[p], merged[p].props)
    BY DEF Extra
  <2>2. /\ merged[p].props # None
        /\ \E x \in Claims(p) \cup ConfClaims(p) :
              /\ x.package = merged[p].package
              /\ merged[p].props \in {x.props} \cup Checksums(Claims(p) \cup ConfClaims(p))
    BY <2>1, AnsweredAt
  <2>3. PICK x \in all : /\ x.path = p /\ x.package = merged[p].package
                         /\ merged[p].props \in {x.props} \cup Checksums(Claims(p) \cup ConfClaims(p))
    BY <1>6, <2>2
  <2>4. x \in Listed
    BY <1>4, <2>1, <2>3
  <2>5. e.path = Canonical[p] /\ e.props = merged[p].props
    BY <2>1 DEF FileEntry
  <2>. QED  BY <2>1, <2>2, <2>3, <2>4, <2>5
<1>8. ASSUME NEW x \in Listed, ~SharedWithOthers(x)
      PROVE  \E e \in Extra : e.path = Canonical[x.path]
  <2>1. x \in all /\ x.path \in Path /\ x \in Claims(x.path) \cup ConfClaims(x.path)
    BY <1>5, <1>6
  <2>2. PICK y \in Claims(x.path) \cup ConfClaims(x.path) :
            merged[x.path] # None /\ y.package = merged[x.path].package
    BY <2>1, AnsweredAt
  <2>3. y \in all /\ y.path = x.path
    BY <1>6, <2>2
  <2>4. y \in Listed
    BY <1>8, <2>3 DEF SharedWithOthers
  <2>5. merged[x.path].package \in MissingIds
    BY <1>4, <2>2, <2>3, <2>4
  <2>6. FileEntry(Canonical[x.path], merged[x.path].props) \in Extra
    BY <2>1, <2>2, <2>5 DEF Extra
  <2>. QED  BY <2>6 DEF FileEntry
<1>9. \A e \in Extra \cup FromArchives : e = FileEntry(e.path, e.props) /\ e.props # None
  BY <1>2, <1>7
<1>10. ASSUME NEW p \in Path
       PROVE  /\ expected'[p] = None => \A e \in Extra \cup FromArchives : e.path # p
              /\ expected'[p] # None => FileEntry(p, expected'[p]) \in Extra \cup FromArchives
  BY <1>9, ExpectedAt
<1>11. \A p, x : FileEntry(p, x).path = p /\ FileEntry(p, x).props = x
  BY DEF FileEntry
<1>12. ASSUME NEW p \in Path
       PROVE  /\ expected'[p] = None =>
                   /\ \A e \in Packed : e.path # p
                   /\ \A e \in {x \in Listed : Canonical[x.path] = p} : SharedWithOthers(e)
              /\ expected'[p] # None =>
                   \/ FileEntry(p, expected'[p]) \in Packed
                   \/ \E e \in {x \in Listed : Canonical[x.path] = p} :
                         expected'[p] \in {e.props} \cup Checksums(Claims(e.path) \cup ConfClaims(e.path))
  <2>1. CASE expected'[p] = None
    BY <1>2, <1>8, <1>10, <2>1
  <2>2. CASE expected'[p] # None
    <3>1. CASE FileEntry(p, expected'[p]) \in FromArchives
      BY <1>2, <2>2, <3>1
    <3>2. CASE FileEntry(p, expected'[p]) \in Extra
      <4>1. PICK x \in Listed :
               /\ Canonical[x.path] = p
               /\ expected'[p] \in {x.props} \cup Checksums(Claims(x.path) \cup ConfClaims(x.path))
        <5>1. PICK e \in Extra : e.path = p /\ e.props = expected'[p]
          <6> DEFINE e == FileEntry(p, expected'[p])
          <6>1. e.path = p /\ e.props = expected'[p]
            BY <1>11
          <6> HIDE DEF e
          <6>. QED  BY <3>2, <6>1 DEF e
        <5>2. PICK x \in Listed :
                 /\ Canonical[x.path] = e.path
                 /\ e.props \in {x.props} \cup Checksums(Claims(x.path) \cup ConfClaims(x.path))
          BY <1>7
        <5>. QED  BY <5>1, <5>2
      <4>. QED  BY <2>2, <4>1
    <3>. QED  BY <1>10, <2>2, <3>1, <3>2
  <2>. QED  BY <2>1, <2>2
<1>. QED  BY <1>2, <1>3, <1>12 DEF ExpectedIsInstalled

-----------------------------------------------------------------------------
(* The steps of a scan *)

\* What does not concern the caches, leaves them.
LEMMA CachesStay ==
    ASSUME CacheInv, UNCHANGED <<db, cacheVars, rediverted>>
    PROVE  CacheInv'
  BY DEF CacheInv, cacheVars, Diversions

\* The same of the outcome of the scan.
LEMMA ExpectedStays ==
    ASSUME ExpectedIsInstalled, UNCHANGED <<db, rediverted, results, expected>>,
           stage' = "scanned" => stage = "scanned"
    PROVE  ExpectedIsInstalled'
<1>1. Installed' = Installed /\ Archived' = Archived
  BY DEF Installed, Archived
<1>2. /\ Packed' = Packed /\ Listed' = Listed /\ InstalledPackages' = InstalledPackages
      /\ \A pkg : (HasArchive(pkg)' <=> HasArchive(pkg)) /\ (NoArchive(pkg)' <=> NoArchive(pkg))
      /\ \A p : Claims(p)' = Claims(p) /\ ConfClaims(p)' = ConfClaims(p)
      /\ \A e : SharedWithOthers(e)' <=> SharedWithOthers(e)
  BY <1>1 DEF Packed, Listed, InstalledPackages, HasArchive, NoArchive, Claims, ConfClaims,
              SharedWithOthers
<1>. QED  BY <1>2 DEF ExpectedIsInstalled

\* And of all that was found.
LEMMA FindingsStay ==
    ASSUME ResultsInv, ExpectedIsInstalled, OriginalsAreInstalled,
           UNCHANGED <<db, rediverted, results, expected, answers>>, stage' = "scanned" => stage = "scanned"
    PROVE  ResultsInv' /\ ExpectedIsInstalled' /\ OriginalsAreInstalled'
<1>1. Installed' = Installed /\ Archived' = Archived
  BY DEF Installed, Archived
<1>2. ResultsInv' /\ OriginalsAreInstalled'
  BY <1>1 DEF ResultsInv, OriginalsAreInstalled
<1>. QED  BY <1>2, ExpectedStays

\* Nothing was found yet, or it is forgotten.
LEMMA NothingFound ==
    ASSUME results' = NoResult, answers' = NoResult, stage' # "scanned"
    PROVE  ResultsInv' /\ ExpectedIsInstalled' /\ OriginalsAreInstalled'
<1>1. DOMAIN NoResult = {}
  BY DEF NoResult
<1>. QED  BY <1>1 DEF ResultsInv, ExpectedIsInstalled, OriginalsAreInstalled

\* What happens between runs.
LEMMA BetweenRuns ==
    ASSUME RunInv, SystemChanges \/ CleanDebs \/ TimePasses
    PROVE  RunInv'
<1>1. /\ stage = "idle" /\ stage' = "idle" /\ UNCHANGED <<results, answers, uncached>>
      /\ results = NoResult /\ answers = NoResult /\ uncached = {}
  BY DEF RunInv, StageInv, SystemChanges, CleanDebs, TimePasses
<1>2. ResultsInv' /\ ExpectedIsInstalled' /\ OriginalsAreInstalled'
  BY <1>1, NothingFound
<1>3. StageInv'
  BY <1>1 DEF StageInv
<1>4. debs' \subseteq DOMAIN Debs
  BY DEF RunInv, SystemChanges, CleanDebs, TimePasses
<1>5. CASE SystemChanges
  <2>1. /\ UNCHANGED <<from_archives, original_files>>
        /\ ~rediverted' => ~rediverted /\ DiversionsOf[db'] = DiversionsOf[db]
    BY <1>5 DEF SystemChanges, cacheVars
  <2>2. CacheInv'
    BY <2>1 DEF RunInv, CacheInv, Diversions
  <2>. QED  BY <1>2, <1>3, <1>4, <2>2 DEF RunInv
<1>6. CASE CleanDebs
  <2>1. CacheInv'
    BY <1>6, CachesStay DEF RunInv, CleanDebs
  <2>. QED  BY <1>2, <1>3, <1>4, <2>1 DEF RunInv
<1>7. CASE TimePasses
  <2>1. UNCHANGED <<db, rediverted>> /\ Expire
    BY <1>7 DEF TimePasses
  <2>2. /\ \A k \in CacheKeys : from_archives'[k] \in {from_archives[k], None}
        /\ \A k \in CacheKeys : \A p \in Path :
              original_files'[k][p] \in {original_files[k][p], None}
    <3>1. CASE /\ \E k \in CacheKeys : from_archives' = [from_archives EXCEPT ![k] = None]
               /\ UNCHANGED original_files
      BY <3>1
    <3>2. CASE /\ \E k \in CacheKeys : \E p \in Path :
                     original_files' = [original_files EXCEPT ![k][p] = None]
               /\ UNCHANGED from_archives
      BY <3>2
    <3>. QED  BY <2>1, <3>1, <3>2 DEF Expire
  <2>3. CacheInv'
    BY <2>1, <2>2 DEF RunInv, CacheInv, Diversions
  <2>. QED  BY <1>2, <1>3, <1>4, <2>3 DEF RunInv
<1>. QED  BY <1>5, <1>6, <1>7

\* A scan begins with what the cache has.
LEMMA StartScanRuns ==
    ASSUME RunInv, db \in DOMAIN Databases, StartScan
    PROVE  RunInv'
<1>1. /\ stage = "idle" /\ stage' \notin {"idle", "store", "database", "scanned"}
      /\ UNCHANGED <<db, debs, cacheVars, rediverted, expected, answers>>
  BY DEF StartScan
<1>2. /\ results = NoResult /\ answers = NoResult /\ uncached = {}
      /\ debs' \subseteq DOMAIN Debs
  BY <1>1 DEF RunInv, StageInv
<1>3. CacheInv'
  BY <1>1, CachesStay DEF RunInv
<1>4. /\ Installed' = Installed /\ Archived' = Archived
      /\ DOMAIN Hits(Installed) \subseteq DOMAIN Installed
  BY <1>1 DEF Installed, Archived, Hits
<1>5. CASE Status.failed
  <2>1. results' = results /\ uncached' = uncached /\ stage' = "failed"
    BY <1>5 DEF StartScan
  <2>2. ResultsInv' /\ ExpectedIsInstalled' /\ OriginalsAreInstalled'
    BY <1>1, <1>2, <2>1, NothingFound
  <2>3. StageInv'
    BY <1>2, <2>1 DEF StageInv
  <2>. QED  BY <1>2, <1>3, <2>2, <2>3 DEF RunInv
<1>6. CASE ~Status.failed
  <2>1. /\ results' = Hits(Installed) /\ uncached' = DOMAIN Installed \ DOMAIN Hits(Installed)
        /\ stage' = "assemble" => uncached' = {}
        /\ stage' \in {"assemble", "failed", "fetch"}
    BY <1>6 DEF StartScan
  <2>2. ResultsInv'
    <3>1. ~rediverted => \A r \in DOMAIN Hits(Installed) : Hits(Installed)[r] \in {Missing, Ok(Archived[r])}
      BY HitsAre DEF RunInv
    <3>. QED  BY <1>1, <1>4, <2>1, <3>1 DEF ResultsInv
  <2>3. StageInv'
    BY <1>4, <2>1 DEF StageInv
  <2>4. OriginalsAreInstalled'
    <3>1. DOMAIN answers' = {}
      BY <1>1, <1>2 DEF NoResult
    <3>. QED  BY <3>1 DEF OriginalsAreInstalled
  <2>5. ExpectedIsInstalled'
    BY <2>1 DEF ExpectedIsInstalled
  <2>. QED  BY <1>2, <1>3, <2>2, <2>3, <2>4, <2>5 DEF RunInv
<1>. QED  BY <1>5, <1>6

\* Archives are downloaded and read.
LEMMA FetchArchivesRuns ==
    ASSUME RunInv, db \in DOMAIN Databases, FetchArchives
    PROVE  RunInv'
<1>1. /\ stage = "fetch" /\ stage' \in {"panicked", "store"}
      /\ UNCHANGED <<db, cacheVars, rediverted, uncached, expected, answers>>
  BY DEF FetchArchives
<1>2. /\ Installed' = Installed /\ Archived' = Archived
      /\ uncached \subseteq DOMAIN Installed
      /\ DOMAIN results = DOMAIN Installed \ uncached
  BY <1>1 DEF RunInv, StageInv, Installed, Archived
<1>3. CacheInv'
  BY <1>1, CachesStay DEF RunInv
<1>4. debs' \subseteq DOMAIN Debs
  <2>1. \A ref : Downloadable(ref) \subseteq DOMAIN Debs
    BY DebAssumption DEF Downloadable
  <2>2. PICK pkgs, got : got \in SUBSET ((UNION {Downloadable(pkg.ids[1]) : pkg \in pkgs}) \ debs)
                         /\ debs' = debs \cup got
    BY DEF FetchArchives
  <2>3. got \subseteq DOMAIN Debs
    BY <2>1, <2>2
  <2>. QED  BY <2>2, <2>3 DEF RunInv
<1>5. ExpectedIsInstalled' /\ OriginalsAreInstalled'
  BY <1>1, <1>2 DEF RunInv, ExpectedIsInstalled, OriginalsAreInstalled
<1>6. CASE stage' = "panicked"
  <2>1. results' = results
    BY <1>6 DEF FetchArchives
  <2>2. ResultsInv' /\ StageInv'
    BY <1>1, <1>2, <1>6, <2>1 DEF RunInv, ResultsInv, StageInv
  <2>. QED  BY <1>3, <1>4, <1>5, <2>2 DEF RunInv
<1>7. CASE stage' = "store"
  <2>1. PICK f : /\ \A r \in uncached : f[r] \in Outcomes(r, debs, debs')
                 /\ results' = [r \in DOMAIN Installed |-> IF r \in uncached THEN f[r] ELSE results[r]]
    BY <1>7 DEF FetchArchives
  <2>2. \A r \in uncached : f[r] \in {Missing, Error, Ok(Archived[r])}
    BY <2>1, OutcomesAre
  <2>3. ResultsInv'
    BY <1>1, <1>2, <2>1, <2>2 DEF RunInv, ResultsInv
  <2>4. StageInv'
    BY <1>1, <1>2, <1>7, <2>1 DEF StageInv
  <2>. QED  BY <1>3, <1>4, <1>5, <2>3, <2>4 DEF RunInv
<1>. QED  BY <1>1, <1>6, <1>7

\* A result is put into the cache.
LEMMA StoreResultRuns ==
    ASSUME RunInv, db \in DOMAIN Databases, StoreResult
    PROVE  RunInv'
<1>1. /\ stage = "store" /\ stage' \in {"assemble", "store"}
      /\ UNCHANGED <<db, debs, original_files, rediverted, results, expected, answers>>
  BY DEF StoreResult
<1>2. PICK r \in uncached : /\ Remember(FormatPackage(Installed[r]), results[r])
                            /\ uncached' = uncached \ {r}
  BY DEF StoreResult
<1>3. /\ Installed' = Installed
      /\ uncached \subseteq DOMAIN Installed /\ DOMAIN results = DOMAIN Installed
  BY <1>1 DEF RunInv, StageInv, Installed
<1>4. CacheInv'
  <2>. DEFINE key == FormatPackage(Installed[r])
  <2>1. key \in CacheKeys /\ Archived[r] = UnpackedAt(key, Diversions)
    BY <1>2, <1>3, KeyOf
  <2>2. \A k \in CacheKeys : from_archives'[k] = from_archives[k] \/ (k = key /\ from_archives'[k] = results[r] /\ results[r].kind # "Error")
    BY <1>2 DEF Remember
  <2>3. ~rediverted /\ results[r].kind # "Error" => results[r] \in {Missing, Ok(UnpackedAt(key, Diversions))}
    BY <1>2, <1>3, <2>1 DEF RunInv, ResultsInv, Error
  <2>. HIDE DEF key
  <2>. QED  BY <1>1, <2>2, <2>3 DEF RunInv, CacheInv, Diversions
<1>5. ResultsInv' /\ ExpectedIsInstalled' /\ OriginalsAreInstalled'
  BY <1>1, FindingsStay DEF RunInv
<1>6. StageInv'
  BY <1>1, <1>2, <1>3 DEF StageInv
<1>. QED  BY <1>1, <1>4, <1>5, <1>6 DEF RunInv

\* The results are put together, or the database is asked for what is missing.
LEMMA AssembleRuns ==
    ASSUME RunInv, db \in DOMAIN Databases, Assemble
    PROVE  RunInv'
<1>1. /\ stage = "assemble" /\ stage' \in {"failed", "database", "panicked", "scanned"}
      /\ UNCHANGED <<db, debs, cacheVars, rediverted, results, uncached, answers>>
  BY DEF Assemble
<1>2. /\ Installed' = Installed /\ Archived' = Archived
      /\ uncached \subseteq DOMAIN Installed /\ DOMAIN results = DOMAIN Installed
  BY <1>1 DEF RunInv, StageInv, Installed, Archived
<1>3. CacheInv'
  BY <1>1, CachesStay DEF RunInv
<1>4. ResultsInv' /\ OriginalsAreInstalled' /\ debs' \subseteq DOMAIN Debs
  BY <1>1, <1>2 DEF RunInv, ResultsInv, OriginalsAreInstalled
<1>5. StageInv'
  <2>1. stage' = "database" => filter' = Everything
    BY DEF Assemble, ReadDatabase
  <2>. QED  BY <1>1, <1>2, <2>1 DEF StageInv
<1>6. ExpectedIsInstalled'
  <2>1. CASE stage' = "scanned"
    <3>1. MissingIds = {} /\ expected' \in ExpectedFrom({}, FromArchives)
      BY <2>1 DEF Assemble
    <3>. QED  BY <1>1, <1>2, <3>1, ScanOfArchives DEF RunInv
  <2>2. CASE stage' # "scanned"
    BY <2>2 DEF ExpectedIsInstalled
  <2>. QED  BY <2>1, <2>2
<1>. QED  BY <1>3, <1>4, <1>5, <1>6 DEF RunInv

\* Reading the database leaves what the archives said.
LEMMA ReadFilesRuns ==
    ASSUME RunInv, ReadFiles
    PROVE  RunInv'
<1>1. /\ UNCHANGED <<db, debs, cacheVars, stage, rediverted, results, uncached, expected, answers>>
      /\ filter' = filter
  BY DEF ReadFiles, FilesNext, MergeEntry, MergeConffile, FilterFiles
<1>2. CacheInv'
  BY <1>1, CachesStay DEF RunInv
<1>3. ResultsInv' /\ ExpectedIsInstalled' /\ OriginalsAreInstalled'
  BY <1>1, FindingsStay DEF RunInv
<1>4. StageInv'
  BY <1>1 DEF RunInv, StageInv, Installed
<1>. QED  BY <1>1, <1>2, <1>3, <1>4 DEF RunInv

\* What the database has is added.
LEMMA AssembleWithDatabaseRuns ==
    ASSUME RunInv, db \in DOMAIN Databases, MergeAgrees, AssembleWithDatabase
    PROVE  RunInv'
<1>1. /\ stage = "database" /\ stage' = "scanned" /\ files_stage = "done"
      /\ expected' \in ExpectedFrom(Extra, FromArchives)
      /\ UNCHANGED <<db, debs, cacheVars, rediverted, results, uncached, answers>>
  BY DEF AssembleWithDatabase
<1>2. /\ Installed' = Installed /\ Archived' = Archived /\ filter = Everything
      /\ uncached \subseteq DOMAIN Installed /\ DOMAIN results = DOMAIN Installed
  BY <1>1 DEF RunInv, StageInv, Installed, Archived
<1>3. CacheInv'
  BY <1>1, CachesStay DEF RunInv
<1>4. ResultsInv' /\ OriginalsAreInstalled' /\ debs' \subseteq DOMAIN Debs
  BY <1>1, <1>2 DEF RunInv, ResultsInv, OriginalsAreInstalled
<1>5. StageInv'
  BY <1>1, <1>2 DEF StageInv
<1>6. ExpectedIsInstalled'
  BY <1>1, <1>2, ScanWithDatabase DEF RunInv
<1>. QED  BY <1>3, <1>4, <1>5, <1>6 DEF RunInv

\* Original contents are read and remembered.
LEMMA QueryOriginalsRuns ==
    ASSUME RunInv, db \in DOMAIN Databases, QueryOriginals
    PROVE  RunInv'
<1>1. /\ stage = "scanned" /\ stage' \in {"failed", "scanned"}
      /\ UNCHANGED <<db, from_archives, rediverted, results, uncached, expected>>
  BY DEF QueryOriginals
<1>2. /\ Installed' = Installed /\ Archived' = Archived
      /\ uncached \subseteq DOMAIN Installed /\ DOMAIN results = DOMAIN Installed
  BY <1>1 DEF RunInv, StageInv, Installed, Archived
<1>3. PICK queries \in QuerySets :
         \E got \in SUBSET ((UNION {Downloadable(q.package) : q \in queries}) \ debs) :
            /\ debs' = debs \cup got
            /\ LET found == AnswerOriginals(queries, Installed, debs')
               IN IF found = None
                  THEN stage' = "failed" /\ UNCHANGED <<answers, original_files>>
                  ELSE /\ answers' = found
                       /\ RememberOriginals(found, Installed)
                       /\ UNCHANGED stage
  BY DEF QueryOriginals
<1>4. debs' \subseteq DOMAIN Debs
  <2>1. \A ref : Downloadable(ref) \subseteq DOMAIN Debs
    BY DebAssumption DEF Downloadable
  <2>2. PICK got : /\ got \in SUBSET ((UNION {Downloadable(q.package) : q \in queries}) \ debs)
                   /\ debs' = debs \cup got
    BY <1>3
  <2>3. got \subseteq DOMAIN Debs
    BY <2>1, <2>2
  <2>. QED  BY <2>2, <2>3 DEF RunInv
<1>5. ResultsInv' /\ ExpectedIsInstalled'
  <2>1. ResultsInv'
    BY <1>1, <1>2 DEF RunInv, ResultsInv
  <2>. QED  BY <1>1, <2>1, ExpectedStays DEF RunInv
<1>6. StageInv'
  BY <1>1, <1>2 DEF StageInv
<1>. DEFINE found == AnswerOriginals(queries, Installed, debs')
<1>7. CASE found = None
  <2>1. UNCHANGED <<answers, original_files>>
    BY <1>3, <1>7
  <2>2. OriginalsAreInstalled'
    BY <1>2, <2>1 DEF RunInv, OriginalsAreInstalled
  <2>3. CacheInv'
    BY <1>1, <2>1, CachesStay DEF RunInv, cacheVars
  <2>. QED  BY <1>4, <1>5, <1>6, <2>2, <2>3 DEF RunInv
<1>8. CASE found # None
  <2>1. answers' = found /\ RememberOriginals(found, Installed)
    BY <1>3, <1>8
  <2>2. /\ DOMAIN found = queries
        /\ \A q \in queries : q.package \in DOMAIN Installed =>
              OriginalOf(DebOf(Installed[q.package]), q.path, found[q])
    BY <1>4, <1>8, AnswersAre DEF RunInv
  <2>3. OriginalsAreInstalled'
    BY <1>2, <2>1, <2>2 DEF OriginalsAreInstalled, OriginalOf
  <2>4. \A k \in CacheKeys : \A p \in Path :
           original_files'[k][p] # None => OriginalOf(k, p, original_files'[k][p])
    BY <2>1, <2>2, RememberedOriginals DEF RunInv
  <2>5. CacheInv'
    BY <1>1, <2>4 DEF RunInv, CacheInv, Diversions
  <2>. QED  BY <1>4, <1>5, <1>6, <2>3, <2>5 DEF RunInv
<1>. QED  BY <1>7, <1>8

\* paketkoll has no results of archives, and when a run ends none are left.
LEMMA StartOrEndRuns ==
    ASSUME RunInv, StartCheck \/ EndRun
    PROVE  RunInv'
<1>1. UNCHANGED <<db, debs, cacheVars, rediverted>>
  BY DEF StartCheck, EndRun
<1>2. CacheInv'
  BY <1>1, CachesStay DEF RunInv
<1>3. /\ results' = NoResult /\ answers' = NoResult /\ uncached' = {}
      /\ stage' \in {"check", "failed", "idle"}
  BY DEF RunInv, StageInv, StartCheck, EndRun, Forget
<1>4. ResultsInv' /\ ExpectedIsInstalled' /\ OriginalsAreInstalled'
  BY <1>3, NothingFound
<1>5. StageInv'
  BY <1>3 DEF StageInv
<1>. QED  BY <1>1, <1>2, <1>4, <1>5 DEF RunInv

-----------------------------------------------------------------------------
(* The theorems *)

\* There is nothing in the caches at first.
LEMMA InitRuns ==
    ASSUME Init
    PROVE  RunInv
<1>1. ExpectedStart
  BY DEF Init, AptInit, SystemdTmpfilesInit, ExpectedInit
<1>2. /\ debs = DOMAIN Debs /\ stage = "idle"
      /\ results = NoResult /\ uncached = {} /\ answers = NoResult /\ CachesEmpty
  BY <1>1 DEF ExpectedStart
<1>3. CacheInv
  BY <1>2 DEF CacheInv, CachesEmpty
<1>4. DOMAIN NoResult = {}
  BY DEF NoResult
<1>. QED  BY <1>2, <1>3, <1>4 DEF RunInv, ResultsInv, StageInv, ExpectedIsInstalled, OriginalsAreInstalled

\* Every step preserves the invariant, given that of the merge of the database.
LEMMA NextRuns ==
    ASSUME FilesInv, RunInv, [Next]_vars
    PROVE  RunInv'
<1>1. CASE AptNext
  <2>1. db \in DOMAIN Databases /\ MergeAgrees /\ ExpectedNext
    BY <1>1 DEF AptNext, FilesInv
  <2>. QED  BY <2>1, BetweenRuns, StartScanRuns, FetchArchivesRuns, StoreResultRuns, AssembleRuns,
               ReadFilesRuns, AssembleWithDatabaseRuns, QueryOriginalsRuns, StartOrEndRuns
            DEF ExpectedNext
<1>2. CASE SystemdTmpfilesNext \/ UNCHANGED vars
  <2>1. UNCHANGED expectedVars
    BY <1>2 DEF SystemdTmpfilesNext, vars
  <2>2. UNCHANGED <<db, debs, cacheVars, rediverted, results, uncached, expected, answers, stage, filter>>
    BY <2>1 DEF expectedVars, filesVars
  <2>3. CacheInv' /\ ResultsInv' /\ ExpectedIsInstalled' /\ OriginalsAreInstalled'
    BY <2>2, CachesStay, FindingsStay DEF RunInv
  <2>4. StageInv'
    BY <2>2 DEF RunInv, StageInv, Installed
  <2>. QED  BY <2>2, <2>3, <2>4 DEF RunInv
<1>. QED  BY <1>1, <1>2 DEF Next

\* files_from_archives and file_vec_from_archive, behind FromArchiveCache: whatever the
\* caches kept from earlier runs, whichever archives are there, can be downloaded or are
\* gone, and wherever earlier runs were stopped, the files expected after a scan are
\* those of the installed versions of the packages.
THEOREM ScansAsInstalled == Spec => []ExpectedIsInstalled
<1>1. Init => FilesInv /\ RunInv
  BY InitFiles, InitRuns
<1>2. FilesInv /\ RunInv /\ [Next]_vars => FilesInv' /\ RunInv'
  BY NextFiles, NextRuns
<1>3. RunInv => ExpectedIsInstalled
  BY DEF RunInv
<1>. QED  BY <1>1, <1>2, <1>3, PTL DEF Spec

\* original_files, behind OriginalFilesCache: what is answered for a file of an installed
\* package is what the archive of the installed version has at that path, also if it was
\* read in an earlier run and the package was upgraded, or downgraded, since.
THEOREM OriginalsAsInstalled == Spec => []OriginalsAreInstalled
<1>1. Init => FilesInv /\ RunInv
  BY InitFiles, InitRuns
<1>2. FilesInv /\ RunInv /\ [Next]_vars => FilesInv' /\ RunInv'
  BY NextFiles, NextRuns
<1>3. RunInv => OriginalsAreInstalled
  BY DEF RunInv
<1>. QED  BY <1>1, <1>2, <1>3, PTL DEF Spec

-----------------------------------------------------------------------------
(* What lines say *)

\* What is kept of a path is an entry of this form.
IsFile(f) ==
    /\ f = FileOf(f.props, f.ok_if_missing)
    /\ f.props = Props(f.props.kind, f.props.mode, f.props.owner, f.props.group, f.props.data)
    /\ f.ok_if_missing \in BOOLEAN

IsPermissions(f) == IsFile(f) /\ f.props.kind = "Permissions" /\ f.props.data = None

\* Of the first k lines, those that say something of p: adjust it, or make it.
About(p, k) == {n \in 1 .. k : ~Skipped(tmpfiles_config[n]) /\ Says(n, p) # {}}

Adjusting(p, k) == {n \in About(p, k) : tmpfiles_config[n].type \in Adjusts}

Making(p, k) == About(p, k) \ Adjusting(p, k)

\* AsSaid, of any files and lines.
Stands(files, p, make, adjust) ==
    LET later   == {n \in adjust : \A m \in make : n > m}
        made    == Said(Max(make), p)
        last    == Said(Max(later), p).props
        settled == later = {} \/ made.props.kind = "Removed"
    IN  /\ p \in DOMAIN files <=> make \cup adjust # {}
        /\ make = {} /\ adjust # {} =>
              files[p] = FileOf(last, Said(Min(adjust), p).ok_if_missing)
        /\ make # {} /\ settled => files[p] = made
        /\ make # {} /\ ~settled =>
              /\ files[p].ok_if_missing = made.ok_if_missing
              /\ files[p].props.data = made.props.data
              /\ files[p].props.owner = last.owner
              /\ files[p].props.group = last.group
              /\ made.props.kind # "Symlink" => files[p].props.mode = last.mode
              /\ files[p].props.kind = IF made.props.kind = "RegularFileBasic"
                                       THEN "RegularFileSystemd" ELSE made.props.kind

\* AsSaid is that, of the files and the lines that make the path or adjust it.
LEMMA AsSaidIs ==
    ASSUME NEW p, NEW k
    PROVE  AsSaid(p, k) <=> Stands(tmpfiles, p, Making(p, k), Adjusting(p, k))
<1>1. Making(p, k) \cup Adjusting(p, k) = About(p, k)
  BY DEF Making, Adjusting
<1>. QED  BY <1>1 DEF AsSaid, Stands, About, Making, Adjusting

\* After a step too, while the lines are the same ones.
LEMMA AsSaidNext ==
    ASSUME NEW p, NEW k, UNCHANGED tmpfiles_config
    PROVE  AsSaid(p, k)' <=> Stands(tmpfiles', p, Making(p, k), Adjusting(p, k))
<1>1. \A n : Says(n, p)' = Says(n, p)
  BY DEF Says
<1>2. \A n : Said(n, p)' = Said(n, p)
  BY <1>1 DEF Said
<1>3. Making(p, k)' = Making(p, k) /\ Adjusting(p, k)' = Adjusting(p, k)
  BY <1>1 DEF Making, Adjusting, About
<1>4. Making(p, k)' \cup Adjusting(p, k)' = About(p, k)'
  BY DEF Making, Adjusting
<1>5. AsSaid(p, k)' <=> Stands(tmpfiles, p, Making(p, k), Adjusting(p, k))'
  BY <1>4 DEF AsSaid, Stands, About, Making, Adjusting
<1>6. Stands(tmpfiles, p, Making(p, k), Adjusting(p, k))' <=> Stands(tmpfiles', p, Making(p, k), Adjusting(p, k))
  BY <1>2, <1>3 DEF Stands
<1>. QED  BY <1>5, <1>6

\* A line that makes the path decides.
LEMMA StandsMade ==
    ASSUME NEW k \in Nat, NEW p, NEW files, NEW make, NEW adjust,
           make \subseteq 1 .. k, adjust \subseteq 1 .. k,
           p \in DOMAIN files, files[p] = Said(k + 1, p)
    PROVE  Stands(files, p, make \cup {k + 1}, adjust)
<1>1. Max(make \cup {k + 1}) = k + 1
  BY MaxIsLater
<1>2. {n \in adjust : \A m \in make \cup {k + 1} : n > m} = {}
  <2>1. \A n \in adjust : ~(n > k + 1)
    OBVIOUS
  <2>. QED  BY <2>1
<1>. QED  BY <1>1, <1>2 DEF Stands

\* A line that adjusts the path does so to what there is.
LEMMA StandsAdjusted ==
    ASSUME NEW k \in Nat, NEW p, NEW files, NEW after, NEW make, NEW adjust,
           make \subseteq 1 .. k, adjust \subseteq 1 .. k,
           Stands(files, p, make, adjust),
           p \in DOMAIN files => IsFile(files[p]),
           \A n \in adjust \cup {k + 1} : IsPermissions(Said(n, p)),
           \A n \in make : IsFile(Said(n, p)),
           p \in DOMAIN after,
           after[p] = IF p \in DOMAIN files
                      THEN [files[p] EXCEPT !.props = WithPermissions(@, Said(k + 1, p).props)]
                      ELSE Said(k + 1, p)
    PROVE  Stands(after, p, make, adjust \cup {k + 1})
<1>. DEFINE more   == adjust \cup {k + 1}
            later  == {n \in adjust : \A m \in make : n > m}
            later2 == {n \in more : \A m \in make : n > m}
            made   == Said(Max(make), p)
            new    == Said(k + 1, p)
<1>1. later2 = later \cup {k + 1} /\ later \subseteq 1 .. k
  OBVIOUS
<1>2. Max(later2) = k + 1
  BY <1>1, MaxIsLater
<1>3. IsPermissions(new)
  OBVIOUS
<1>4. CASE make = {} /\ adjust = {}
  <2>1. after[p] = new
    BY <1>4 DEF Stands
  <2>2. Min(more) = k + 1
    BY <1>4, MinOfOne
  <2>3. after[p] = FileOf(new.props, new.ok_if_missing)
    BY <1>3, <2>1 DEF IsPermissions, IsFile
  <2>. QED  BY <1>1, <1>2, <1>4, <2>2, <2>3 DEF Stands
<1>5. CASE make = {} /\ adjust # {}
  <2>. DEFINE last == Said(Max(later), p)
  <2>1. p \in DOMAIN files /\ files[p] = FileOf(last.props, Said(Min(adjust), p).ok_if_missing)
    BY <1>5 DEF Stands
  <2>2. Min(more) = Min(adjust)
    BY <1>5, MinStays
  <2>3. IsPermissions(last)
    <3>1. later = adjust /\ later \in SUBSET (0 .. k)
      BY <1>5
    <3>2. Max(later) \in adjust
      BY <1>5, <3>1, Greatest
    <3>. QED  BY <3>2
  <2>4. WithPermissions(last.props, new.props) = new.props
    BY <1>3, <2>3 DEF IsPermissions, IsFile, WithPermissions, Props
  <2>5. after[p] = FileOf(new.props, Said(Min(adjust), p).ok_if_missing)
    BY <2>1, <2>4 DEF FileOf
  <2>. QED  BY <1>1, <1>2, <1>5, <2>2, <2>5 DEF Stands
<1>6. CASE make # {} /\ made.props.kind = "Removed"
  <2>1. p \in DOMAIN files /\ files[p] = made
    BY <1>6 DEF Stands
  <2>2. after[p] = made
    BY <1>6, <2>1 DEF IsFile, WithPermissions, FileOf
  <2>. QED  BY <1>6, <2>2 DEF Stands
<1>7. CASE make # {} /\ made.props.kind # "Removed"
  <2>. DEFINE old  == files[p].props
              last == Said(Max(later), p).props
              now  == after[p].props
  <2>1. p \in DOMAIN files /\ IsFile(files[p])
    BY <1>7 DEF Stands
  <2>2. /\ after[p] = FileOf(now, files[p].ok_if_missing)
        /\ now = WithPermissions(old, new.props)
    BY <2>1 DEF IsFile, FileOf
  <2>3. /\ files[p].ok_if_missing = made.ok_if_missing
        /\ old.data = made.props.data
        /\ old.kind = IF later # {} /\ made.props.kind = "RegularFileBasic"
                      THEN "RegularFileSystemd" ELSE made.props.kind
    BY <1>7 DEF Stands
  <2>4. /\ now.data = old.data
        /\ now.owner = new.props.owner /\ now.group = new.props.group
        /\ old.kind # "Symlink" => now.mode = new.props.mode
        /\ now.kind = IF old.kind = "RegularFileBasic" THEN "RegularFileSystemd" ELSE old.kind
    <3>1. old = Props(old.kind, old.mode, old.owner, old.group, old.data)
      BY <2>1 DEF IsFile
    <3>2. new.props = Props(new.props.kind, new.props.mode, new.props.owner, new.props.group, new.props.data)
      BY <1>3 DEF IsPermissions, IsFile
    <3>3. old.kind # "Removed"
      BY <1>7, <2>3
    <3>. HIDE DEF old, new, now
    <3>. QED  BY <2>2, <3>1, <3>2, <3>3 DEF WithPermissions, Props
  <2>5. after[p].ok_if_missing = made.ok_if_missing
    BY <2>2, <2>3 DEF FileOf
  <2>6. now.kind = IF made.props.kind = "RegularFileBasic" THEN "RegularFileSystemd" ELSE made.props.kind
    BY <2>3, <2>4
  <2>7. later2 # {}
    BY <1>1
  <2>. QED  BY <1>2, <1>7, <2>3, <2>4, <2>5, <2>6, <2>7 DEF Stands
<1>. QED  BY <1>4, <1>5, <1>6, <1>7

-----------------------------------------------------------------------------
(* What a line does *)

\* The ids that were looked up are those of the host.
HostCached == \A key \in DOMAIN id_cache : key \in DOMAIN HostIds /\ id_cache[key] = HostIds[key]

TmpfilesInv ==
    /\ tmpfiles_config \in TmpfilesConfigs
    /\ tmpfiles_stage \in {"idle", "process", "done", "failed"}
    /\ position \in 1 .. Len(tmpfiles_config) + 1
    /\ HostCached
    /\ DOMAIN tmpfiles \subseteq Path /\ \A p \in DOMAIN tmpfiles : IsFile(tmpfiles[p])
    /\ tmpfiles_stage = "idle" => position = 1 /\ tmpfiles = NoTmpfiles
    /\ \A p \in Path : AsSaid(p, position - 1)
    /\ \A p \in Path :
          /\ \A n \in About(p, position - 1) : IsFile(Said(n, p))
          /\ \A n \in Adjusting(p, position - 1) : IsPermissions(Said(n, p))
    /\ tmpfiles_stage \in {"process", "done"} => ParseTmpfiles(tmpfiles_config)
    /\ tmpfiles_stage = "done" => position = Len(tmpfiles_config) + 1

\* Adjusted, it is of the same form.
LEMMA AdjustedIsFile ==
    ASSUME NEW f, NEW g, IsFile(f), IsFile(g)
    PROVE  IsFile([f EXCEPT !.props = WithPermissions(@, g.props)])
<1>. DEFINE old == f.props
            new == g.props
            now == WithPermissions(old, new)
<1>1. [f EXCEPT !.props = now] = FileOf(now, f.ok_if_missing) /\ f.ok_if_missing \in BOOLEAN
  BY DEF IsFile, FileOf
<1>2. /\ old = Props(old.kind, old.mode, old.owner, old.group, old.data)
      /\ new = Props(new.kind, new.mode, new.owner, new.group, new.data)
  BY DEF IsFile
<1>. HIDE DEF old, new
<1>3. now = Props(now.kind, now.mode, now.owner, now.group, now.data)
  BY <1>2 DEF WithPermissions, Props
<1>. HIDE DEF now
<1>4. IsFile(FileOf(now, f.ok_if_missing))
  BY <1>1, <1>3 DEF IsFile, FileOf
<1>. QED  BY <1>1, <1>4 DEF now, old, new

\* The next line says f of p, or nothing, and that is done.
Heeded(p) ==
    LET n == position
        f == Said(n, p)
    IN  IF ~Skipped(tmpfiles_config[n]) /\ Says(n, p) # {}
        THEN /\ IsFile(f)
             /\ tmpfiles_config[n].type \in Adjusts => IsPermissions(f)
             /\ p \in DOMAIN tmpfiles'
             /\ tmpfiles'[p] = IF p \in DOMAIN tmpfiles /\ tmpfiles_config[n].type \in Adjusts
                               THEN [tmpfiles[p] EXCEPT !.props = WithPermissions(@, f.props)]
                               ELSE f
        ELSE /\ p \in DOMAIN tmpfiles' <=> p \in DOMAIN tmpfiles
             /\ p \in DOMAIN tmpfiles => tmpfiles'[p] = tmpfiles[p]

\* When each path is heeded, the files are what was said.
LEMMA HeededIsSaid ==
    ASSUME NEW n, n = position,
           TmpfilesInv, NextEntry, n <= Len(tmpfiles_config), tmpfiles_stage = "process",
           HostCached', DOMAIN tmpfiles' \subseteq Path, \A p \in Path : Heeded(p)
    PROVE  TmpfilesInv'
<1>1. n \in Nat \ {0} /\ Len(tmpfiles_config) \in Nat /\ n - 1 \in Nat
  <2>1. tmpfiles_config \in Seq(Lines)
    BY TmpfilesAssumption DEF TmpfilesInv
  <2>. QED  BY <2>1 DEF TmpfilesInv
<1>2. /\ UNCHANGED <<tmpfiles_config, tmpfiles_stage>> /\ position' = n + 1 /\ position' - 1 = n
      /\ position' \in 1 .. Len(tmpfiles_config) + 1
  BY <1>1 DEF NextEntry
<1>. DEFINE k == n - 1
<1>3. ASSUME NEW p \in Path
      PROVE  /\ AsSaid(p, n)'
             /\ \A m \in About(p, n) : IsFile(Said(m, p))
             /\ \A m \in Adjusting(p, n) : IsPermissions(Said(m, p))
             /\ p \in DOMAIN tmpfiles' => IsFile(tmpfiles'[p])
  <2>. DEFINE f == Said(n, p)
  <2>1. /\ Stands(tmpfiles, p, Making(p, k), Adjusting(p, k))
        /\ Making(p, k) \subseteq 1 .. k /\ Adjusting(p, k) \subseteq 1 .. k
        /\ \A m \in About(p, k) : IsFile(Said(m, p))
        /\ \A m \in Adjusting(p, k) : IsPermissions(Said(m, p))
    BY AsSaidIs DEF TmpfilesInv, Making, Adjusting, About
  <2>2. AsSaid(p, n)' <=> Stands(tmpfiles', p, Making(p, n), Adjusting(p, n))
    BY <1>2, AsSaidNext
  <2>3. 1 .. n = (1 .. k) \cup {n} /\ n = k + 1 /\ k \in Nat
    BY <1>1
  <2>4. p \in DOMAIN tmpfiles => IsFile(tmpfiles[p])
    BY DEF TmpfilesInv
  <2>5. CASE Skipped(tmpfiles_config[n]) \/ Says(n, p) = {}
    <3>1. About(p, n) = About(p, k)
      BY <2>3, <2>5 DEF About
    <3>2. Making(p, n) = Making(p, k) /\ Adjusting(p, n) = Adjusting(p, k)
      BY <3>1 DEF Making, Adjusting
    <3>3. /\ p \in DOMAIN tmpfiles' <=> p \in DOMAIN tmpfiles
          /\ p \in DOMAIN tmpfiles => tmpfiles'[p] = tmpfiles[p]
      BY <2>5 DEF Heeded
    <3>4. Stands(tmpfiles', p, Making(p, k), Adjusting(p, k))
      BY <2>1, <3>3 DEF Stands
    <3>. QED  BY <2>1, <2>2, <2>4, <3>1, <3>2, <3>3, <3>4
  <2>6. CASE ~(Skipped(tmpfiles_config[n]) \/ Says(n, p) = {})
    <3>1. About(p, n) = About(p, k) \cup {n}
      BY <2>3, <2>6 DEF About
    <3>2. /\ IsFile(f) /\ p \in DOMAIN tmpfiles'
          /\ tmpfiles_config[n].type \in Adjusts => IsPermissions(f)
          /\ tmpfiles'[p] = IF p \in DOMAIN tmpfiles /\ tmpfiles_config[n].type \in Adjusts
                            THEN [tmpfiles[p] EXCEPT !.props = WithPermissions(@, f.props)]
                            ELSE f
      BY <2>6 DEF Heeded
    <3>3. \A m \in About(p, n) : IsFile(Said(m, p))
      BY <2>1, <3>1, <3>2
    <3>4. CASE tmpfiles_config[n].type \in Adjusts
      <4>1. Making(p, n) = Making(p, k) /\ Adjusting(p, n) = Adjusting(p, k) \cup {n}
        <5>1. n \notin About(p, k)
          BY <1>1 DEF About
        <5>. QED  BY <3>1, <3>4, <5>1 DEF Making, Adjusting
      <4>2. \A m \in Adjusting(p, n) : IsPermissions(Said(m, p))
        BY <2>1, <3>2, <3>4, <4>1
      <4>3. \A m \in Making(p, k) : IsFile(Said(m, p))
        BY <2>1 DEF Making
      <4>4. Stands(tmpfiles', p, Making(p, k), Adjusting(p, k) \cup {n})
        BY <2>1, <2>3, <2>4, <3>2, <3>4, <4>1, <4>2, <4>3, StandsAdjusted
      <4>5. IsFile(tmpfiles'[p])
        <5>1. CASE p \in DOMAIN tmpfiles
          <6>1. /\ IsFile(tmpfiles[p]) /\ IsFile(f)
                /\ tmpfiles'[p] = [tmpfiles[p] EXCEPT !.props = WithPermissions(@, f.props)]
            BY <2>4, <3>2, <3>4, <5>1
          <6>. QED  BY <6>1, AdjustedIsFile
        <5>2. CASE p \notin DOMAIN tmpfiles
          BY <3>2, <5>2
        <5>. QED  BY <5>1, <5>2
      <4>. QED  BY <2>2, <3>3, <4>1, <4>2, <4>4, <4>5
    <3>5. CASE tmpfiles_config[n].type \notin Adjusts
      <4>1. Making(p, n) = Making(p, k) \cup {n} /\ Adjusting(p, n) = Adjusting(p, k)
        <5>1. n \notin About(p, k)
          BY <1>1 DEF About
        <5>. QED  BY <3>1, <3>5, <5>1 DEF Making, Adjusting
      <4>2. tmpfiles'[p] = f
        BY <3>2, <3>5
      <4>3. Stands(tmpfiles', p, Making(p, k) \cup {n}, Adjusting(p, k))
        BY <2>1, <2>3, <3>2, <4>2, StandsMade
      <4>. QED  BY <2>1, <2>2, <3>2, <3>3, <4>1, <4>2, <4>3
    <3>. QED  BY <3>4, <3>5
  <2>. QED  BY <2>5, <2>6
<1>4. ASSUME NEW p \in Path
      PROVE  /\ \A m \in About(p, n)' : IsFile(Said(m, p)')
             /\ \A m \in Adjusting(p, n)' : IsPermissions(Said(m, p)')
  <2>1. \A m : Says(m, p)' = Says(m, p)
    BY <1>2 DEF Says
  <2>2. \A m : Said(m, p)' = Said(m, p)
    BY <2>1 DEF Said
  <2>3. About(p, n)' = About(p, n) /\ Adjusting(p, n)' = Adjusting(p, n)
    BY <1>2, <2>1 DEF About, Adjusting
  <2>. QED  BY <1>3, <2>2, <2>3
<1>. HIDE DEF k
<1>. QED  BY <1>1, <1>2, <1>3, <1>4 DEF TmpfilesInv

\* The line at a position is one of those there are, and a directive.
LEMMA LineIs ==
    ASSUME NEW n, n = position, TmpfilesInv, n <= Len(tmpfiles_config), tmpfiles_stage = "process"
    PROVE  /\ tmpfiles_config[n] \in Lines
           /\ IsDirective(tmpfiles_config[n])
<1>1. tmpfiles_config \in Seq(Lines) /\ n \in Nat \ {0}
  <2>1. tmpfiles_config \in Seq(Lines)
    BY TmpfilesAssumption DEF TmpfilesInv
  <2>. QED  BY <2>1 DEF TmpfilesInv
<1>2. n \in DOMAIN tmpfiles_config
  BY <1>1
<1>. QED  BY <1>1, <1>2 DEF TmpfilesInv, ParseTmpfiles

\* What is looked up is what the host says, and so is what is remembered of it.
LEMMA LookedUp ==
    ASSUME NEW cache, NEW kind, NEW id,
           \A key \in DOMAIN cache : key \in DOMAIN HostIds /\ cache[key] = HostIds[key],
           id.kind = "Name" => CacheKey(kind, id.name) \in DOMAIN HostIds
    PROVE  /\ ResolveId(cache, kind, id) = HostId(kind, id)
           /\ \A key \in DOMAIN Cached(cache, kind, id) :
                 key \in DOMAIN HostIds /\ Cached(cache, kind, id)[key] = HostIds[key]
<1>1. Lookup(<<>>, kind, id.name) = HostIds[<<kind, id.name>>]
  <2>1. CacheKey(kind, id.name) \notin DOMAIN <<>>
    OBVIOUS
  <2>. QED  BY <2>1 DEF Lookup
<1>2. id.kind = "Name" => Lookup(cache, kind, id.name) = HostIds[<<kind, id.name>>]
  BY DEF Lookup, CacheKey
<1>3. ResolveId(cache, kind, id) = HostId(kind, id)
  BY <1>1, <1>2 DEF ResolveId, HostId
<1>4. \A key \in DOMAIN Cached(cache, kind, id) :
         key \in DOMAIN HostIds /\ Cached(cache, kind, id)[key] = HostIds[key]
  BY DEF Cached, CacheKey
<1>. QED  BY <1>3, <1>4

\* The entry of a line is of the right form, and adjusts if the line does.
LEMMA PropsAre ==
    ASSUME NEW line, NEW uid, NEW gid
    PROVE  LET f == FileOf(PropsOf(line, uid, gid), OkIfMissing(line))
           IN /\ IsFile(f)
              /\ line.type \in Adjusts => IsPermissions(f)
              /\ line.type \in {"f", "F", "w", "d", "D", "v", "q", "Q", "p", "L", "c", "b", "r", "R"} =>
                    f.props.kind # "Permissions"
<1>. DEFINE props == PropsOf(line, uid, gid)
            ok    == OkIfMissing(line)
<1>1. props = Props(props.kind, props.mode, props.owner, props.group, props.data)
  BY DEF PropsOf, Props
<1>2. line.type \in Adjusts => props.kind = "Permissions" /\ props.data = None
  <2>. HIDE DEF ok
  <2>1. line.type \in Adjusts => DataOf(line) = None
    BY DEF Adjusts, DataOf, DataText
  <2>2. line.type \in Adjusts => KindOf(line) = "Permissions"
    BY DEF Adjusts, KindOf
  <2>3. line.type \in Adjusts => props = Props(KindOf(line), ModeOf(line), uid, gid, DataOf(line))
    BY DEF PropsOf, Owned, Adjusts
  <2>. HIDE DEF props
  <2>. QED  BY <2>1, <2>2, <2>3 DEF Props
<1>3. line.type \in {"f", "F", "w", "d", "D", "v", "q", "Q", "p", "L", "c", "b", "r", "R"} =>
         props.kind # "Permissions"
  <2>1. line.type \in {"f", "F", "w", "d", "D", "v", "q", "Q", "p", "L", "c", "b", "r", "R"} =>
           KindOf(line) # "Permissions"
    <3>. HIDE DEF props, ok
    <3>. QED  BY DEF KindOf, Adjusts
  <2>. QED  BY <2>1 DEF PropsOf, Props
<1>4. ok \in BOOLEAN
  BY DEF OkIfMissing
<1>. HIDE DEF props, ok
<1>5. IsFile(FileOf(props, ok)) /\ FileOf(props, ok).props = props
  BY <1>1, <1>4 DEF IsFile, FileOf
<1>. QED  BY <1>2, <1>3, <1>5 DEF IsPermissions, props, ok

\* A line that is skipped says nothing.
LEMMA SkipEntryKeeps ==
    ASSUME TmpfilesInv, SkipEntry
    PROVE  TmpfilesInv'
<1>1. PICK n : n = position
  OBVIOUS
<1>2. /\ NextEntry /\ n <= Len(tmpfiles_config) /\ tmpfiles_stage = "process"
      /\ Skipped(tmpfiles_config[n]) /\ UNCHANGED <<id_cache, tmpfiles>>
  BY <1>1 DEF SkipEntry, At
<1>3. HostCached' /\ DOMAIN tmpfiles' \subseteq Path
  BY <1>2 DEF TmpfilesInv, HostCached
<1>4. \A p \in Path : Heeded(p)
  BY <1>1, <1>2 DEF Heeded
<1>. QED  BY <1>1, <1>2, <1>3, <1>4, HeededIsSaid

\* Nothing is said while the stage changes only.
LEMMA StageChanges ==
    ASSUME TmpfilesInv, UNCHANGED <<tmpfiles_config, position, id_cache, tmpfiles>>,
           tmpfiles_stage' \in {"idle", "process", "done", "failed"},
           tmpfiles_stage' = "idle" => tmpfiles_stage = "idle",
           tmpfiles_stage' \in {"process", "done"} => ParseTmpfiles(tmpfiles_config),
           tmpfiles_stage' = "done" => position = Len(tmpfiles_config) + 1
    PROVE  TmpfilesInv'
<1>1. PICK k : k = position - 1
  OBVIOUS
<1>2. position' - 1 = k
  BY <1>1
<1>3. ASSUME NEW p \in Path
      PROVE  /\ AsSaid(p, k)'
             /\ \A n \in About(p, k)' : IsFile(Said(n, p)')
             /\ \A n \in Adjusting(p, k)' : IsPermissions(Said(n, p)')
  <2>1. \A n : Says(n, p)' = Says(n, p)
    BY DEF Says
  <2>2. \A n : Said(n, p)' = Said(n, p)
    BY <2>1 DEF Said
  <2>3. About(p, k)' = About(p, k) /\ Adjusting(p, k)' = Adjusting(p, k)
    BY <2>1 DEF About, Adjusting
  <2>4. AsSaid(p, k)' <=> AsSaid(p, k)
    <3>1. AsSaid(p, k)' <=> Stands(tmpfiles', p, Making(p, k), Adjusting(p, k))
      BY AsSaidNext
    <3>2. tmpfiles' = tmpfiles
      OBVIOUS
    <3>. QED  BY <3>1, <3>2, AsSaidIs
  <2>5. /\ AsSaid(p, k)
        /\ \A n \in About(p, k) : IsFile(Said(n, p))
        /\ \A n \in Adjusting(p, k) : IsPermissions(Said(n, p))
    BY <1>1 DEF TmpfilesInv
  <2>. QED  BY <2>2, <2>3, <2>4, <2>5
<1>4. HostCached'
  BY DEF TmpfilesInv, HostCached
<1>. QED  BY <1>2, <1>3, <1>4 DEF TmpfilesInv, ParseTmpfiles

\* A line that fails ends it.
LEMMA FailEntryKeeps ==
    ASSUME TmpfilesInv, FailEntry
    PROVE  TmpfilesInv'
  BY StageChanges DEF FailEntry

\* Any other type than C.
LEMMA ProcessEntryKeeps ==
    ASSUME TmpfilesInv, ProcessEntry
    PROVE  TmpfilesInv'
<1>1. PICK n : n = position
  OBVIOUS
<1>. DEFINE line  == tmpfiles_config[n]
            uid   == ResolveId(id_cache, "User", line.user)
            users == Cached(id_cache, "User", line.user)
            gid   == ResolveId(users, "Group", line.group)
            owned == line.type \in Owned
            path  == Resolved[line.path]
<1>2. /\ n <= Len(tmpfiles_config) /\ tmpfiles_stage = "process"
      /\ line.type \in LineTypes \ {"C"} /\ ~Skipped(line)
      /\ IF (\E t \in Texts(line) : Resolved[t] = None) \/ (owned /\ None \in {uid, gid})
         THEN FailEntry
         ELSE /\ id_cache' = IF owned THEN Cached(users, "Group", line.group) ELSE id_cache
              /\ tmpfiles' = DoInsert(tmpfiles, path, PropsOf(line, uid, gid), OkIfMissing(line))
              /\ NextEntry
  BY <1>1 DEF ProcessEntry, At
<1>3. line \in Lines /\ IsDirective(line)
  BY <1>1, <1>2, LineIs
<1>4. SUFFICES ASSUME ~((\E t \in Texts(line) : Resolved[t] = None) \/ (owned /\ None \in {uid, gid}))
               PROVE  TmpfilesInv'
  BY <1>2, FailEntryKeeps
<1>5. path \in Path
  <2>1. line.path \in Texts(line)
    BY DEF Texts
  <2>. QED  BY <1>2, <1>3, <1>4, <2>1, TmpfilesAssumption
<1>6. /\ line.user.kind = "Name" => CacheKey("User", line.user.name) \in DOMAIN HostIds
      /\ line.group.kind = "Name" => CacheKey("Group", line.group.name) \in DOMAIN HostIds
  BY <1>3, TmpfilesAssumption
<1>7. /\ uid = HostId("User", line.user) /\ gid = HostId("Group", line.group)
      /\ HostCached'
  <2>1. /\ uid = HostId("User", line.user)
        /\ \A key \in DOMAIN users : key \in DOMAIN HostIds /\ users[key] = HostIds[key]
    BY <1>6, LookedUp DEF TmpfilesInv, HostCached
  <2>2. /\ gid = HostId("Group", line.group)
        /\ \A key \in DOMAIN Cached(users, "Group", line.group) :
              key \in DOMAIN HostIds /\ Cached(users, "Group", line.group)[key] = HostIds[key]
    BY <1>6, <2>1, LookedUp
  <2>. QED  BY <1>2, <1>4, <2>1, <2>2 DEF TmpfilesInv, HostCached
<1>. DEFINE props == PropsOf(line, uid, gid)
            ok    == OkIfMissing(line)
            f     == FileOf(props, ok)
<1>8. /\ tmpfiles' = DoInsert(tmpfiles, path, props, ok) /\ NextEntry
      /\ f.props = props
  BY <1>2, <1>4 DEF FileOf
<1>9. line.type \in {"f", "F", "w", "d", "D", "v", "q", "Q", "p", "L", "c", "b", "r", "R"} \cup Adjusts
  <2>1. path # None
    BY <1>4 DEF Texts
  <2>2. line.type \notin {"x", "X", "t", "T", "h", "H", "a", "A"}
    BY <1>2, <2>1 DEF Skipped
  <2>. QED  BY <1>2, <2>2 DEF LineTypes, TakesPlus, Adjusts
<1>10. /\ IsFile(f)
       /\ line.type \in Adjusts => IsPermissions(f)
       /\ props.kind = "Permissions" <=> line.type \in Adjusts
  <2>1. line.type \in Adjusts => props.kind = "Permissions"
    BY <1>8, PropsAre DEF IsPermissions
  <2>. QED  BY <1>8, <1>9, <2>1, PropsAre
<1>11. ASSUME NEW p \in Path PROVE Heeded(p)
  <2>1. Says(n, p) = IF path = p THEN {f} ELSE {}
    BY <1>2, <1>7 DEF Says
  <2>2. path = p => Said(n, p) = f
    BY <2>1 DEF Said
  <2>. HIDE DEF f, props, ok, path, line
  <2>3. CASE path = p
    <3>1. /\ p \in DOMAIN tmpfiles'
          /\ tmpfiles'[p] = IF p \in DOMAIN tmpfiles /\ line.type \in Adjusts
                            THEN [tmpfiles[p] EXCEPT !.props = WithPermissions(@, props)]
                            ELSE f
      BY <1>8, <1>10, <2>3 DEF DoInsert, Put, f
    <3>2. /\ tmpfiles_config[position] = line /\ ~Skipped(line)
          /\ Said(position, p) = f /\ Says(position, p) # {}
      BY <1>1, <1>2, <2>1, <2>2, <2>3 DEF line
    <3>3. f.props = props
      BY <1>8
    <3>. QED  BY <1>10, <3>1, <3>2, <3>3 DEF Heeded
  <2>4. CASE path # p
    <3>1. /\ p \in DOMAIN tmpfiles' <=> p \in DOMAIN tmpfiles
          /\ p \in DOMAIN tmpfiles => tmpfiles'[p] = tmpfiles[p]
      BY <1>8, <2>4 DEF DoInsert, Put
    <3>. QED  BY <1>1, <2>1, <2>4, <3>1 DEF Heeded
  <2>. QED  BY <2>3, <2>4
<1>12. DOMAIN tmpfiles' \subseteq Path
  <2>1. DOMAIN tmpfiles' \subseteq DOMAIN tmpfiles \cup {path}
    BY <1>8 DEF DoInsert, Put
  <2>. QED  BY <1>5, <2>1 DEF TmpfilesInv
<1>. HIDE DEF f, props, ok, path, line, uid, gid, users, owned
<1>. QED  BY <1>1, <1>2, <1>7, <1>8, <1>11, <1>12, HeededIsSaid

\* A tree is copied: each path gets the one inode that goes there.
LEMMA CopyEntryKeeps ==
    ASSUME TmpfilesInv, CopyEntry
    PROVE  TmpfilesInv'
<1>1. PICK n : n = position
  OBVIOUS
<1>. DEFINE line   == tmpfiles_config[n]
            path   == Resolved[line.path]
            copied == Copied(SourceTrees[SourceOf(line)])
            ok     == OkIfMissing(line)
            Target(x) == Below[<<path, x.at>>]
            Copy(x)   == Props(x.kind, x.mode, x.owner, x.group, x.data)
<1>2. /\ n <= Len(tmpfiles_config) /\ tmpfiles_stage = "process" /\ line.type = "C"
      /\ IF path = None \/ SourceOf(line) = None THEN FailEntry
         ELSE /\ tmpfiles' = RecursiveCopy(tmpfiles, SourceTrees[SourceOf(line)], path, ok)
              /\ NextEntry
              /\ UNCHANGED id_cache
  BY <1>1 DEF CopyEntry, At
<1>3. SUFFICES ASSUME path # None, SourceOf(line) # None
               PROVE  TmpfilesInv'
  BY <1>2, FailEntryKeeps
<1>4. /\ \A x \in copied : Target(x) \in Path /\ x.kind \in {"Directory", "RegularFileSystemd"}
      /\ \A x, y \in copied : Target(x) = Target(y) => x = y
  <2>1. line \in Lines /\ IsDirective(line)
    BY <1>1, <1>2, LineIs
  <2>. QED  BY <1>2, <1>3, <2>1, TmpfilesAssumption
<1>5. ~Skipped(line) /\ line.type \notin Adjusts
  BY <1>2 DEF Skipped, CanBeGlob, Adjusts
<1>6. ok \in BOOLEAN
  BY DEF OkIfMissing
<1>. DEFINE paths == {Target(x) : x \in copied}
            Source(p) == CHOOSE x \in copied : Target(x) = p
<1>7. /\ tmpfiles' = [p \in DOMAIN tmpfiles \cup paths |->
                         IF p \in paths THEN DoInsert(tmpfiles, p, Copy(Source(p)), ok)[p]
                                        ELSE tmpfiles[p]]
      /\ NextEntry /\ UNCHANGED id_cache
  BY <1>2, <1>3 DEF RecursiveCopy
<1>8. \A p : Says(n, p) = {FileOf(Copy(x), ok) : x \in {y \in copied : Target(y) = p}}
  BY <1>2 DEF Says
<1>. HIDE DEF path, copied, ok, Target, line
<1>9. ASSUME NEW p \in Path PROVE Heeded(p)
  <2>1. CASE p \in paths
    <3>1. PICK x \in copied : Target(x) = p
      BY <2>1
    <3>2. {y \in copied : Target(y) = p} = {x} /\ Source(p) = x
      BY <1>4, <3>1
    <3>. DEFINE f == FileOf(Copy(x), ok)
    <3>3. Says(n, p) = {f}
      BY <1>8, <3>2
    <3>4. Said(n, p) = f
      BY <3>3 DEF Said
    <3>5. IsFile(f)
      BY <1>6 DEF IsFile, FileOf, Props
    <3>6. Copy(x).kind # "Permissions"
      BY <1>4 DEF Props
    <3>. HIDE DEF Copy
    <3>7. DoInsert(tmpfiles, p, Copy(x), ok)[p] = f
      BY <3>6 DEF DoInsert, Put
    <3>8. p \in DOMAIN tmpfiles' /\ tmpfiles'[p] = f
      BY <1>7, <2>1, <3>2, <3>7
    <3>9. tmpfiles_config[position] = line /\ Said(position, p) = f /\ Says(position, p) # {}
      BY <1>1, <3>3, <3>4 DEF line
    <3>. HIDE DEF f
    <3>. QED  BY <1>5, <3>5, <3>8, <3>9 DEF Heeded
  <2>2. CASE p \notin paths
    <3>1. Says(n, p) = {}
      BY <1>8, <2>2
    <3>2. /\ p \in DOMAIN tmpfiles' <=> p \in DOMAIN tmpfiles
          /\ p \in DOMAIN tmpfiles => tmpfiles'[p] = tmpfiles[p]
      BY <1>7, <2>2
    <3>. QED  BY <1>1, <3>1, <3>2 DEF Heeded
  <2>. QED  BY <2>1, <2>2
<1>10. DOMAIN tmpfiles' \subseteq Path
  <2>1. DOMAIN tmpfiles' = DOMAIN tmpfiles \cup paths /\ paths \subseteq Path
    BY <1>4, <1>7
  <2>. QED  BY <2>1 DEF TmpfilesInv
<1>11. HostCached'
  BY <1>7 DEF TmpfilesInv, HostCached
<1>. QED  BY <1>1, <1>2, <1>7, <1>9, <1>10, <1>11, HeededIsSaid

-----------------------------------------------------------------------------
(* Lines of tmpfiles.d *)

\* Before the first line nothing was said.
LEMMA InitTmpfiles ==
    ASSUME NEW lines \in TmpfilesConfigs, TmpfilesStart(lines)
    PROVE  TmpfilesInv
<1>1. /\ tmpfiles_config = lines /\ tmpfiles_stage = "idle" /\ position = 1
      /\ id_cache = <<>> /\ tmpfiles = <<>>
  BY DEF TmpfilesStart, NoTmpfiles
<1>2. Len(lines) \in Nat /\ 1 .. position - 1 = {}
  BY <1>1, TmpfilesAssumption
<1>3. DOMAIN <<>> = {}
  OBVIOUS
<1>4. ASSUME NEW p \in Path
      PROVE  AsSaid(p, position - 1) /\ About(p, position - 1) = {} /\ Adjusting(p, position - 1) = {}
  <2>1. About(p, position - 1) = {}
    BY <1>2 DEF About
  <2>2. Making(p, position - 1) = {} /\ Adjusting(p, position - 1) = {}
    BY <2>1 DEF Making, Adjusting
  <2>3. Stands(tmpfiles, p, {}, {})
    BY <1>1, <1>3 DEF Stands
  <2>. QED  BY <2>1, <2>2, <2>3, AsSaidIs
<1>. QED  BY <1>1, <1>2, <1>3, <1>4 DEF TmpfilesInv, HostCached, NoTmpfiles

\* Every step preserves that.
LEMMA NextTmpfiles ==
    ASSUME TmpfilesInv, TmpfilesNext
    PROVE  TmpfilesInv'
<1>1. CASE ReadTmpfiles
  BY <1>1, StageChanges DEF ReadTmpfiles
<1>2. CASE EndOfEntries
  <2>1. position = Len(tmpfiles_config) + 1
    <3>1. Len(tmpfiles_config) \in Nat
      BY TmpfilesAssumption DEF TmpfilesInv
    <3>. QED  BY <1>2, <3>1 DEF EndOfEntries, TmpfilesInv
  <2>2. ParseTmpfiles(tmpfiles_config)
    BY <1>2 DEF EndOfEntries, TmpfilesInv
  <2>. QED  BY <1>2, <2>1, <2>2, StageChanges DEF EndOfEntries
<1>. QED  BY <1>1, <1>2, SkipEntryKeeps, ProcessEntryKeeps, CopyEntryKeeps DEF TmpfilesNext

-----------------------------------------------------------------------------
(* Types *)

FileTypes ==
    /\ files_stage \in {"idle", "lists", "done", "failed"}
    /\ filter \subseteq Everything
    /\ \A p \in Path : merged[p] # None => merged[p].path = p /\ merged[p].package \in Everything

\* Ids of installed packages are ids of packages that there are.
LEMMA InstalledIds ==
    ASSUME db \in DOMAIN Databases
    PROVE  DOMAIN Installed \subseteq Everything
<1>1. SUFFICES ASSUME NEW r \in DOMAIN Installed PROVE r \in Everything
  OBVIOUS
<1>. DEFINE pkg == Installed[r]
            d   == DebOf(pkg)
<1>2. d \in DOMAIN Debs /\ r \in ToSet(pkg.ids) /\ pkg.ids = Ids(pkg.name, pkg.arch)
  BY InstalledAre, EverythingAssumption DEF Installed
<1>3. d.name = pkg.name /\ d.arch = pkg.arch
  BY DEF DebOf, Deb
<1>. HIDE DEF d, pkg
<1>4. ToSet(Ids(d.name, d.arch)) \subseteq {Plain(d.name), Qualified(d.name, d.arch)}
  BY DEF Ids, ToSet
<1>. QED  BY <1>2, <1>3, <1>4 DEF Everything

\* An entry that is merged stays at its path, with the id of a package.
LEMMA MergeTypes ==
    ASSUME db \in DOMAIN Databases, NEW acc \in [Path -> EntriesOf(db) \cup {None}],
           NEW e \in ClaimsOf[db] \cup ConfClaimsOf[db],
           \A p \in Path : acc[p] # None => acc[p].path = p,
           NEW p \in Path, Merge(acc, e)[p] # None
    PROVE  Merge(acc, e)[p].path = p /\ Merge(acc, e)[p].package \in Everything
<1>1. /\ Merge(acc, e) \in [Path -> EntriesOf(db) \cup {None}]
      /\ \A q \in Path \ {e.path} : Merge(acc, e)[q] = acc[q]
      /\ e.path \in Path
      /\ acc[e.path] = None => Merge(acc, e)[e.path] = e
      /\ acc[e.path] # None /\ ~Checked(e) => Merge(acc, e)[e.path] = acc[e.path]
  BY MergeAt
<1>2. Merge(acc, e)[p].package \in Everything
  <2>1. Merge(acc, e)[p] \in EntriesOf(db)
    BY <1>1
  <2>. QED  BY <2>1, EverythingAssumption
<1>3. CASE p = e.path /\ acc[p] # None /\ Checked(e)
  <2>1. Merge(acc, e)[p] = [acc[p] EXCEPT !.props = e.props]
    BY <1>1, <1>3 DEF Merge, Checked
  <2>2. acc[p] \in EntriesOf(db) /\ acc[p].path = p
    BY <1>3
  <2>3. [acc[p] EXCEPT !.props = e.props].path = acc[p].path
    BY <2>2 DEF EntriesOf
  <2>. QED  BY <1>2, <2>1, <2>2, <2>3
<1>. QED  BY <1>1, <1>2, <1>3

\* The workers, the configuration files and the filter.
LEMMA FilesNextTypes ==
    ASSUME FilesInv, FileTypes, backend = "apt", FilesNext, db' = db
    PROVE  FileTypes'
<1>1. /\ files_stage = "lists" /\ MergeInv /\ db \in DOMAIN Databases
      /\ filter' = filter /\ files_stage' \in {"lists", "done"}
  BY DEF FilesInv, FilesNext, MergeEntry, MergeConffile, FilterFiles
<1>2. ListsType /\ merged \in [Path -> EntriesOf(db) \cup {None}]
  BY <1>1 DEF MergeInv, ListsType
<1>3. CASE \E e \in ClaimsOf[db] \cup ConfClaimsOf[db] : merged' = Merge(merged, e)
  BY <1>1, <1>2, <1>3, MergeTypes DEF FileTypes
<1>4. CASE MergeEntry
  <2>1. PICK i \in DOMAIN lists : lists[i] # <<>> /\ merged' = Merge(merged, Divert(Head(lists[i])))
    BY <1>4 DEF MergeEntry
  <2>2. Head(lists[i]) \in ToSet(lists[i]) /\ ToSet(lists[i]) \subseteq Raw
    BY <1>2, <2>1, HeadAndTail, OfSequence DEF ListsType
  <2>3. Divert(Head(lists[i])) \in ClaimsOf[db]
    BY <1>1, <2>2, ClaimsAre
  <2>. QED  BY <1>3, <2>1, <2>3
<1>5. CASE MergeConffile
  <2>1. conffiles # <<>> /\ merged' = Merge(merged, Divert(Head(conffiles)))
    BY <1>5 DEF MergeConffile
  <2>2. Head(conffiles) \in ToSet(conffiles) /\ ToSet(conffiles) \subseteq ToSet(Status.conffiles)
    BY <1>2, <2>1, HeadAndTail, OfSequence DEF ListsType
  <2>3. Divert(Head(conffiles)) \in ConfClaimsOf[db]
    BY <1>1, <2>2, ClaimsAre
  <2>. QED  BY <1>3, <2>1, <2>3
<1>6. CASE FilterFiles
  <2>1. \A p \in Path : merged'[p] \in {merged[p], None}
    BY <1>6 DEF FilterFiles
  <2>. QED  BY <1>1, <2>1 DEF FileTypes
<1>. QED  BY <1>4, <1>5, <1>6 DEF FilesNext

\* Nothing is merged when the database is read.
LEMMA ReadDatabaseTypes ==
    ASSUME NEW wanted, wanted \subseteq Everything, ReadDatabase(wanted)
    PROVE  FileTypes'
  BY DEF ReadDatabase, FileTypes, NoEntries

\* ExpectedTypeOK, without what FileTypes says and RunInv knows already.
CacheTypes ==
    /\ db \in DOMAIN Databases
    /\ \A k \in CacheKeys : from_archives[k] # None => from_archives[k].kind # "Error"
    /\ changes \in 0..MaxChanges

Types == FileTypes /\ CacheTypes

\* Each action of the backend of apt.
LEMMA AptTypes ==
    ASSUME FilesInv, Types, backend = "apt", ExpectedNext
    PROVE  Types'
<1>1. db \in DOMAIN Databases /\ changes \in 0..MaxChanges /\ MaxChanges \in Nat
  BY EverythingAssumption DEF Types, CacheTypes
<1>2. CASE SystemChanges
  <2>1. /\ changes < MaxChanges /\ changes' = changes + 1 /\ db' \in DOMAIN Databases
        /\ UNCHANGED <<filesVars, cacheVars>>
    BY <1>2 DEF SystemChanges
  <2>. QED  BY <1>1, <2>1 DEF Types, FileTypes, CacheTypes, filesVars, cacheVars
<1>3. CASE TimePasses
  <2>1. Expire /\ UNCHANGED <<db, filesVars, changes>>
    BY <1>3 DEF TimePasses
  <2>2. \A k \in CacheKeys : from_archives'[k] \in {from_archives[k], None}
    <3>1. CASE \E k \in CacheKeys : from_archives' = [from_archives EXCEPT ![k] = None]
      BY <3>1
    <3>2. CASE UNCHANGED from_archives
      BY <3>2
    <3>. QED  BY <2>1, <3>1, <3>2 DEF Expire
  <2>. QED  BY <2>1, <2>2 DEF Types, FileTypes, CacheTypes, filesVars
<1>4. CASE StoreResult
  <2>1. PICK r : Remember(FormatPackage(Installed[r]), results[r])
    BY <1>4 DEF StoreResult
  <2>2. \A k \in CacheKeys :
           \/ from_archives'[k] = from_archives[k]
           \/ from_archives'[k] = results[r] /\ results[r].kind # "Error"
    BY <2>1 DEF Remember
  <2>3. UNCHANGED <<db, filesVars, changes>>
    BY <1>4 DEF StoreResult
  <2>. QED  BY <2>2, <2>3 DEF Types, FileTypes, CacheTypes, filesVars
<1>5. CASE UNCHANGED <<db, filesVars, from_archives, changes>>
  BY <1>5 DEF Types, FileTypes, CacheTypes, filesVars
<1>6. CASE UNCHANGED <<db, from_archives, changes>> /\ FileTypes'
  BY <1>6 DEF Types, CacheTypes
<1>7. CASE CleanDebs \/ StartScan \/ FetchArchives \/ AssembleWithDatabase \/ QueryOriginals
  BY <1>5, <1>7 DEF CleanDebs, StartScan, FetchArchives, AssembleWithDatabase, QueryOriginals, cacheVars
<1>8. CASE Assemble
  <2>1. UNCHANGED <<db, from_archives, changes>>
    BY <1>8 DEF Assemble, cacheVars
  <2>2. ReadDatabase(Everything) \/ UNCHANGED filesVars
    BY <1>8 DEF Assemble
  <2>. QED  BY <1>5, <1>6, <2>1, <2>2, ReadDatabaseTypes
<1>9. CASE ReadFiles
  <2>1. FilesNext /\ UNCHANGED <<db, from_archives, changes>>
    BY <1>9 DEF ReadFiles, cacheVars
  <2>2. FileTypes'
    BY <2>1, FilesNextTypes DEF Types
  <2>. QED  BY <1>6, <2>1, <2>2
<1>10. CASE StartCheck
  <2>1. UNCHANGED <<db, from_archives, changes>>
    BY <1>10 DEF StartCheck, cacheVars
  <2>2. PICK wanted \in Filters : ReadDatabase(wanted)
    BY <1>10 DEF StartCheck
  <2>3. FileTypes'
    BY <2>2, EverythingAssumption, ReadDatabaseTypes
  <2>. QED  BY <1>6, <2>1, <2>3
<1>11. CASE EndRun
  <2>1. UNCHANGED <<db, from_archives, changes>>
    BY <1>11 DEF EndRun, cacheVars
  <2>2. FileTypes'
    BY <1>11 DEF EndRun, Forget, FileTypes, NoEntries
  <2>. QED  BY <1>6, <2>1, <2>2
<1>. QED  BY <1>2, <1>3, <1>4, <1>7, <1>8, <1>9, <1>10, <1>11 DEF ExpectedNext

-----------------------------------------------------------------------------
(* The theorems *)

\* The first state satisfies the invariant.
LEMMA InitLines ==
    ASSUME Init
    PROVE  TmpfilesInv
<1>1. PICK lines \in TmpfilesConfigs : TmpfilesStart(lines)
  <2>1. (CHOOSE lines \in TmpfilesConfigs : TRUE) \in TmpfilesConfigs
    BY TmpfilesAssumption
  <2>. QED  BY <2>1 DEF Init, AptInit, SystemdTmpfilesInit
<1>. QED  BY <1>1, InitTmpfiles

\* Every step preserves it.
LEMMA NextLines ==
    ASSUME TmpfilesInv, [Next]_vars
    PROVE  TmpfilesInv'
<1>1. CASE SystemdTmpfilesNext
  BY <1>1, NextTmpfiles DEF SystemdTmpfilesNext
<1>2. CASE AptNext \/ UNCHANGED vars
  <2>1. UNCHANGED tmpfilesVars
    BY <1>2 DEF AptNext, vars
  <2>2. UNCHANGED <<tmpfiles_config, tmpfiles_stage, position, id_cache, tmpfiles>>
    BY <2>1 DEF tmpfilesVars
  <2>3. /\ tmpfiles_stage \in {"idle", "process", "done", "failed"}
        /\ tmpfiles_stage \in {"process", "done"} => ParseTmpfiles(tmpfiles_config)
        /\ tmpfiles_stage = "done" => position = Len(tmpfiles_config) + 1
    BY DEF TmpfilesInv
  <2>. QED  BY <2>2, <2>3, StageChanges
<1>. QED  BY <1>1, <1>2 DEF Next

\* parse_systemd_tmpfiles_output, "Last item wins (at least per file), including possibly
\* modifying previous entries": for any lines in any order, a path is in the end what the
\* last line that makes it says, as adjusted by later ones.
THEOREM LastLines == Spec => []LastLineWins
<1>1. Init => TmpfilesInv
  BY InitLines
<1>2. TmpfilesInv /\ [Next]_vars => TmpfilesInv'
  BY NextLines
<1>3. ASSUME TmpfilesInv PROVE LastLineWins
  <2>1. Len(tmpfiles_config) \in Nat
    BY <1>3, TmpfilesAssumption DEF TmpfilesInv
  <2>2. tmpfiles_stage = "done" => position - 1 = Len(tmpfiles_config)
    BY <1>3, <2>1 DEF TmpfilesInv
  <2>. QED  BY <1>3, <2>2 DEF TmpfilesInv, LastLineWins
<1>. QED  BY <1>1, <1>2, <1>3, PTL DEF Spec

\* Whichever backend serves, and whatever the caches keep: entries stay at their paths and
\* have the ids of packages, also after diversions; errors are never kept; what is asked
\* of the archives is ids of packages; and the ids that were looked up for tmpfiles.d are
\* ids of the host.
THEOREM TypeCorrect == Spec => []TypeOK
<1>. DEFINE Inv == /\ FilesInv /\ RunInv /\ TmpfilesInv /\ Types
                   /\ backend \in {"apt", "systemd-tmpfiles"}
<1>1. ASSUME Init PROVE Inv
  <2>1. backend \in {"apt", "systemd-tmpfiles"} /\ ExpectedStart /\ db \in DOMAIN Databases
    BY <1>1, EverythingAssumption DEF Init, AptInit, SystemdTmpfilesInit, ExpectedInit
  <2>2. FileTypes
    BY <2>1 DEF ExpectedStart, FilesStart, FileTypes, NoEntries
  <2>3. CacheTypes
    BY <2>1, EverythingAssumption DEF ExpectedStart, CachesEmpty, CacheTypes
  <2>. QED  BY <1>1, <2>1, <2>2, <2>3, InitFiles, InitRuns, InitLines DEF Types
<1>2. ASSUME Inv, [Next]_vars PROVE Inv'
  <2>1. FilesInv' /\ RunInv' /\ TmpfilesInv'
    BY <1>2, NextFiles, NextRuns, NextLines
  <2>2. CASE AptNext
    BY <1>2, <2>1, <2>2, AptTypes DEF AptNext
  <2>3. CASE SystemdTmpfilesNext \/ UNCHANGED vars
    <3>1. UNCHANGED <<backend, expectedVars>>
      BY <2>3 DEF SystemdTmpfilesNext, vars
    <3>2. UNCHANGED <<backend, db, files_stage, filter, merged, from_archives, changes>>
      BY <3>1 DEF expectedVars, filesVars, cacheVars
    <3>. QED  BY <1>2, <2>1, <3>2 DEF Types, FileTypes, CacheTypes
  <2>. QED  BY <1>2, <2>2, <2>3 DEF Next
<1>3. ASSUME Inv PROVE TypeOK
  <2>1. ExpectedTypeOK
    <3>1. uncached \subseteq Everything
      BY <1>3, InstalledIds DEF RunInv, StageInv, Types, CacheTypes
    <3>. QED  BY <1>3, <3>1 DEF ExpectedTypeOK, Types, FileTypes, CacheTypes, RunInv
  <2>2. TmpfilesTypeOK
    BY <1>3 DEF TmpfilesInv, TmpfilesTypeOK, HostCached, IsFile
  <2>. QED  BY <1>3, <2>1, <2>2 DEF TypeOK
<1>. HIDE DEF Inv
<1>4. Inv => TypeOK
  BY <1>3
<1>. QED  BY <1>1, <1>2, <1>4, PTL DEF Spec

\* parse_status, parse_extended_status and what packages() does with them, for whatever
\* dpkg and apt have written: every package is as its own stanza says, whatever the order
\* of the fields; the configuration files are those of its section for them; it fails when
\* a stanza is not complete; and a package counts as installed by apt itself when the last
\* stanza about it says so.
THEOREM FilesReadAsWritten == Spec => []ParsedAsWritten
<1>1. ASSUME TypeOK PROVE ParsedAsWritten
  <2>1. db \in DOMAIN Databases
    BY <1>1 DEF TypeOK, ExpectedTypeOK
  <2>. DEFINE stanzas == Databases[db].stanzas
              extended == Databases[db].extended
  <2>2. None # "Dependency" /\ AreStanzas(stanzas) /\ AreExtended(extended)
    BY <2>1, WrittenAssumption DEF AreStanzas, AreExtended
  <2>3. StatusAsWritten(stanzas) /\ ReasonsAsWritten(stanzas, extended)
    <3>. HIDE DEF stanzas, extended
    <3>. QED  BY <2>2, StatusWritten, ReasonsWritten
  <2>. QED  BY <2>1, <2>3 DEF ParsedAsWritten, ReadAsWritten
<1>. QED  BY <1>1, TypeCorrect, PTL

=============================================================================
