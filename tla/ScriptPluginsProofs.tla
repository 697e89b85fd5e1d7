------------------------ MODULE ScriptPluginsProofs ------------------------
(***************************************************************************)
(* For all names, ids, sysusers.d files and files of the host, and every   *)
(* sequence of calls a script makes: users and groups are well-formed      *)
(* (UsersTyped), a sysusers.d file only adds (FilesOnlyAdd), members are   *)
(* kept (MembersKept), aligned ids stay (AlignedKept), and what is written *)
(* has unique ids (IdsUnique) and the groups of its users (GroupsWritten). *)
(*                                                                         *)
(* A sysusers.d file is a fold over its lines.  What a fold keeps is shown *)
(* by induction over the lines; as the induction theorems of the library   *)
(* take the property as an operator, the induction is done here with sets: *)
(* a set of numbers that has 0 and is closed under successors has all.     *)
(*                                                                         *)
(* For every text and every set of programs, however they call each other: *)
(* the editor's variables keep their types, theorem EditTyped; what        *)
(* programs do that only insert, print, fetch lines and stop with the rest *)
(* printed loses no line of the text, theorem NoLineLost; and a program    *)
(* that fetches no line, calls no other and does nothing at the end does   *)
(* what a reading of it line by line says, theorem DoesAsDocumented.       *)
(*                                                                         *)
(* LinesKept speaks of the end. Until then, what was printed has the lines *)
(* up to the current one, or it has those before and the current one is in *)
(* the pattern space (KeptInv); and for programs that only move through    *)
(* the text it is those lines (CopyInv).                                   *)
(*                                                                         *)
(* AgreesWithReference speaks of the end too. Until then, before           *)
(* instruction k of line n, the output is what the reference has for the   *)
(* lines before n and for the instructions before k (RefInv). The          *)
(* reference is made of recursive functions, of which Recursion says what  *)
(* they are at each number: the induction is UpTo.                         *)
(***************************************************************************)
EXTENDS ScriptPlugins, FiniteSetTheorems, SequenceTheorems, TLAPS

-----------------------------------------------------------------------------
(* Numbers *)

\* Every set of natural numbers but the empty one has a least element.
LEMMA LeastNumber ==
    ASSUME NEW T \in SUBSET Nat, T # {}
    PROVE  \E x \in T : \A y \in T : x <= y
<1> DEFINE U == {1 .. x : x \in T}
<1>1. U # {} /\ U \subseteq FiniteSubsetsOf(Nat)
  <2>1. ASSUME NEW x \in T PROVE IsFiniteSet(1 .. x) /\ 1 .. x \in SUBSET Nat
    BY FS_Interval
  <2>. QED  BY <2>1 DEF FiniteSubsetsOf
<1>2. IsWellFoundedOn(StrictSubsetOrdering(Nat), FiniteSubsetsOf(Nat))
  BY FS_StrictSubsetOrderingWellFounded
<1>3. PICK u \in U : \A v \in U : ~ (<<v, u>> \in StrictSubsetOrdering(Nat))
  <2>. HIDE DEF U
  <2>. QED  BY <1>1, <1>2, WFMin
<1>4. PICK x \in T : u = 1 .. x
  OBVIOUS
<1>5. ASSUME NEW y \in T, y < x PROVE FALSE
  <2>1. 1 .. y \subseteq 1 .. x /\ x \in 1 .. x /\ x \notin 1 .. y
    BY <1>5
  <2>2. 1 .. y \in U /\ 1 .. y \in SUBSET Nat /\ 1 .. x \in SUBSET Nat
    OBVIOUS
  <2>. QED  BY <1>3, <1>4, <2>1, <2>2 DEF StrictSubsetOrdering
<1>. QED  BY <1>5

\* Induction up to n, for what the numbers of T have.
LEMMA UpTo ==
    ASSUME NEW n \in Nat, NEW T, 0 \in T, \A k \in 0 .. n - 1 : k \in T => k + 1 \in T
    PROVE  \A k \in 0 .. n : k \in T
<1> DEFINE U == {k \in 0 .. n : k \notin T}
<1>1. SUFFICES ASSUME U # {} PROVE FALSE
  OBVIOUS
<1>2. PICK x \in U : \A y \in U : x <= y
  <2>1. U \in SUBSET Nat
    OBVIOUS
  <2>. HIDE DEF U
  <2>. QED  BY <1>1, <2>1, LeastNumber
<1>3. x # 0 /\ x - 1 \in 0 .. n - 1 /\ x - 1 \in T
  BY <1>2
<1>. QED  BY <1>2, <1>3

\* Max is the greatest of finitely many numbers.
LEMMA GreatestOf ==
    ASSUME NEW n \in Nat, NEW T \in SUBSET (0 .. n), T # {}
    PROVE  Max(T) \in T /\ \A y \in T : y <= Max(T)
<1> DEFINE U == {n - x : x \in T}
<1>1. PICK u \in U : \A v \in U : u <= v
  <2>1. U \in SUBSET Nat
    <3>1. \A x \in T : n - x \in Nat
      OBVIOUS
    <3>. QED  BY <3>1
  <2>2. U # {}
    OBVIOUS
  <2>. HIDE DEF U
  <2>. QED  BY <2>1, <2>2, LeastNumber
<1>2. \E x \in T : \A y \in T : x >= y
  <2>1. PICK x \in T : u = n - x
    OBVIOUS
  <2>2. ASSUME NEW y \in T PROVE x >= y
    <3>1. n - x <= n - y
      BY <1>1, <2>1
    <3>. QED  BY <3>1
  <2>. QED  BY <2>2
<1>3. Max(T) \in T /\ \A y \in T : Max(T) >= y
  BY <1>2 DEF Max
<1>. QED  BY <1>3

-----------------------------------------------------------------------------
(* A file as a fold over its lines *)

\* The function that the fold defines, on sets of line numbers.
Folded(st, file) ==
    CHOOSE iter : iter = [s \in SUBSET DOMAIN file |->
                             IF s = {} THEN st ELSE Directive(iter[s \ {Max(s)}], file[Max(s)])]

\* What the first k lines make of a state.
AfterLines(st, file, k) == Folded(st, file)[1 .. k]

\* The recursion has a solution, one more line at a time.
LEMMA FoldedIsDefined ==
    ASSUME NEW st, NEW file \in Seq(SysusersLine)
    PROVE  Folded(st, file) =
              [s \in SUBSET DOMAIN file |->
                  IF s = {} THEN st
                  ELSE Directive(Folded(st, file)[s \ {Max(s)}], file[Max(s)])]
<1> DEFINE Solves(k, f) == f = [s \in SUBSET (1 .. k) |->
                                   IF s = {} THEN st ELSE Directive(f[s \ {Max(s)}], file[Max(s)])]
           T == {k \in 0 .. Len(file) : \E f : Solves(k, f)}
<1>1. Len(file) \in Nat /\ DOMAIN file = 1 .. Len(file)
  OBVIOUS
<1>2. 0 \in T
  <2> DEFINE g == [s \in SUBSET (1 .. 0) |-> st]
  <2>1. \A s \in SUBSET (1 .. 0) : s = {}
    OBVIOUS
  <2>2. Solves(0, g)
    BY <2>1
  <2>3. \E f : Solves(0, f)
    BY <2>2
  <2>. HIDE DEF Solves
  <2>. QED  BY <1>1, <2>3
<1>3. ASSUME NEW k \in 0 .. Len(file) - 1, k \in T PROVE k + 1 \in T
  <2>1. PICK f : Solves(k, f)
    BY <1>3
  <2> DEFINE g == [s \in SUBSET (1 .. k + 1) |->
                      IF k + 1 \in s THEN Directive(f[s \ {k + 1}], file[k + 1]) ELSE f[s]]
  <2>2. ASSUME NEW s \in SUBSET (1 .. k + 1)
        PROVE  g[s] = IF s = {} THEN st ELSE Directive(g[s \ {Max(s)}], file[Max(s)])
    <3>1. CASE k + 1 \in s
      <4>1. Max(s) = k + 1
        <5>1. s \in SUBSET (0 .. k + 1) /\ s # {} /\ k + 1 \in Nat
          BY <3>1
        <5>2. Max(s) \in s /\ \A y \in s : y <= Max(s)
          BY <5>1, GreatestOf
        <5>3. Max(s) \in 0 .. k + 1 /\ k + 1 <= Max(s)
          BY <3>1, <5>1, <5>2
        <5>. QED  BY <5>3
      <4>2. s \ {k + 1} \in SUBSET (1 .. k + 1) /\ k + 1 \notin s \ {k + 1}
        OBVIOUS
      <4>3. g[s \ {k + 1}] = f[s \ {k + 1}]
        BY <4>2
      <4>4. g[s] = Directive(f[s \ {k + 1}], file[k + 1])
        BY <3>1
      <4>. QED  BY <3>1, <4>1, <4>3, <4>4
    <3>2. CASE k + 1 \notin s
      <4>1. s \in SUBSET (1 .. k) /\ s \in SUBSET (0 .. k) /\ k \in Nat
        BY <3>2
      <4>2. g[s] = f[s]
        BY <3>2
      <4>3. s \ {Max(s)} \in SUBSET (1 .. k + 1) /\ k + 1 \notin s \ {Max(s)}
        BY <3>2
      <4>4. g[s \ {Max(s)}] = f[s \ {Max(s)}]
        BY <4>3
      <4>5. f[s] = IF s = {} THEN st ELSE Directive(f[s \ {Max(s)}], file[Max(s)])
        BY <2>1, <4>1
      <4>. QED  BY <4>2, <4>4, <4>5
    <3>. QED  BY <3>1, <3>2
  <2>3. g = [s \in SUBSET (1 .. k + 1) |-> g[s]]
    OBVIOUS
  <2>. HIDE DEF g
  <2>4. Solves(k + 1, g)
    BY <2>2, <2>3
  <2>5. \E h : Solves(k + 1, h)
    BY <2>4
  <2>. HIDE DEF Solves
  <2>. QED  BY <1>1, <2>5
<1>4. Len(file) \in T
  <2>. HIDE DEF T
  <2>1. \A k \in 0 .. Len(file) : k \in T
    BY <1>1, <1>2, <1>3, UpTo
  <2>. QED  BY <1>1, <2>1
<1>5. \E f : Solves(Len(file), f)
  BY <1>4
<1>. QED  BY <1>1, <1>5 DEF Folded

\* A fold over the lines is its last line applied to the fold of those before.
LEMMA FoldedAt ==
    ASSUME NEW st, NEW file \in Seq(SysusersLine), NEW s \in SUBSET DOMAIN file
    PROVE  Folded(st, file)[s] = IF s = {} THEN st
                                 ELSE Directive(Folded(st, file)[s \ {Max(s)}], file[Max(s)])
<1> DEFINE Value(t) == IF t = {} THEN st
                       ELSE Directive(Folded(st, file)[t \ {Max(t)}], file[Max(t)])
<1>1. Folded(st, file) = [t \in SUBSET DOMAIN file |-> Value(t)]
  BY FoldedIsDefined
<1>. HIDE DEF Value
<1>2. Folded(st, file)[s] = Value(s)
  BY <1>1
<1>. QED  BY <1>2 DEF Value

\* add_from_sysusers deals with the lines of a file in their order.
LEMMA LineByLine ==
    ASSUME NEW st, NEW file \in Seq(SysusersLine)
    PROVE  /\ FoldLeft(Directive, st, file) = AfterLines(st, file, Len(file))
           /\ AfterLines(st, file, 0) = st
           /\ \A k \in 0 .. Len(file) - 1 :
                 AfterLines(st, file, k + 1) = Directive(AfterLines(st, file, k), file[k + 1])
<1>1. Len(file) \in Nat /\ DOMAIN file = 1 .. Len(file)
  OBVIOUS
<1>2. FoldLeft(Directive, st, file) = AfterLines(st, file, Len(file))
  <2>1. FoldLeft(Directive, st, file) = Folded(st, file)[DOMAIN file]
    BY DEF FoldLeft, MapThenFoldSet, Folded
  <2>. QED  BY <1>1, <2>1 DEF AfterLines
<1>3. AfterLines(st, file, 0) = st
  <2>1. 1 .. 0 = {} /\ {} \in SUBSET DOMAIN file
    OBVIOUS
  <2>2. Folded(st, file)[{}] = st
    BY <2>1, FoldedAt
  <2>. QED  BY <2>1, <2>2 DEF AfterLines
<1>4. ASSUME NEW k \in 0 .. Len(file) - 1
      PROVE  AfterLines(st, file, k + 1) = Directive(AfterLines(st, file, k), file[k + 1])
  <2> DEFINE s == 1 .. k + 1
  <2>1. k + 1 \in Nat /\ k + 1 \in s /\ s \ {k + 1} = 1 .. k
    OBVIOUS
  <2>2. s \in SUBSET DOMAIN file /\ s \in SUBSET (0 .. k + 1)
    BY <1>1
  <2>. HIDE DEF s
  <2>3. Max(s) = k + 1
    <3>1. Max(s) \in s /\ \A y \in s : y <= Max(s)
      BY <2>1, <2>2, GreatestOf
    <3>2. Max(s) \in 0 .. k + 1 /\ k + 1 <= Max(s)
      BY <2>1, <2>2, <3>1
    <3>. QED  BY <2>1, <3>2
  <2>4. Folded(st, file)[s] = Directive(Folded(st, file)[s \ {Max(s)}], file[Max(s)])
    BY <2>1, <2>2, FoldedAt
  <2>. QED  BY <2>1, <2>3, <2>4 DEF AfterLines, s
<1>. QED  BY <1>2, <1>3, <1>4

-----------------------------------------------------------------------------
(* What a line of a sysusers.d file does to the users and groups *)

BuildState ==
    [users : [UserName -> User \cup {None}], groups : [GroupName -> Group \cup {None}],
     declared : SUBSET UserName, joined : SUBSET (UserName \X GroupName), ok : BOOLEAN]

\* A declared user is there, and so is its group.
Declared(us, gs, names) ==
    \A n \in names : us[n] # None /\ us[n].name = n /\ gs[us[n].group] # None

Joined(gs, pairs) ==
    \A j \in pairs : gs[j[2]] # None /\ j[1] \in gs[j[2]].members

\* One state of users, or of groups, adds to another.
MoreUsers(us, vs) == \A n \in UserName : us[n] # None => vs[n] = us[n]

MoreGroups(gs, hs) ==
    \A n \in GroupName : gs[n] # None => /\ hs[n] # None
                                         /\ hs[n].gid = gs[n].gid
                                         /\ gs[n].members \subseteq hs[n].members
                                         /\ hs[n].admins = gs[n].admins

\* What is true of all states of the fold.
Built(st, t) ==
    /\ t \in BuildState
    /\ Declared(t.users, t.groups, t.declared) /\ Joined(t.groups, t.joined)
    /\ MoreUsers(st.users, t.users) /\ MoreGroups(st.groups, t.groups)

\* None is no user, no group and no id.
LEMMA NoneApart ==
    /\ None \notin User /\ None \notin Group /\ None \notin Id /\ None \notin FileSet
    /\ UserName \subseteq GroupName
  BY PasswdAssumption

\* New users and groups are users and groups.
LEMMA NewTypes ==
    /\ \A n \in UserName, i \in Id, g \in GroupName :
          /\ NewUser(n, i, g) \in User
          /\ NewUser(n, i, g).name = n /\ NewUser(n, i, g).uid = i /\ NewUser(n, i, g).group = g
    /\ \A n \in GroupName, i \in Id : NewGroup(n, i) \in Group
<1>1. NoPasswd \in Password
  BY PasswdAssumption
<1>2. ASSUME NEW n \in UserName, NEW i \in Id, NEW g \in GroupName
      PROVE  /\ NewUser(n, i, g) \in User
             /\ NewUser(n, i, g).name = n /\ NewUser(n, i, g).uid = i /\ NewUser(n, i, g).group = g
  BY <1>1 DEF NewUser, User
<1>3. ASSUME NEW n \in GroupName, NEW i \in Id PROVE NewGroup(n, i) \in Group
  BY DEF NewGroup, Group
<1>. QED  BY <1>2, <1>3

\* An entry is added unless it is there.
LEMMA UserInserted ==
    ASSUME NEW us \in [UserName -> User \cup {None}], NEW key \in UserName, NEW user \in User
    PROVE  /\ OrInsert(us, key, user) \in [UserName -> User \cup {None}]
           /\ \A n \in UserName : us[n] # None => OrInsert(us, key, user)[n] = us[n]
           /\ us[key] = None => OrInsert(us, key, user)[key] = user
  BY DEF OrInsert

\* A group is inserted unless its name has one; none is lost.
LEMMA GroupInserted ==
    ASSUME NEW gs \in [GroupName -> Group \cup {None}], NEW key \in GroupName, NEW group \in Group
    PROVE  /\ OrInsert(gs, key, group) \in [GroupName -> Group \cup {None}]
           /\ \A n \in GroupName : gs[n] # None => OrInsert(gs, key, group)[n] = gs[n]
           /\ OrInsert(gs, key, group)[key] # None
  BY NoneApart DEF OrInsert

\* The first group with an id is a group.
LEMMA FirstGroup ==
    ASSUME NEW gs \in [GroupName -> Group \cup {None}], NEW gid, WithGid(gs, gid) # {}
    PROVE  FirstWithGid(gs, gid) \in GroupName
<1> DEFINE W == WithGid(gs, gid)
           T == {GroupRank[n] : n \in W}
<1>1. W \subseteq GroupName /\ \A n \in W : gs[n] \in Group
  BY DEF WithGid, Groups
<1>2. PICK x \in T : \A y \in T : x <= y
  <2>1. T \in SUBSET Nat /\ T # {}
    BY <1>1, PasswdAssumption
  <2>. HIDE DEF T
  <2>. QED  BY <2>1, LeastNumber
<1>3. \E n \in W : \A o \in W : GroupRank[n] <= GroupRank[o]
  BY <1>2
<1> DEFINE first == CHOOSE n \in W : \A o \in W : GroupRank[n] <= GroupRank[o]
<1>4. first \in W
  BY <1>3
<1>5. gs[first] \in Group
  BY <1>1, <1>4
<1>6. FirstWithGid(gs, gid) = gs[first].name
  BY DEF FirstWithGid
<1>. HIDE DEF first
<1>. QED  BY <1>5, <1>6 DEF Group

\* A user's line resolves to ids in range and the name of a group.
LEMMA ResolvedTypes ==
    ASSUME user_ids \in [UserName -> Id \cup {None}], NEW st \in BuildState,
           NEW line \in SysusersLine, line.type = "u", Resolved(st, line) # None
    PROVE  /\ line.name \in UserName
           /\ Resolved(st, line).uid \in Id /\ Resolved(st, line).gid \in Id
           /\ Resolved(st, line).group \in GroupName
<1>1. line.name \in UserName /\ line.id \in UserId
  BY DEF SysusersLine
<1> DEFINE id == ParsedUserId(line.id)
<1>2. \/ id.form \in {"None", "FromPath"}
      \/ id.form = "Uid" /\ id.uid \in Id
      \/ id.form = "UidGroup" /\ id.uid \in Id /\ id.group \in GroupName
      \/ id.form = "UidGid" /\ id.uid \in Id /\ id.gid \in Id
  BY <1>1, PasswdAssumption DEF ParsedUserId, UserId, TooLarge, Id
<1>3. /\ st.groups \in [GroupName -> Group \cup {None}]
      /\ line.name \in GroupName
  BY <1>1, NoneApart DEF BuildState
<1>. HIDE DEF id
<1>4. Resolved(st, line) =
        CASE id.form = "Uid"      -> [uid |-> id.uid, gid |-> id.uid, group |-> line.name]
          [] id.form = "UidGroup" -> [uid |-> id.uid, gid |-> id.uid, group |-> id.group]
          [] id.form = "UidGid" /\ WithGid(st.groups, id.gid) # {} ->
                 [uid |-> id.uid, gid |-> id.gid, group |-> FirstWithGid(st.groups, id.gid)]
          [] id.form = "None" /\ user_ids[line.name] # None ->
                 [uid |-> user_ids[line.name], gid |-> user_ids[line.name], group |-> line.name]
          [] OTHER -> None
  BY DEF Resolved, id
<1>5. CASE id.form = "Uid"
  BY <1>1, <1>2, <1>3, <1>4, <1>5
<1>6. CASE id.form = "UidGroup"
  BY <1>1, <1>2, <1>4, <1>6
<1>7. CASE id.form = "UidGid"
  BY <1>1, <1>2, <1>3, <1>4, <1>7, FirstGroup
<1>8. CASE id.form = "None"
  BY <1>1, <1>3, <1>4, <1>8
<1>9. CASE id.form = "FromPath"
  BY <1>4, <1>9
<1>. QED  BY <1>2, <1>5, <1>6, <1>7, <1>8, <1>9

\* What is declared or joined stays so when users and groups are added to.
LEMMA MoreKeeps ==
    ASSUME NEW us \in [UserName -> User \cup {None}], NEW vs, NEW gs, NEW hs,
           NEW names \in SUBSET UserName, NEW pairs \in SUBSET (UserName \X GroupName),
           MoreUsers(us, vs), MoreGroups(gs, hs)
    PROVE  /\ Declared(us, gs, names) => Declared(vs, hs, names)
           /\ Joined(gs, pairs) => Joined(hs, pairs)
<1>1. ASSUME Declared(us, gs, names), NEW n \in names
      PROVE  vs[n] # None /\ vs[n].name = n /\ hs[vs[n].group] # None
  <2>1. us[n] # None /\ us[n].name = n /\ gs[us[n].group] # None /\ vs[n] = us[n]
    BY <1>1 DEF Declared, MoreUsers
  <2>2. us[n].group \in GroupName
    BY <2>1 DEF User
  <2>. QED  BY <2>1, <2>2 DEF MoreGroups
<1>2. Joined(gs, pairs) => Joined(hs, pairs)
  BY DEF Joined, MoreGroups
<1>. QED  BY <1>1, <1>2 DEF Declared

\* A line u of sysusers.d only adds.
LEMMA UserLineBuilds ==
    ASSUME user_ids \in [UserName -> Id \cup {None}], NEW st, Built(st, st),
           NEW line \in SysusersLine, line.type = "u"
    PROVE  Built(st, UserLine(st, line))
<1> DEFINE r == Resolved(st, line)
           t == UserLine(st, line)
<1>1. /\ st \in BuildState
      /\ st.users \in [UserName -> User \cup {None}] /\ st.groups \in [GroupName -> Group \cup {None}]
      /\ st.declared \in SUBSET UserName /\ st.joined \in SUBSET (UserName \X GroupName)
      /\ Declared(st.users, st.groups, st.declared) /\ Joined(st.groups, st.joined)
  BY DEF Built, BuildState
<1>2. CASE r = None
  <2>1. t = [st EXCEPT !.ok = FALSE]
    BY <1>2 DEF UserLine
  <2>2. t \in BuildState /\ t.users = st.users /\ t.groups = st.groups
        /\ t.declared = st.declared /\ t.joined = st.joined
    BY <1>1, <2>1 DEF BuildState
  <2>. QED  BY <1>1, <2>2 DEF Built, MoreUsers, MoreGroups
<1>3. CASE r # None
  <2>1. /\ line.name \in UserName /\ r.uid \in Id /\ r.gid \in Id /\ r.group \in GroupName
    BY <1>1, <1>3, ResolvedTypes
  <2> DEFINE user == NewUser(line.name, r.uid, r.group)
             group == NewGroup(r.group, r.gid)
             us == OrInsert(st.users, line.name, user)
             gs == OrInsert(st.groups, r.group, group)
  <2>. HIDE DEF r
  <2>2. user \in User /\ user.name = line.name /\ user.group = r.group /\ group \in Group
        /\ user # None /\ group # None
    BY <2>1, NewTypes, NoneApart
  <2>. HIDE DEF user, group
  <2>3. /\ us \in [UserName -> User \cup {None}]
        /\ \A n \in UserName : st.users[n] # None => us[n] = st.users[n]
        /\ st.users[line.name] = None => us[line.name] = user
    BY <1>1, <2>1, <2>2, UserInserted
  <2>4. /\ gs \in [GroupName -> Group \cup {None}]
        /\ \A n \in GroupName : st.groups[n] # None => gs[n] = st.groups[n]
        /\ gs[r.group] # None
    BY <1>1, <2>1, <2>2, GroupInserted
  <2>. HIDE DEF us, gs
  <2> DEFINE names == st.declared \cup ({line.name} \ Users(st.users))
  <2>5. t = [st EXCEPT !.groups = gs, !.users = us, !.declared = names]
    BY <1>1, <1>3 DEF UserLine, BuildState, us, gs, user, group, r
  <2>6. names \in SUBSET UserName
    BY <1>1, <2>1
  <2>. HIDE DEF names, t
  <2>7. /\ t.users = us /\ t.groups = gs /\ t.joined = st.joined /\ t \in BuildState
        /\ t.declared = names
    BY <1>1, <2>3, <2>4, <2>5, <2>6 DEF BuildState
  <2>8. MoreUsers(st.users, us) /\ MoreGroups(st.groups, gs)
    BY <2>3, <2>4 DEF MoreUsers, MoreGroups
  <2>9. Declared(us, gs, st.declared) /\ Joined(gs, st.joined)
    BY <1>1, <2>8, MoreKeeps
  <2>10. Declared(us, gs, t.declared)
    <3>1. line.name \notin Users(st.users) => st.users[line.name] = None
      BY <2>1 DEF Users
    <3>. QED  BY <2>2, <2>3, <2>4, <2>7, <2>9, <3>1 DEF Declared, names
  <2>. QED  BY <2>7, <2>8, <2>9, <2>10 DEF Built, t
<1>. QED  BY <1>2, <1>3

\* A line g of sysusers.d only adds.
LEMMA GroupLineBuilds ==
    ASSUME group_ids \in [GroupName -> Id \cup {None}], NEW st, Built(st, st),
           NEW line \in SysusersLine, line.type = "g"
    PROVE  Built(st, GroupLine(st, line))
<1> DEFINE id  == ParsedGroupId(line.id)
           gid == IF id.form = "Gid" THEN id.gid
                  ELSE IF id.form = "None" THEN group_ids[line.name] ELSE None
           t == GroupLine(st, line)
<1>1. /\ st \in BuildState
      /\ st.users \in [UserName -> User \cup {None}] /\ st.groups \in [GroupName -> Group \cup {None}]
      /\ st.declared \in SUBSET UserName /\ st.joined \in SUBSET (UserName \X GroupName)
      /\ Declared(st.users, st.groups, st.declared) /\ Joined(st.groups, st.joined)
  BY DEF Built, BuildState
<1>2. CASE gid = None
  <2>1. t = [st EXCEPT !.ok = FALSE]
    BY <1>2 DEF GroupLine
  <2>2. t \in BuildState /\ t.users = st.users /\ t.groups = st.groups
        /\ t.declared = st.declared /\ t.joined = st.joined
    BY <1>1, <2>1 DEF BuildState
  <2>. QED  BY <1>1, <2>2 DEF Built, MoreUsers, MoreGroups
<1>3. CASE gid # None
  <2>1. line.name \in GroupName /\ line.id \in GroupId
    BY DEF SysusersLine
  <2>2. gid \in Id
    <3>1. id.form \in {"None", "FromPath"} \/ (id.form = "Gid" /\ id.gid \in Id)
      BY <2>1, PasswdAssumption DEF ParsedGroupId, GroupId, TooLarge, Id
    <3>. HIDE DEF id
    <3>. QED  BY <1>3, <2>1, <3>1
  <2> DEFINE group == NewGroup(line.name, gid)
             gs == OrInsert(st.groups, line.name, group)
  <2>3. t = [st EXCEPT !.groups = gs]
    BY <1>3 DEF GroupLine
  <2>. HIDE DEF gid
  <2>4. group \in Group
    BY <2>1, <2>2, NewTypes
  <2>. HIDE DEF group
  <2>5. /\ gs \in [GroupName -> Group \cup {None}]
        /\ \A n \in GroupName : st.groups[n] # None => gs[n] = st.groups[n]
    BY <1>1, <2>1, <2>4, GroupInserted
  <2>. HIDE DEF gs
  <2>6. t \in BuildState /\ t.users = st.users /\ t.groups = gs
        /\ t.declared = st.declared /\ t.joined = st.joined
    BY <1>1, <2>3, <2>5 DEF BuildState
  <2>. HIDE DEF t
  <2>7. MoreUsers(st.users, st.users) /\ MoreGroups(st.groups, gs)
    BY <2>5 DEF MoreUsers, MoreGroups
  <2>8. Declared(st.users, gs, st.declared) /\ Joined(gs, st.joined)
    BY <1>1, <2>7, MoreKeeps
  <2>. QED  BY <2>6, <2>7, <2>8 DEF Built, t
<1>. QED  BY <1>2, <1>3

\* A line m of sysusers.d, or a member of a line u, only adds.
LEMMA JoinBuilds ==
    ASSUME NEW st, Built(st, st), NEW user \in UserName, NEW group \in GroupName
    PROVE  Built(st, Join(st, user, group))
<1> DEFINE t == Join(st, user, group)
           gs == [st.groups EXCEPT ![group].members = @ \cup {user}]
<1>1. /\ st \in BuildState
      /\ st.users \in [UserName -> User \cup {None}] /\ st.groups \in [GroupName -> Group \cup {None}]
      /\ st.declared \in SUBSET UserName /\ st.joined \in SUBSET (UserName \X GroupName)
      /\ Declared(st.users, st.groups, st.declared) /\ Joined(st.groups, st.joined)
  BY DEF Built, BuildState
<1>2. CASE st.groups[group] = None
  BY <1>2 DEF Join
<1>3. CASE st.groups[group] # None
  <2>1. st.groups[group] \in Group
    BY <1>1, <1>3
  <2> DEFINE grown == [st.groups[group] EXCEPT !.members = @ \cup {user}]
  <2>2. /\ grown \in Group /\ grown.gid = st.groups[group].gid
        /\ grown.members = st.groups[group].members \cup {user}
        /\ grown.admins = st.groups[group].admins
    BY <2>1 DEF Group
  <2>3. gs = [st.groups EXCEPT ![group] = grown]
    BY <1>1
  <2>. HIDE DEF grown
  <2>4. /\ gs \in [GroupName -> Group \cup {None}]
        /\ gs[group] = grown /\ \A n \in GroupName \ {group} : gs[n] = st.groups[n]
    BY <1>1, <2>2, <2>3
  <2> DEFINE pairs == st.joined \cup {<<user, group>>}
  <2>5. t = [st EXCEPT !.groups = gs, !.joined = pairs]
    BY <1>1, <1>3 DEF Join, BuildState
  <2>6. pairs \in SUBSET (UserName \X GroupName)
    BY <1>1
  <2>. HIDE DEF gs, pairs, t
  <2>7. /\ t \in BuildState /\ t.users = st.users /\ t.groups = gs
        /\ t.declared = st.declared /\ t.joined = pairs
    BY <1>1, <2>4, <2>5, <2>6 DEF BuildState
  <2>8. MoreUsers(st.users, st.users) /\ MoreGroups(st.groups, gs)
    BY <2>2, <2>4, NoneApart DEF MoreUsers, MoreGroups
  <2>9. Declared(st.users, gs, st.declared) /\ Joined(gs, st.joined)
    BY <1>1, <2>8, MoreKeeps
  <2>10. Joined(gs, t.joined)
    BY <2>2, <2>4, <2>7, <2>9, NoneApart DEF Joined, pairs
  <2>. QED  BY <2>7, <2>8, <2>9, <2>10 DEF Built, t
<1>. QED  BY <1>2, <1>3

\* Every directive.
LEMMA DirectiveBuilds ==
    ASSUME user_ids \in [UserName -> Id \cup {None}], group_ids \in [GroupName -> Id \cup {None}],
           NEW st, Built(st, st), NEW line \in SysusersLine
    PROVE  Built(st, Directive(st, line))
<1>1. CASE st.ok /\ line.type = "u"
  BY <1>1, UserLineBuilds DEF Directive
<1>2. CASE st.ok /\ line.type = "g"
  BY <1>2, GroupLineBuilds DEF Directive
<1>3. CASE st.ok /\ line.type = "m"
  <2>1. line.user \in UserName /\ line.group \in GroupName
    BY <1>3 DEF SysusersLine
  <2>. QED  BY <1>3, <2>1, JoinBuilds DEF Directive
<1>4. CASE ~st.ok \/ line.type \notin {"u", "g", "m"}
  BY <1>4 DEF Directive
<1>. QED  BY <1>1, <1>2, <1>3, <1>4

\* Adding to what was added to is adding.
LEMMA BuiltOn ==
    ASSUME NEW s, NEW t, NEW u, Built(s, t), Built(t, u), s.groups \in [GroupName -> Group \cup {None}]
    PROVE  Built(s, u)
<1>1. MoreUsers(s.users, u.users)
  BY DEF Built, MoreUsers
<1>2. MoreGroups(s.groups, u.groups)
  <2>1. MoreGroups(s.groups, t.groups) /\ MoreGroups(t.groups, u.groups)
    BY DEF Built
  <2>. QED  BY <2>1 DEF MoreGroups
<1>. QED  BY <1>1, <1>2 DEF Built

\* A sysusers.d file, however long and whatever its lines.
LEMMA FromSysusersBuilds ==
    ASSUME user_ids \in [UserName -> Id \cup {None}], group_ids \in [GroupName -> Id \cup {None}],
           NEW st, Built(st, st), NEW file \in Seq(SysusersLine)
    PROVE  Built(st, FromSysusers(st, file))
<1>1. st \in BuildState /\ st.groups \in [GroupName -> Group \cup {None}]
  BY DEF Built, BuildState
<1>2. CASE ParseFails(file)
  <2> DEFINE t == [st EXCEPT !.ok = FALSE]
  <2>1. t \in BuildState /\ t.users = st.users /\ t.groups = st.groups
        /\ t.declared = st.declared /\ t.joined = st.joined
    BY <1>1 DEF BuildState
  <2>2. FromSysusers(st, file) = t
    BY <1>2 DEF FromSysusers
  <2>. HIDE DEF t
  <2>. QED  BY <2>1, <2>2 DEF Built, MoreUsers, MoreGroups
<1>3. CASE ~ParseFails(file)
  <2> DEFINE Done(k) == AfterLines(st, file, k)
             T == {k \in 0 .. Len(file) : Built(st, Done(k))}
  <2>1. Len(file) \in Nat
    BY LenProperties
  <2>2. Done(0) = st /\ \A k \in 0 .. Len(file) - 1 : Done(k + 1) = Directive(Done(k), file[k + 1])
    BY LineByLine
  <2>. HIDE DEF Done
  <2>3. 0 \in T
    BY <2>1, <2>2
  <2>4. ASSUME NEW k \in 0 .. Len(file) - 1, k \in T PROVE k + 1 \in T
    <3>1. Built(st, Done(k)) /\ file[k + 1] \in SysusersLine /\ k + 1 \in 0 .. Len(file)
      BY <2>1, <2>4
    <3>2. Built(Done(k), Done(k))
      BY <3>1 DEF Built, BuildState, MoreUsers, MoreGroups
    <3>3. Built(Done(k), Done(k + 1))
      BY <2>2, <3>1, <3>2, DirectiveBuilds
    <3>. QED  BY <1>1, <3>1, <3>3, BuiltOn
  <2>5. Len(file) \in T
    <3>. HIDE DEF T
    <3>1. \A k \in 0 .. Len(file) : k \in T
      BY <2>1, <2>3, <2>4, UpTo
    <3>. QED  BY <2>1, <3>1
  <2>6. FromSysusers(st, file) = Done(Len(file))
    BY <1>3, LineByLine DEF FromSysusers, Done
  <2>. QED  BY <2>5, <2>6
<1>. QED  BY <1>2, <1>3

-----------------------------------------------------------------------------
(* The invariant *)

\* What is said of the aligned ids, while nothing is written.
AlignedHold ==
    /\ \A n \in aligned.users : users[n] # None /\ users[n].uid = SystemId(host.passwd, n)
    /\ \A n \in aligned.groups : groups[n] # None /\ groups[n].gid = SystemId(host.group, n)

\* What was checked and written is still what there is.
WrittenHolds == written # None => Sane(users, groups) /\ written = Files(users, groups)

PInv ==
    /\ PasswdTypeOK
    /\ Declared(users, groups, declared)
    /\ Joined(groups, joined)
    /\ AlignedHold
    /\ WrittenHolds

\* The state a sysusers.d file starts from.
LEMMA StateBuilt ==
    ASSUME PInv
    PROVE  /\ Built(State, State)
           /\ State.users = users /\ State.groups = groups
           /\ State.declared = declared /\ State.joined = joined
<1>1. State \in BuildState
  BY DEF PInv, PasswdTypeOK, State, BuildState
<1>2. State.users = users /\ State.groups = groups /\ State.declared = declared /\ State.joined = joined
  BY DEF State
<1>. HIDE DEF State
<1>. QED  BY <1>1, <1>2 DEF PInv, Built, MoreUsers, MoreGroups

\* A call keeps what it must: the rest of the invariant does not change.
LEMMA CallHolds ==
    ASSUME PInv, status = "building", calls' \in 0 .. MaxCalls,
           UNCHANGED <<user_ids, group_ids, host, written>>,
           status' \in {"building", "failed", "panicked"},
           users' \in [UserName -> User \cup {None}], groups' \in [GroupName -> Group \cup {None}],
           declared' \in SUBSET UserName, joined' \in SUBSET (UserName \X GroupName),
           aligned' \in [users : SUBSET UserName, groups : SUBSET GroupName],
           Declared(users', groups', declared'), Joined(groups', joined'), AlignedHold'
    PROVE  PInv'
<1>1. written = None /\ written' = None
  BY DEF PInv, PasswdTypeOK
<1>2. PasswdTypeOK'
  BY <1>1 DEF PInv, PasswdTypeOK
<1>. QED  BY <1>1, <1>2 DEF PInv, WrittenHolds

\* Calling counts.
LEMMA CallCounts ==
    ASSUME PInv, Calling
    PROVE  status = "building" /\ calls' \in 0 .. MaxCalls
           /\ UNCHANGED <<user_ids, group_ids, host, written>>
  BY PasswdAssumption DEF PInv, PasswdTypeOK, Calling

\* What the invariant says of the types of users and groups.
LEMMA TypesOf ==
    ASSUME PInv
    PROVE  /\ users \in [UserName -> User \cup {None}] /\ groups \in [GroupName -> Group \cup {None}]
           /\ declared \in SUBSET UserName /\ joined \in SUBSET (UserName \X GroupName)
           /\ aligned \in [users : SUBSET UserName, groups : SUBSET GroupName]
           /\ host \in HostFiles
           /\ Declared(users, groups, declared) /\ Joined(groups, joined) /\ AlignedHold
  BY PasswdAssumption DEF PInv, PasswdTypeOK

\* What only adds to users and groups keeps the aligned ids.
LEMMA MoreAligned ==
    ASSUME PInv, MoreUsers(users, users'), MoreGroups(groups, groups'), UNCHANGED <<aligned, host>>
    PROVE  AlignedHold'
<1>1. \A n \in aligned.users : n \in UserName
  BY TypesOf
<1>2. \A n \in aligned.groups : n \in GroupName
  BY TypesOf
<1>. QED  BY <1>1, <1>2 DEF PInv, AlignedHold, MoreUsers, MoreGroups

\* What a call sets is not aligned any more.
LEMMA SetAligned ==
    ASSUME PInv, NEW us, NEW gs, Sets(us, gs), host' = host,
           \A n \in UserName \ us : users'[n] = users[n],
           \A n \in GroupName \ gs : groups'[n] = groups[n]
    PROVE  AlignedHold' /\ aligned' \in [users : SUBSET UserName, groups : SUBSET GroupName]
<1>1. /\ aligned' = [users |-> aligned.users \ us, groups |-> aligned.groups \ gs]
      /\ aligned.users \in SUBSET UserName /\ aligned.groups \in SUBSET GroupName
      /\ AlignedHold
  BY TypesOf DEF Sets
<1>2. aligned'.users = aligned.users \ us /\ aligned'.groups = aligned.groups \ gs
  BY <1>1
<1>. QED  BY <1>1, <1>2 DEF AlignedHold

-----------------------------------------------------------------------------
(* The calls *)

\* add_user keeps the invariant.
LEMMA AddUserHolds ==
    ASSUME PInv, AddUser
    PROVE  PInv'
<1>1. PICK u \in NewUsers : /\ users' = [users EXCEPT ![u.name] = u]
                            /\ declared' = declared \ {u.name}
                            /\ Sets({u.name}, {})
  BY DEF AddUser
<1>2. u \in User /\ u.name \in UserName
  BY PasswdAssumption DEF User
<1>3. /\ users' \in [UserName -> User \cup {None}] /\ \A n \in UserName \ {u.name} : users'[n] = users[n]
      /\ UNCHANGED <<groups, status, joined>> /\ Calling
  BY <1>1, <1>2, TypesOf DEF AddUser
<1>4. AlignedHold' /\ aligned' \in [users : SUBSET UserName, groups : SUBSET GroupName]
  BY <1>1, <1>3, CallCounts, SetAligned
<1>5. Declared(users', groups', declared')
  BY <1>1, <1>3, TypesOf DEF Declared
<1>. QED  BY <1>1, <1>3, <1>4, <1>5, CallCounts, TypesOf, CallHolds

\* add_user_with_group keeps the invariant: the user has a group of its own.
LEMMA AddUserWithGroupHolds ==
    ASSUME PInv, AddUserWithGroup
    PROVE  PInv'
<1>1. PICK u \in NewUsers :
         /\ users' = [users EXCEPT ![u.name] = u]
         /\ groups' = [groups EXCEPT ![u.group] = NewGroup(u.group, u.uid)]
         /\ declared' = declared \cup {u.name}
         /\ joined' = {j \in joined : j[2] # u.group}
         /\ Sets({u.name}, {u.group})
  BY DEF AddUserWithGroup
<1>2. /\ u \in User /\ u.name \in UserName /\ u.group \in GroupName /\ u # None
      /\ NewGroup(u.group, u.uid) \in Group /\ NewGroup(u.group, u.uid) # None
  <2>1. u \in User
    BY PasswdAssumption
  <2>2. u.name \in UserName /\ u.group \in GroupName /\ u.uid \in Id
    BY <2>1 DEF User
  <2>. QED  BY <2>1, <2>2, NewTypes, NoneApart
<1>3. /\ users' \in [UserName -> User \cup {None}] /\ groups' \in [GroupName -> Group \cup {None}]
      /\ users'[u.name] = u /\ groups'[u.group] # None
      /\ \A n \in UserName \ {u.name} : users'[n] = users[n]
      /\ \A n \in GroupName \ {u.group} : groups'[n] = groups[n]
      /\ status' = status /\ Calling
  BY <1>1, <1>2, TypesOf DEF AddUserWithGroup
<1>4. AlignedHold' /\ aligned' \in [users : SUBSET UserName, groups : SUBSET GroupName]
  BY <1>1, <1>3, CallCounts, SetAligned
<1>5. Declared(users', groups', declared')
  <2>1. SUFFICES ASSUME NEW n \in declared, n # u.name
                 PROVE  users[n] # None /\ users[n].name = n /\ groups'[users[n].group] # None
    BY <1>1, <1>2, <1>3, TypesOf DEF Declared
  <2>2. users[n] # None /\ users[n].name = n /\ groups[users[n].group] # None /\ users[n] \in User
    BY TypesOf DEF Declared
  <2>3. users[n].group \in GroupName
    BY <2>2 DEF User
  <2>. QED  BY <1>3, <2>2, <2>3
<1>6. joined' \in SUBSET (UserName \X GroupName) /\ Joined(groups', joined')
  <2>1. \A j \in joined' : j \in joined /\ j[2] \in GroupName \ {u.group}
    BY <1>1, TypesOf
  <2>. QED  BY <1>3, <2>1, TypesOf DEF Joined
<1>7. declared' \in SUBSET UserName
  BY <1>1, <1>2, TypesOf
<1>. QED  BY <1>3, <1>4, <1>5, <1>6, <1>7, CallCounts, CallHolds

\* add_group keeps the invariant.
LEMMA AddGroupHolds ==
    ASSUME PInv, AddGroup
    PROVE  PInv'
<1>1. PICK g \in NewGroups : /\ groups' = [groups EXCEPT ![g.name] = g]
                             /\ joined' = {j \in joined : j[2] # g.name}
                             /\ Sets({}, {g.name})
  BY DEF AddGroup
<1>2. g \in Group /\ g.name \in GroupName /\ g # None
  BY PasswdAssumption, NoneApart DEF Group
<1>3. /\ groups' \in [GroupName -> Group \cup {None}] /\ groups'[g.name] # None
      /\ \A n \in GroupName \ {g.name} : groups'[n] = groups[n]
      /\ UNCHANGED <<users, status, declared>> /\ Calling
  BY <1>1, <1>2, TypesOf DEF AddGroup
<1>4. AlignedHold' /\ aligned' \in [users : SUBSET UserName, groups : SUBSET GroupName]
  BY <1>1, <1>3, CallCounts, SetAligned
<1>5. Declared(users', groups', declared')
  <2>1. SUFFICES ASSUME NEW n \in declared
                 PROVE  users[n] # None /\ users[n].name = n /\ groups'[users[n].group] # None
    BY <1>3 DEF Declared
  <2>2. users[n] # None /\ users[n].name = n /\ groups[users[n].group] # None /\ users[n] \in User
    BY TypesOf DEF Declared
  <2>3. users[n].group \in GroupName
    BY <2>2 DEF User
  <2>. QED  BY <1>3, <2>2, <2>3
<1>6. joined' \in SUBSET (UserName \X GroupName) /\ Joined(groups', joined')
  <2>1. \A j \in joined' : j \in joined /\ j[2] \in GroupName \ {g.name}
    BY <1>1, TypesOf
  <2>. QED  BY <1>3, <2>1, TypesOf DEF Joined
<1>. QED  BY <1>3, <1>4, <1>5, <1>6, CallCounts, TypesOf, CallHolds

\* add_user_to_groups keeps the invariant: members are added only.
LEMMA AddUserToGroupsHolds ==
    ASSUME PInv, AddUserToGroups
    PROVE  PInv'
<1>1. PICK m \in Memberships : /\ groups' = Join(State, m[1], m[2]).groups
                               /\ joined' = Join(State, m[1], m[2]).joined
  BY DEF AddUserToGroups
<1> DEFINE st == Join(State, m[1], m[2])
<1>2. Built(State, st)
  <2>1. m[1] \in UserName /\ m[2] \in GroupName
    BY PasswdAssumption
  <2>. QED  BY <2>1, StateBuilt, JoinBuilds
<1>3. st.users = users /\ st.declared = declared
  BY StateBuilt DEF Join, State
<1>. HIDE DEF st
<1>4. /\ groups' = st.groups /\ joined' = st.joined
      /\ UNCHANGED <<users, status, declared, aligned>> /\ Calling
  BY <1>1 DEF AddUserToGroups, st
<1>5. /\ groups' \in [GroupName -> Group \cup {None}] /\ joined' \in SUBSET (UserName \X GroupName)
      /\ Declared(users, groups', declared) /\ Joined(groups', joined')
      /\ MoreUsers(users, users) /\ MoreGroups(groups, groups')
  BY <1>2, <1>3, <1>4, StateBuilt DEF Built, BuildState
<1>6. AlignedHold'
  BY <1>4, <1>5, CallCounts, MoreAligned
<1>. QED  BY <1>4, <1>5, <1>6, CallCounts, TypesOf, CallHolds

\* add_user_to_groups_as_admin keeps the invariant.
LEMMA AddUserToGroupsAsAdminHolds ==
    ASSUME PInv, AddUserToGroupsAsAdmin
    PROVE  PInv'
<1>1. PICK m \in Memberships :
         groups' = IF groups[m[2]] = None THEN groups
                   ELSE [groups EXCEPT ![m[2]].admins = @ \cup {m[1]}]
  BY DEF AddUserToGroupsAsAdmin
<1>2. /\ UNCHANGED <<users, status, declared, joined, aligned>> /\ Calling
      /\ m[1] \in UserName /\ m[2] \in GroupName
  BY PasswdAssumption DEF AddUserToGroupsAsAdmin
<1>3. /\ groups' \in [GroupName -> Group \cup {None}]
      /\ \A n \in GroupName : groups[n] # None => /\ groups'[n] # None
                                                  /\ groups'[n].gid = groups[n].gid
                                                  /\ groups'[n].members = groups[n].members
  <2>1. CASE groups[m[2]] = None
    BY <1>1, <2>1, TypesOf
  <2>2. CASE groups[m[2]] # None
    <3> DEFINE g == [groups[m[2]] EXCEPT !.admins = @ \cup {m[1]}]
    <3>1. groups[m[2]] \in Group
      BY <1>2, <2>2, TypesOf
    <3>2. g \in Group /\ g.gid = groups[m[2]].gid /\ g.members = groups[m[2]].members
      BY <1>2, <3>1 DEF Group
    <3>3. groups' = [groups EXCEPT ![m[2]] = g]
      BY <1>1, <1>2, <2>2, TypesOf
    <3>. HIDE DEF g
    <3>. QED  BY <1>2, <3>2, <3>3, TypesOf, NoneApart
  <2>. QED  BY <2>1, <2>2
<1>4. Joined(groups', joined')
  <2>1. \A j \in joined : j[2] \in GroupName /\ groups[j[2]] # None /\ j[1] \in groups[j[2]].members
    BY TypesOf DEF Joined
  <2>. QED  BY <1>2, <1>3, <2>1 DEF Joined
<1>5. Declared(users', groups', declared')
  <2>1. SUFFICES ASSUME NEW n \in declared
                 PROVE  users[n] # None /\ users[n].name = n /\ groups'[users[n].group] # None
    BY <1>2 DEF Declared
  <2>2. users[n] # None /\ users[n].name = n /\ groups[users[n].group] # None /\ users[n] \in User
    BY TypesOf DEF Declared
  <2>3. users[n].group \in GroupName
    BY <2>2 DEF User
  <2>. QED  BY <1>3, <2>2, <2>3
<1>6. AlignedHold'
  <2>1. \A n \in aligned.groups : n \in GroupName
    BY TypesOf
  <2>. QED  BY <1>2, <1>3, <2>1, CallCounts, TypesOf DEF AlignedHold
<1>. QED  BY <1>2, <1>3, <1>4, <1>5, <1>6, CallCounts, TypesOf, CallHolds

\* Where the call fails, nothing changes.
LEMMA FailureHolds ==
    ASSUME PInv, status = "building", calls' \in 0 .. MaxCalls, status' \in {"failed", "panicked"},
           UNCHANGED <<users, groups, user_ids, group_ids, host, written, declared, joined, aligned>>
    PROVE  PInv'
<1>1. AlignedHold'
  BY TypesOf DEF AlignedHold
<1>. QED  BY <1>1, TypesOf, CallHolds

\* update_user keeps the invariant.
LEMMA UpdateUserHolds ==
    ASSUME PInv, UpdateUser
    PROVE  PInv'
<1>1. PICK i \in DOMAIN UserUpdates : LET f == UserUpdates[i] IN
         IF UpdatedBy(f, users) = None THEN status' = "panicked" /\ UNCHANGED <<users, declared, aligned>>
         ELSE /\ users' = [users EXCEPT ![f.name] = UpdatedBy(f, users)]
              /\ declared' = declared \ {f.name}
              /\ Sets({f.name}, {})
              /\ UNCHANGED status
  BY DEF UpdateUser
<1> DEFINE f == UserUpdates[i]
           u == UpdatedBy(f, users)
<1>2. UNCHANGED <<groups, joined>> /\ Calling /\ IsUpdate(f, UserName, User)
  BY PasswdAssumption DEF UpdateUser
<1>. HIDE DEF f
<1>3. CASE u = None
  <2>1. status' = "panicked" /\ UNCHANGED <<users, declared, aligned>>
    BY <1>1, <1>3 DEF f
  <2>. QED  BY <1>2, <2>1, CallCounts, FailureHolds
<1>4. CASE u # None
  <2>1. /\ users' = [users EXCEPT ![f.name] = u]
        /\ declared' = declared \ {f.name} /\ Sets({f.name}, {}) /\ status' = status
    BY <1>1, <1>4 DEF f
  <2>2. f.name \in UserName
    BY <1>2 DEF IsUpdate
  <2>3. u \in User
    <3>1. users[f.name] \in User /\ u = f.func[users[f.name]]
      BY <1>4, <2>2, TypesOf DEF UpdatedBy
    <3>. QED  BY <1>2, <1>4, <3>1 DEF IsUpdate
  <2>. HIDE DEF u
  <2>5. users' \in [UserName -> User \cup {None}] /\ \A n \in UserName \ {f.name} : users'[n] = users[n]
    BY <2>1, <2>2, <2>3, TypesOf
  <2>6. AlignedHold' /\ aligned' \in [users : SUBSET UserName, groups : SUBSET GroupName]
    BY <1>2, <2>1, <2>5, CallCounts, SetAligned
  <2>7. Declared(users', groups', declared')
    BY <1>2, <2>1, <2>5, TypesOf DEF Declared
  <2>. QED  BY <1>2, <2>1, <2>5, <2>6, <2>7, CallCounts, TypesOf, CallHolds
<1>. QED  BY <1>3, <1>4

\* A group may get another id or name, or be another group; the members it keeps stay joined.
LEMMA UpdateGroupHolds ==
    ASSUME PInv, UpdateGroup
    PROVE  PInv'
<1>1. PICK i \in DOMAIN GroupUpdates : LET f == GroupUpdates[i] IN
         IF UpdatedBy(f, groups) = None THEN status' = "panicked" /\ UNCHANGED <<groups, joined, aligned>>
         ELSE /\ groups' = [groups EXCEPT ![f.name] = UpdatedBy(f, groups)]
              /\ joined' = {j \in joined : j[2] = f.name => j[1] \in UpdatedBy(f, groups).members}
              /\ Sets({}, {f.name})
              /\ UNCHANGED status
  BY DEF UpdateGroup
<1> DEFINE f == GroupUpdates[i]
           g == UpdatedBy(f, groups)
<1>2. UNCHANGED <<users, declared>> /\ Calling /\ IsUpdate(f, GroupName, Group)
  BY PasswdAssumption DEF UpdateGroup
<1>. HIDE DEF f
<1>3. CASE g = None
  <2>1. status' = "panicked" /\ UNCHANGED <<groups, joined, aligned>>
    BY <1>1, <1>3 DEF f
  <2>. QED  BY <1>2, <2>1, CallCounts, FailureHolds
<1>4. CASE g # None
  <2>1. /\ groups' = [groups EXCEPT ![f.name] = g]
        /\ joined' = {j \in joined : j[2] = f.name => j[1] \in g.members}
        /\ Sets({}, {f.name}) /\ status' = status
    BY <1>1, <1>4 DEF f
  <2>2. f.name \in GroupName
    BY <1>2 DEF IsUpdate
  <2>3. g \in Group
    <3>1. groups[f.name] \in Group /\ g = f.func[groups[f.name]]
      BY <1>4, <2>2, TypesOf DEF UpdatedBy
    <3>. QED  BY <1>2, <1>4, <3>1 DEF IsUpdate
  <2>. HIDE DEF g
  <2>5. /\ groups' \in [GroupName -> Group \cup {None}] /\ groups'[f.name] = g
        /\ \A n \in GroupName \ {f.name} : groups'[n] = groups[n]
        /\ \A n \in GroupName : groups[n] # None => groups'[n] # None
    BY <2>1, <2>2, <2>3, TypesOf, NoneApart
  <2>6. AlignedHold' /\ aligned' \in [users : SUBSET UserName, groups : SUBSET GroupName]
    BY <1>2, <2>1, <2>5, CallCounts, SetAligned
  <2>7. Joined(groups', joined')
    <3>1. \A j \in joined : j[2] \in GroupName /\ groups[j[2]] # None /\ j[1] \in groups[j[2]].members
      BY TypesOf DEF Joined
    <3>. QED  BY <1>4, <2>1, <2>5, <3>1 DEF Joined
  <2>8. Declared(users', groups', declared')
    <3>1. SUFFICES ASSUME NEW n \in declared
                   PROVE  users[n] # None /\ users[n].name = n /\ groups'[users[n].group] # None
      BY <1>2 DEF Declared
    <3>2. users[n] # None /\ users[n].name = n /\ groups[users[n].group] # None /\ users[n] \in User
      BY TypesOf DEF Declared
    <3>3. users[n].group \in GroupName
      BY <3>2 DEF User
    <3>. QED  BY <2>5, <3>2, <3>3
  <2>. QED  BY <1>2, <2>1, <2>5, <2>6, <2>7, <2>8, CallCounts, TypesOf, CallHolds
<1>. QED  BY <1>3, <1>4

\* What a sysusers.d file makes of the users and groups.
LEMMA FileBuilds ==
    ASSUME PInv, AddFromSysusers
    PROVE  /\ users' \in [UserName -> User \cup {None}] /\ groups' \in [GroupName -> Group \cup {None}]
           /\ declared' \in SUBSET UserName /\ joined' \in SUBSET (UserName \X GroupName)
           /\ Declared(users', groups', declared') /\ Joined(groups', joined')
           /\ MoreUsers(users, users') /\ MoreGroups(groups, groups')
           /\ status' \in {status, "failed"} /\ aligned' = aligned /\ Calling
<1>1. PICK file \in SysusersFiles : LET st == FromSysusers(State, file) IN
         /\ users' = st.users /\ groups' = st.groups
         /\ declared' = st.declared /\ joined' = st.joined
         /\ status' = IF st.ok THEN status ELSE "failed"
  BY DEF AddFromSysusers
<1> DEFINE st == FromSysusers(State, file)
<1>2. Built(State, st)
  <2>1. file \in Seq(SysusersLine)
    BY PasswdAssumption
  <2>2. user_ids \in [UserName -> Id \cup {None}] /\ group_ids \in [GroupName -> Id \cup {None}]
    BY DEF PInv, PasswdTypeOK
  <2>. QED  BY <2>1, <2>2, StateBuilt, FromSysusersBuilds
<1>3. /\ users' = st.users /\ groups' = st.groups
      /\ declared' = st.declared /\ joined' = st.joined
      /\ status' \in {status, "failed"}
  BY <1>1
<1>. HIDE DEF st
<1>4. aligned' = aligned /\ Calling
  BY DEF AddFromSysusers
<1>. QED  BY <1>2, <1>3, <1>4, StateBuilt DEF Built, BuildState

\* add_from_sysusers keeps the invariant, for files of any length.
LEMMA AddFromSysusersHolds ==
    ASSUME PInv, AddFromSysusers
    PROVE  PInv'
<1>1. AlignedHold'
  BY FileBuilds, CallCounts, MoreAligned
<1>. QED  BY <1>1, FileBuilds, CallCounts, TypesOf, CallHolds

-----------------------------------------------------------------------------
(* The files of the system *)

\* Of the lines of a name the last one is a line.
LEMMA LastLine ==
    ASSUME NEW S, NEW file \in Seq(S), NEW name, Lines(file, name) # {}
    PROVE  file[Max(Lines(file, name))] \in S
<1>1. Len(file) \in Nat /\ DOMAIN file = 1 .. Len(file)
  OBVIOUS
<1>2. Lines(file, name) \subseteq DOMAIN file
  BY DEF Lines
<1>3. Lines(file, name) \in SUBSET (0 .. Len(file))
  BY <1>1, <1>2
<1>4. Max(Lines(file, name)) \in Lines(file, name)
  BY <1>1, <1>3, GreatestOf
<1>5. Max(Lines(file, name)) \in DOMAIN file
  BY <1>2, <1>4
<1>. QED  BY <1>1, <1>5

\* An id of a readable file is an id.
LEMMA SystemIdTypes ==
    ASSUME NEW names, NEW file \in Seq([name : names, id : Id \cup {None}]), ~Unreadable(file),
           NEW name, Lines(file, name) # {}
    PROVE  SystemId(file, name) \in Id
<1>1. file[Max(Lines(file, name))] \in [name : names, id : Id \cup {None}]
  BY LastLine
<1>2. Max(Lines(file, name)) \in DOMAIN file
  <2>1. Lines(file, name) \in SUBSET (0 .. Len(file)) /\ Len(file) \in Nat
    BY DEF Lines
  <2>2. Max(Lines(file, name)) \in Lines(file, name)
    BY <2>1, GreatestOf
  <2>. QED  BY <2>2 DEF Lines
<1>3. file[Max(Lines(file, name))].id # None
  BY <1>2 DEF Unreadable
<1>. QED  BY <1>1, <1>3 DEF SystemId

\* passwd_from_system keeps the invariant.
LEMMA PasswdFromSystemHolds ==
    ASSUME PInv, PasswdFromSystem
    PROVE  PInv'
<1>1. PICK names \in SUBSET UserName : users' = SystemPasswords(users, names, host.shadow)
  BY DEF PasswdFromSystem
<1>2. UNCHANGED <<groups, status, declared, joined, aligned>> /\ Calling
  BY DEF PasswdFromSystem
<1>3. /\ DOMAIN users' = UserName /\ users' = [n \in UserName |-> users'[n]]
      /\ \A n \in UserName :
            /\ users'[n] \in User \cup {None}
            /\ users[n] = None => users'[n] = None
            /\ users[n] # None => /\ users'[n] # None /\ users'[n].name = users[n].name
                                  /\ users'[n].uid = users[n].uid /\ users'[n].group = users[n].group
  <2>1. SUFFICES ASSUME NEW n \in UserName
                 PROVE  /\ users'[n] \in User \cup {None}
                        /\ users[n] = None => users'[n] = None
                        /\ users[n] # None =>
                              /\ users'[n] # None /\ users'[n].name = users[n].name
                              /\ users'[n].uid = users[n].uid /\ users'[n].group = users[n].group
    BY <1>1 DEF SystemPasswords
  <2> DEFINE line == host.shadow[Max(Lines(host.shadow, n))]
  <2>2. users'[n] = IF users[n] # None /\ n \in names /\ Lines(host.shadow, n) # {}
                    THEN [users[n] EXCEPT !.passwd = line.passwd] ELSE users[n]
    BY <1>1 DEF SystemPasswords
  <2>3. CASE users[n] # None /\ n \in names /\ Lines(host.shadow, n) # {}
    <3>1. host.shadow \in Seq([name : UserName, passwd : Password])
      BY TypesOf DEF HostFiles
    <3>2. line \in [name : UserName, passwd : Password]
      BY <2>3, <3>1, LastLine
    <3>3. users[n] \in User
      BY <2>3, TypesOf
    <3>. HIDE DEF line
    <3>4. users'[n] = [users[n] EXCEPT !.passwd = line.passwd]
      BY <2>2, <2>3
    <3>5. users'[n] \in User
      BY <3>2, <3>3, <3>4 DEF User
    <3>6. users'[n].name = users[n].name /\ users'[n].uid = users[n].uid /\ users'[n].group = users[n].group
      BY <3>2, <3>3, <3>4 DEF User
    <3>. QED  BY <2>3, <3>5, <3>6, NoneApart
  <2>4. CASE ~(users[n] # None /\ n \in names /\ Lines(host.shadow, n) # {})
    BY <2>2, <2>4, TypesOf
  <2>. QED  BY <2>3, <2>4
<1>4. users' \in [UserName -> User \cup {None}]
  BY <1>3
<1>5. Declared(users', groups', declared')
  BY <1>2, <1>3, TypesOf DEF Declared
<1>6. AlignedHold'
  <2>1. \A n \in aligned.users : n \in UserName
    BY TypesOf
  <2>. QED  BY <1>2, <1>3, <2>1, CallCounts, TypesOf DEF AlignedHold
<1>. QED  BY <1>2, <1>4, <1>5, <1>6, CallCounts, TypesOf, CallHolds

\* Names, groups and members are not aligned, only ids.
LEMMA AlignIdsWithSystemHolds ==
    ASSUME PInv, AlignIdsWithSystem
    PROVE  PInv'
<1> DEFINE Able == Sane(users, groups) /\ ~Unreadable(host.passwd) /\ ~Unreadable(host.group)
<1>1. /\ status = "building" /\ calls' \in 0 .. MaxCalls
      /\ UNCHANGED <<user_ids, group_ids, host, written, declared, joined>>
  BY PasswdAssumption DEF AlignIdsWithSystem, PInv, PasswdTypeOK
<1>2. CASE ~Able
  <2>1. status' = "failed" /\ UNCHANGED <<users, groups, aligned>>
    BY <1>2 DEF AlignIdsWithSystem
  <2>. QED  BY <1>1, <2>1, FailureHolds
<1>3. CASE Able
  <2>1. /\ users' = AlignUsers(users, host.passwd) /\ groups' = AlignGroups(groups, host.group)
        /\ aligned' = [users  |-> {n \in Users(users) : Lines(host.passwd, n) # {}},
                       groups |-> {n \in Groups(groups) : Lines(host.group, n) # {}}]
        /\ status' = status
    BY <1>3 DEF AlignIdsWithSystem
  <2>2. /\ host.passwd \in Seq([name : UserName, id : Id \cup {None}])
        /\ host.group \in Seq([name : GroupName, id : Id \cup {None}])
    BY TypesOf DEF HostFiles
  <2>3. ASSUME NEW n \in UserName
        PROVE  /\ users'[n] \in User \cup {None}
               /\ users[n] # None => /\ users'[n] # None
                                     /\ users'[n].name = users[n].name /\ users'[n].group = users[n].group
               /\ users[n] # None /\ Lines(host.passwd, n) # {} =>
                     users'[n].uid = SystemId(host.passwd, n)
    <3> DEFINE id == SystemId(host.passwd, n)
    <3>1. users'[n] = IF users[n] # None /\ Lines(host.passwd, n) # {}
                      THEN [users[n] EXCEPT !.uid = id] ELSE users[n]
      BY <2>1 DEF AlignUsers
    <3>2. CASE users[n] # None /\ Lines(host.passwd, n) # {}
      <4>1. id \in Id /\ users[n] \in User
        BY <1>3, <2>2, <3>2, SystemIdTypes, TypesOf
      <4>2. users'[n] = [users[n] EXCEPT !.uid = id]
        BY <3>1, <3>2
      <4>. HIDE DEF id
      <4>3. users'[n] \in User /\ users'[n].uid = id
            /\ users'[n].name = users[n].name /\ users'[n].group = users[n].group
        BY <4>1, <4>2 DEF User
      <4>. QED  BY <4>3, NoneApart DEF id
    <3>3. CASE ~(users[n] # None /\ Lines(host.passwd, n) # {})
      BY <3>1, <3>3, TypesOf
    <3>. QED  BY <3>2, <3>3
  <2>4. ASSUME NEW n \in GroupName
        PROVE  /\ groups'[n] \in Group \cup {None}
               /\ groups[n] # None => groups'[n] # None /\ groups'[n].members = groups[n].members
               /\ groups[n] # None /\ Lines(host.group, n) # {} =>
                     groups'[n].gid = SystemId(host.group, n)
    <3> DEFINE id == SystemId(host.group, n)
    <3>1. groups'[n] = IF groups[n] # None /\ Lines(host.group, n) # {}
                       THEN [groups[n] EXCEPT !.gid = id] ELSE groups[n]
      BY <2>1 DEF AlignGroups
    <3>2. CASE groups[n] # None /\ Lines(host.group, n) # {}
      <4>1. id \in Id /\ groups[n] \in Group
        BY <1>3, <2>2, <3>2, SystemIdTypes, TypesOf
      <4>2. groups'[n] = [groups[n] EXCEPT !.gid = id]
        BY <3>1, <3>2
      <4>. HIDE DEF id
      <4>3. groups'[n] \in Group /\ groups'[n].gid = id /\ groups'[n].members = groups[n].members
        BY <4>1, <4>2 DEF Group
      <4>. QED  BY <4>3, NoneApart DEF id
    <3>3. CASE ~(groups[n] # None /\ Lines(host.group, n) # {})
      BY <3>1, <3>3, TypesOf
    <3>. QED  BY <3>2, <3>3
  <2>5. users' \in [UserName -> User \cup {None}] /\ groups' \in [GroupName -> Group \cup {None}]
    <3>1. /\ users' = [n \in UserName |-> users'[n]]
          /\ groups' = [n \in GroupName |-> groups'[n]]
      BY <2>1 DEF AlignUsers, AlignGroups
    <3>. QED  BY <2>3, <2>4, <3>1
  <2>6. /\ aligned' \in [users : SUBSET UserName, groups : SUBSET GroupName]
        /\ \A n \in aligned'.users :
              n \in UserName /\ users[n] # None /\ Lines(host.passwd, n) # {}
        /\ \A n \in aligned'.groups :
              n \in GroupName /\ groups[n] # None /\ Lines(host.group, n) # {}
    BY <2>1 DEF Users, Groups
  <2>7. AlignedHold'
    BY <1>1, <2>3, <2>4, <2>6 DEF AlignedHold
  <2>8. Declared(users', groups', declared')
    <3>1. SUFFICES ASSUME NEW n \in declared
                   PROVE  users'[n] # None /\ users'[n].name = n /\ groups'[users'[n].group] # None
      BY <1>1 DEF Declared
    <3>2. n \in UserName /\ users[n] # None /\ users[n].name = n /\ groups[users[n].group] # None
          /\ users[n] \in User
      BY TypesOf DEF Declared
    <3>3. users[n].group \in GroupName
      BY <3>2 DEF User
    <3>. QED  BY <2>3, <2>4, <3>2, <3>3
  <2>9. Joined(groups', joined')
    <3>1. \A j \in joined : j[2] \in GroupName /\ groups[j[2]] # None /\ j[1] \in groups[j[2]].members
      BY TypesOf DEF Joined
    <3>. QED  BY <1>1, <2>4, <3>1 DEF Joined
  <2>. QED  BY <1>1, <2>1, <2>5, <2>6, <2>7, <2>8, <2>9, TypesOf, CallHolds
<1>. QED  BY <1>2, <1>3

-----------------------------------------------------------------------------
(* The first and the last call *)

\* Passwd::new takes each name to the id it is paired with.
LEMMA ToMapTypes ==
    ASSUME NEW names, NEW pairs \in Seq(names \X Id)
    PROVE  ToMap(pairs, names) \in [names -> Id \cup {None}]
<1>1. SUFFICES ASSUME NEW n \in names, \E i \in DOMAIN pairs : pairs[i][1] = n
               PROVE  (CHOOSE q \in {pairs[i] : i \in DOMAIN pairs} : q[1] = n)[2] \in Id
  BY DEF ToMap
<1> DEFINE q == CHOOSE q \in {pairs[i] : i \in DOMAIN pairs} : q[1] = n
<1>2. q \in {pairs[i] : i \in DOMAIN pairs}
  BY <1>1
<1>3. \A i \in DOMAIN pairs : pairs[i] \in names \X Id
  OBVIOUS
<1>. HIDE DEF q
<1>4. q \in names \X Id
  BY <1>2, <1>3
<1>. QED  BY <1>4 DEF q

\* Passwd::new starts with what the invariant allows.
LEMMA NewHolds ==
    ASSUME PInv, New
    PROVE  PInv'
<1>1. PICK m \in Mappings :
         IF NoDuplicates(m.users) /\ NoDuplicates(m.groups)
         THEN /\ user_ids' = ToMap(m.users, UserName) /\ group_ids' = ToMap(m.groups, GroupName)
              /\ status' = "building"
         ELSE status' = "failed" /\ UNCHANGED <<user_ids, group_ids>>
  BY DEF New
<1>2. /\ status = "new"
      /\ UNCHANGED <<users, groups, host, calls, written, declared, joined, aligned>>
  BY DEF New
<1>3. ToMap(m.users, UserName) \in [UserName -> Id \cup {None}]
      /\ ToMap(m.groups, GroupName) \in [GroupName -> Id \cup {None}]
  BY PasswdAssumption, ToMapTypes
<1>4. /\ user_ids' \in [UserName -> Id \cup {None}] /\ group_ids' \in [GroupName -> Id \cup {None}]
      /\ status' \in {"building", "failed"}
  BY <1>1, <1>3 DEF PInv, PasswdTypeOK
<1>5. PasswdTypeOK'
  BY <1>2, <1>4 DEF PInv, PasswdTypeOK
<1>6. AlignedHold' /\ WrittenHolds'
  BY <1>2 DEF PInv, AlignedHold, WrittenHolds, PasswdTypeOK
<1>. QED  BY <1>2, <1>5, <1>6 DEF PInv

\* What apply writes has the form of the four files.
LEMMA FilesTypes ==
    ASSUME PInv
    PROVE  Files(users, groups) \in FileSet
<1>1. \A n \in Users(users) : n \in UserName /\ users[n] \in User
  BY TypesOf DEF Users
<1>2. \A n \in Groups(groups) : n \in GroupName /\ groups[n] \in Group
  BY TypesOf DEF Groups
<1>3. ASSUME NEW n \in Users(users)
      PROVE  /\ users[n].name \in UserName /\ users[n].uid \in Id /\ users[n].passwd \in Password
             /\ (IF groups[users[n].group] = None THEN 0 ELSE groups[users[n].group].gid) \in Nat
  <2>1. users[n] \in User
    BY <1>1
  <2>2. users[n].name \in UserName /\ users[n].uid \in Id /\ users[n].passwd \in Password
        /\ users[n].group \in GroupName
    BY <2>1 DEF User
  <2>3. groups[users[n].group] # None => groups[users[n].group].gid \in Id
    BY <2>2, TypesOf DEF Group
  <2>4. Id \subseteq Nat
    BY PasswdAssumption DEF Id
  <2>. QED  BY <2>2, <2>3, <2>4
<1>4. ASSUME NEW n \in Groups(groups)
      PROVE  /\ groups[n].name \in GroupName /\ groups[n].gid \in Id
             /\ groups[n].members \in SUBSET UserName /\ groups[n].admins \in SUBSET UserName
  BY <1>2 DEF Group
<1>5. FormatPasswd(users, groups) \in SUBSET [name : UserName, uid : Id, gid : Nat]
  BY <1>3 DEF FormatPasswd
<1>6. FormatShadow(users) \in SUBSET [name : UserName, passwd : Password]
  BY <1>3 DEF FormatShadow
<1>7. FormatGroup(groups) \in SUBSET [name : GroupName, gid : Id, members : SUBSET UserName]
  BY <1>4 DEF FormatGroup
<1>8. FormatGshadow(groups) \in
         SUBSET [name : GroupName, admins : SUBSET UserName, members : SUBSET UserName]
  BY <1>4 DEF FormatGshadow
<1>. QED  BY <1>5, <1>6, <1>7, <1>8 DEF Files, FileSet

\* apply writes what the invariant says it does.
LEMMA ApplyHolds ==
    ASSUME PInv, Apply
    PROVE  PInv'
<1>1. /\ status = "building"
      /\ UNCHANGED <<users, groups, user_ids, group_ids, host, calls, declared, joined, aligned>>
  BY DEF Apply
<1>2. CASE ~Sane(users, groups)
  <2>1. status' = "failed" /\ written' = written
    BY <1>2 DEF Apply
  <2>. QED  BY <1>1, <2>1, FailureHolds DEF PInv, PasswdTypeOK
<1>3. CASE Sane(users, groups)
  <2>1. status' = "written" /\ written' = Files(users, groups)
    BY <1>3 DEF Apply
  <2>2. written' \in FileSet /\ written' # None
    BY <2>1, FilesTypes, NoneApart
  <2>3. PasswdTypeOK'
    BY <1>1, <2>1, <2>2 DEF PInv, PasswdTypeOK
  <2>4. Sane(users', groups') /\ written' = Files(users', groups')
    BY <1>1, <1>3, <2>1
  <2>5. WrittenHolds'
    BY <2>4 DEF WrittenHolds
  <2>6. AlignedHold'
    BY <1>1, TypesOf DEF AlignedHold
  <2>. QED  BY <1>1, <2>3, <2>5, <2>6, TypesOf DEF PInv
<1>. QED  BY <1>2, <1>3

-----------------------------------------------------------------------------
(* Every behaviour *)

\* The first state satisfies the invariant.
LEMMA StartHolds ==
    ASSUME PasswdInit
    PROVE  PInv
<1>1. PasswdTypeOK
  BY PasswdAssumption DEF PasswdInit, PasswdTypeOK
<1>. QED  BY <1>1 DEF PasswdInit, PInv, Declared, Joined, AlignedHold, WrittenHolds

\* What does not concern users and groups leaves it.
LEMMA StutterHolds ==
    ASSUME PInv, UNCHANGED passwdVars
    PROVE  PInv'
<1>1. UNCHANGED <<users, groups, user_ids, group_ids, host, status, calls, written, declared, joined, aligned>>
  BY DEF passwdVars
<1>2. PasswdTypeOK'
  BY <1>1 DEF PInv, PasswdTypeOK
<1>3. AlignedHold' /\ WrittenHolds'
  BY <1>1 DEF PInv, AlignedHold, WrittenHolds
<1>. QED  BY <1>1, <1>2, <1>3 DEF PInv

\* Every step of the builder keeps it.
LEMMA PasswdStepHolds ==
    ASSUME PInv, [PasswdNext]_passwdVars
    PROVE  PInv'
<1>1. CASE UNCHANGED passwdVars
  BY <1>1, StutterHolds
<1>2. CASE New
  BY <1>2, NewHolds
<1>3. CASE AddUser
  BY <1>3, AddUserHolds
<1>4. CASE AddUserWithGroup
  BY <1>4, AddUserWithGroupHolds
<1>5. CASE AddGroup
  BY <1>5, AddGroupHolds
<1>6. CASE AddUserToGroups
  BY <1>6, AddUserToGroupsHolds
<1>7. CASE AddUserToGroupsAsAdmin
  BY <1>7, AddUserToGroupsAsAdminHolds
<1>8. CASE UpdateUser
  BY <1>8, UpdateUserHolds
<1>9. CASE UpdateGroup
  BY <1>9, UpdateGroupHolds
<1>10. CASE AddFromSysusers
  BY <1>10, AddFromSysusersHolds
<1>11. CASE PasswdFromSystem
  BY <1>11, PasswdFromSystemHolds
<1>12. CASE AlignIdsWithSystem
  BY <1>12, AlignIdsWithSystemHolds
<1>13. CASE Apply
  BY <1>13, ApplyHolds
<1>. QED
  BY <1>1, <1>2, <1>3, <1>4, <1>5, <1>6, <1>7, <1>8, <1>9, <1>10, <1>11, <1>12, <1>13 DEF PasswdNext

\* Of the statements of a script only the calls of Passwd change its variables.
LEMMA ScriptSteps ==
    /\ ScriptInit => PasswdInit
    /\ [ScriptNext]_scriptVars => [PasswdNext]_passwdVars
<1>1. ScriptInit => PasswdInit
  BY DEF ScriptInit
<1>2. ASSUME [ScriptNext]_scriptVars PROVE [PasswdNext]_passwdVars
  <2>1. CASE UNCHANGED scriptVars
    BY <2>1 DEF scriptVars
  <2>2. CASE Patch
    BY <2>2 DEF Patch
  <2>3. CASE NextStatement
    BY <2>3 DEF NextStatement
  <2>4. CASE BuildUsers
    BY <2>4 DEF BuildUsers
  <2>5. CASE MakeCalls
    BY <2>5 DEF MakeCalls
  <2>. QED  BY <1>2, <2>1, <2>2, <2>3, <2>4, <2>5 DEF ScriptNext
<1>. QED  BY <1>1, <1>2

\* The inductive invariant holds in every state of a script.
THEOREM PasswdInvariant == ScriptSpec => []PInv
<1>1. ScriptInit => PInv
  BY ScriptSteps, StartHolds
<1>2. PInv /\ [ScriptNext]_scriptVars => PInv'
  BY ScriptSteps, PasswdStepHolds
<1>. QED  BY <1>1, <1>2, PTL DEF ScriptSpec

\* Type correctness of users and groups: what Passwd keeps in its maps, and what it writes,
\* are users, groups and ids of the types of the code, through all calls.
THEOREM UsersTyped == ScriptSpec => []PasswdTypeOK
<1>1. PInv => PasswdTypeOK
  BY DEF PInv
<1>. QED  BY <1>1, PasswdInvariant, PTL

\* Members are kept: what add_user_to_groups or a sysusers.d file put into a group is in it
\* until the script sets that group anew.
THEOREM MembersKept == ScriptSpec => []MembersAreKept
<1>1. PInv => MembersAreKept
  BY DEF PInv, Joined, MembersAreKept
<1>. QED  BY <1>1, PasswdInvariant, PTL

\* Aligned ids stay: an id that align_ids_with_system took from the host is the one that is
\* written, unless the script sets that user or group afterwards.
THEOREM AlignedKept == ScriptSpec => []AlignedKeepTheirIds
<1>1. ASSUME PInv PROVE AlignedKeepTheirIds
  <2>1. AlignedHold /\ WrittenHolds /\ aligned.users \in SUBSET UserName
    BY <1>1, TypesOf DEF PInv
  <2>2. ASSUME written # None, NEW n \in aligned.users
        PROVE  \E p \in written.passwd : p.name = users[n].name /\ p.uid = SystemId(host.passwd, n)
    <3> DEFINE p == [name |-> users[n].name, uid |-> users[n].uid,
                     gid  |-> IF groups[users[n].group] = None THEN 0 ELSE groups[users[n].group].gid]
    <3>1. n \in Users(users) /\ users[n].uid = SystemId(host.passwd, n)
      BY <2>1, <2>2 DEF AlignedHold, Users
    <3>2. p \in written.passwd
      BY <2>1, <2>2, <3>1 DEF WrittenHolds, Files, FormatPasswd
    <3>. QED  BY <3>1, <3>2
  <2>. QED  BY <2>1, <2>2 DEF AlignedHold, AlignedKeepTheirIds
<1>. QED  BY <1>1, PasswdInvariant, PTL

\* The groups of users are written: a user that a sysusers.d file or add_user_with_group
\* brought is written with the id of a group that is written too.
THEOREM GroupsWritten == ScriptSpec => []DeclaredHaveGroups
<1>1. ASSUME PInv PROVE DeclaredHaveGroups
  <2>1. SUFFICES ASSUME written # None, NEW n \in declared
                 PROVE  \E p \in written.passwd, g \in written.group :
                           p.name = n /\ g.gid = p.gid /\ groups[users[n].group].gid = g.gid
    BY DEF DeclaredHaveGroups
  <2>2. n \in UserName /\ users[n] # None /\ users[n].name = n /\ groups[users[n].group] # None
        /\ users[n] \in User
    BY <1>1, TypesOf DEF Declared
  <2>3. users[n].group \in GroupName
    BY <2>2 DEF User
  <2> DEFINE m == users[n].group
             p == [name |-> users[n].name, uid |-> users[n].uid,
                   gid  |-> IF groups[m] = None THEN 0 ELSE groups[m].gid]
             g == [name |-> groups[m].name, gid |-> groups[m].gid, members |-> groups[m].members]
  <2>4. p \in written.passwd
    BY <1>1, <2>1, <2>2 DEF PInv, WrittenHolds, Files, FormatPasswd, Users
  <2>5. g \in written.group
    BY <1>1, <2>1, <2>2, <2>3 DEF PInv, WrittenHolds, Files, FormatGroup, Groups
  <2>6. p.name = n /\ p.gid = groups[m].gid /\ g.gid = groups[m].gid
    BY <2>2
  <2>. QED  BY <2>4, <2>5, <2>6
<1>. QED  BY <1>1, PasswdInvariant, PTL

\* A map that tells the elements of a finite set apart has as many values.
LEMMA AsMany ==
    ASSUME NEW S, IsFiniteSet(S), NEW f, \A m, n \in S : f[m] = f[n] => m = n
    PROVE  Cardinality({f[n] : n \in S}) = Cardinality(S)
<1> DEFINE T == {f[n] : n \in S}
           b == [n \in S |-> f[n]]
<1>1. b \in Bijection(S, T)
  BY DEF Bijection, Injection, Surjection, IsInjective
<1>2. ExistsBijection(S, T)
  BY <1>1 DEF ExistsBijection
<1>. QED  BY <1>2, FS_Bijection

\* Unique ids: the passwd and group files that are written give no id twice, whatever the
\* calls, the sysusers.d files and the host made of the ids before.
THEOREM IdsUnique == ScriptSpec => []WrittenIdsUnique
<1>1. ASSUME PInv PROVE WrittenIdsUnique
  <2>1. SUFFICES ASSUME written # None
                 PROVE  /\ Cardinality({p.uid : p \in written.passwd}) = Cardinality(Users(users))
                        /\ Cardinality({g.gid : g \in written.group}) = Cardinality(Groups(groups))
    BY DEF WrittenIdsUnique
  <2>2. Sane(users, groups) /\ written = Files(users, groups)
    BY <1>1, <2>1 DEF PInv, WrittenHolds
  <2>3. IsFiniteSet(Users(users)) /\ IsFiniteSet(Groups(groups))
    BY PasswdAssumption, FS_Subset DEF Users, Groups
  <2> DEFINE uid == [n \in Users(users) |-> users[n].uid]
             gid == [n \in Groups(groups) |-> groups[n].gid]
  <2>4. {p.uid : p \in written.passwd} = {uid[n] : n \in Users(users)}
    <3> DEFINE line(n) ==
                 [name |-> users[n].name, uid |-> users[n].uid,
                  gid  |-> IF groups[users[n].group] = None THEN 0 ELSE groups[users[n].group].gid]
    <3>1. FormatPasswd(users, groups) = {line(n) : n \in Users(users)}
      BY DEF FormatPasswd
    <3>2. \A n \in Users(users) : line(n).uid = uid[n]
      OBVIOUS
    <3>. HIDE DEF line
    <3>3. /\ \A p \in FormatPasswd(users, groups) : \E n \in Users(users) : p.uid = uid[n]
          /\ \A n \in Users(users) : \E p \in FormatPasswd(users, groups) : p.uid = uid[n]
      BY <3>1, <3>2
    <3>. HIDE DEF uid
    <3>. QED  BY <2>2, <3>3 DEF Files
  <2>5. {g.gid : g \in written.group} = {gid[n] : n \in Groups(groups)}
    <3> DEFINE line(n) ==
                 [name |-> groups[n].name, gid |-> groups[n].gid, members |-> groups[n].members]
    <3>1. FormatGroup(groups) = {line(n) : n \in Groups(groups)}
      BY DEF FormatGroup
    <3>2. \A n \in Groups(groups) : line(n).gid = gid[n]
      OBVIOUS
    <3>. HIDE DEF line
    <3>3. /\ \A g \in FormatGroup(groups) : \E n \in Groups(groups) : g.gid = gid[n]
          /\ \A n \in Groups(groups) : \E g \in FormatGroup(groups) : g.gid = gid[n]
      BY <3>1, <3>2
    <3>. HIDE DEF gid
    <3>. QED  BY <2>2, <3>3 DEF Files
  <2>6. /\ \A m, n \in Users(users) : uid[m] = uid[n] => m = n
        /\ \A m, n \in Groups(groups) : gid[m] = gid[n] => m = n
    BY <2>2 DEF Sane
  <2>. HIDE DEF uid, gid
  <2>7. Cardinality({uid[n] : n \in Users(users)}) = Cardinality(Users(users))
    BY <2>3, <2>6, AsMany
  <2>8. Cardinality({gid[n] : n \in Groups(groups)}) = Cardinality(Groups(groups))
    BY <2>3, <2>6, AsMany
  <2>. QED  BY <2>4, <2>5, <2>7, <2>8
<1>. QED  BY <1>1, PasswdInvariant, PTL

\* sysusers.d files only add: what is said of a user or a group when such a file is read
\* stays as it is, but for members that join.
THEOREM FilesOnlyAdd == ScriptSpec => SysusersOnlyAdd
<1>1. ASSUME PInv, AddFromSysusers
      PROVE  /\ \A n \in Users(users) : users'[n] = users[n]
             /\ \A n \in Groups(groups) : /\ groups'[n].gid = groups[n].gid
                                          /\ groups[n].members \subseteq groups'[n].members
                                          /\ groups'[n].admins = groups[n].admins
  BY <1>1, FileBuilds DEF MoreUsers, MoreGroups, Users, Groups
<1>2. PInv /\ [ScriptNext]_scriptVars =>
         [AddFromSysusers =>
            /\ \A n \in Users(users) : users'[n] = users[n]
            /\ \A n \in Groups(groups) : /\ groups'[n].gid = groups[n].gid
                                         /\ groups[n].members \subseteq groups'[n].members
                                         /\ groups'[n].admins = groups[n].admins]_passwdVars
  BY <1>1
<1>3. ScriptSpec => [][ScriptNext]_scriptVars
  BY PTL DEF ScriptSpec
<1>. QED  BY <1>2, <1>3, PasswdInvariant, PTL DEF SysusersOnlyAdd

-----------------------------------------------------------------------------
(* The line editor *)

Frame == [program : ProgramId, pc : Nat \ {0}, line : Line]

EditInv ==
    /\ EditTypeOK
    /\ mode \in {"lines", "eof"} => lib \in DOMAIN Libraries
    /\ mode = "eof" => frames # <<>>

\* The first k lines of a text are part of what was printed, in order.
Kept(text, k, out) ==
    \E f \in [1 .. k -> DOMAIN out] :
        /\ \A i, j \in 1 .. k : i < j => f[i] < f[j]
        /\ \A i \in 1 .. k : text[i] = out[f[i]]

\* They are what was printed, with empty lines after the last line of the text only.
Copy(text, k, out) ==
    /\ Len(out) >= k
    /\ \A i \in 1 .. k : out[i] = text[i]
    /\ \A i \in k + 1 .. Len(out) : out[i] = Blank
    /\ k < Len(text) => Len(out) = k

\* No program does anything but this.
Only(kinds) ==
    /\ \A id \in ProgramId : Libraries[lib][id].print_default
    /\ KindsOf(ProgramId) \subseteq kinds

Moving == {"NextLine", "StopAndPrint", "Subprogram"}

Keeping == Moving \cup {"InsertBefore", "InsertAfter", "Print"}

\* Before line n is printed: it was kept already or is in the pattern space.
Held(text, n, space, out) ==
    \/ Kept(text, n, out)
    \/ /\ n > 0 /\ Kept(text, n - 1, out)
       /\ \E i \in DOMAIN space : space[i] = text[n]

\* Before line n is printed: it is the pattern space, or the text is over and that is empty.
Copying(text, n, space, out) ==
    \/ n > 0 /\ space = <<text[n]>> /\ Copy(text, n - 1, out) /\ Len(out) = n - 1
    \/ n = Len(text) /\ space = EmptySpace /\ Copy(text, n, out)

KeptInv ==
    Only(Keeping) =>
        /\ mode = "lines" /\ frames = <<>> =>
              pattern_space = EmptySpace /\ Kept(input, line_number, output)
        /\ mode = "lines" /\ frames # <<>> => Held(input, line_number, pattern_space, output)
        /\ mode \in {"eof", "done"} => Kept(input, Len(input), output)

CopyInv ==
    Only(Moving) =>
        /\ mode = "lines" /\ frames = <<>> =>
              pattern_space = EmptySpace /\ Copy(input, line_number, output)
        /\ mode = "lines" /\ frames # <<>> => Copying(input, line_number, pattern_space, output)
        /\ mode = "eof" => line_number = Len(input) /\ pattern_space = EmptySpace
        /\ mode \in {"eof", "done"} => Copy(input, Len(input), output)

-----------------------------------------------------------------------------
(* What is printed *)

\* A concatenation, item by item.
LEMMA ConcatItems ==
    ASSUME NEW S, NEW s \in Seq(S), NEW t \in Seq(S)
    PROVE  /\ Len(s) \in Nat /\ DOMAIN s = 1 .. Len(s)
           /\ Len(t) \in Nat /\ DOMAIN t = 1 .. Len(t)
           /\ s \o t \in Seq(S)
           /\ Len(s \o t) = Len(s) + Len(t)
           /\ DOMAIN (s \o t) = 1 .. Len(s) + Len(t)
           /\ \A i \in 1 .. Len(s) : (s \o t)[i] = s[i]
           /\ \A i \in 1 .. Len(t) : (s \o t)[Len(s) + i] = t[i]
<1>1. /\ Len(s) \in Nat /\ DOMAIN s = 1 .. Len(s)
      /\ Len(t) \in Nat /\ DOMAIN t = 1 .. Len(t)
  BY LenProperties
<1>2. /\ s \o t \in Seq(S)
      /\ Len(s \o t) = Len(s) + Len(t)
      /\ \A i \in 1 .. Len(s) + Len(t) : (s \o t)[i] = IF i <= Len(s) THEN s[i] ELSE t[i - Len(s)]
  BY ConcatProperties
<1>3. DOMAIN (s \o t) = 1 .. Len(s) + Len(t)
  BY <1>2, LenProperties
<1>4. ASSUME NEW i \in 1 .. Len(s) PROVE (s \o t)[i] = s[i]
  BY <1>1, <1>2
<1>5. ASSUME NEW i \in 1 .. Len(t) PROVE (s \o t)[Len(s) + i] = t[i]
  <2>1. Len(s) + i \in 1 .. Len(s) + Len(t) /\ ~(Len(s) + i <= Len(s)) /\ (Len(s) + i) - Len(s) = i
    BY <1>1
  <2>. QED  BY <1>2, <2>1
<1>. QED  BY <1>1, <1>2, <1>3, <1>4, <1>5

\* What is left of a text after k lines, line by line.
LEMMA RestItems ==
    ASSUME NEW S, NEW text \in Seq(S), NEW k \in 0 .. Len(text)
    PROVE  /\ Len(text) \in Nat /\ k \in Nat /\ k <= Len(text)
           /\ SubSeq(text, k + 1, Len(text)) \in Seq(S)
           /\ Len(SubSeq(text, k + 1, Len(text))) = Len(text) - k
           /\ \A i \in 1 .. Len(text) - k : SubSeq(text, k + 1, Len(text))[i] = text[k + i]
<1>1. Len(text) \in Nat /\ k \in Nat /\ k <= Len(text)
  BY LenProperties
<1>2. \A i \in k + 1 .. Len(text) : text[i] \in S
  BY <1>1, ElementOfSeq
<1>. DEFINE m == k + 1
<1>3. m \in Int /\ Len(text) \in Int /\ Len(text) - m + 1 = Len(text) - k
  BY <1>1
<1>4. \A i \in 1 .. Len(text) - k : m + i - 1 = k + i
  BY <1>1
<1>5. IF m <= Len(text) THEN Len(text) - m + 1 = Len(text) - k ELSE Len(text) - k = 0
  BY <1>1
<1>6. \A i \in m .. Len(text) : text[i] \in S
  BY <1>2
<1>. HIDE DEF m
<1>7. /\ SubSeq(text, m, Len(text)) \in Seq(S)
      /\ Len(SubSeq(text, m, Len(text))) = IF m <= Len(text) THEN Len(text) - m + 1 ELSE 0
      /\ \A i \in 1 .. Len(text) - m + 1 : SubSeq(text, m, Len(text))[i] = text[m + i - 1]
  BY <1>3, <1>6, SubSeqProperties
<1>8. /\ SubSeq(text, m, Len(text)) \in Seq(S)
      /\ Len(SubSeq(text, m, Len(text))) = Len(text) - k
      /\ \A i \in 1 .. Len(text) - k : SubSeq(text, m, Len(text))[i] = text[k + i]
  BY <1>3, <1>4, <1>5, <1>7
<1>. QED  BY <1>1, <1>8 DEF m

\* Nothing of nothing.
LEMMA KeptNothing ==
    ASSUME NEW text, NEW out
    PROVE  Kept(text, 0, out)
<1>. DEFINE f == [i \in 1 .. 0 |-> 0]
<1>1. f \in [1 .. 0 -> DOMAIN out] /\ \A i \in 1 .. 0 : FALSE
  OBVIOUS
<1>. HIDE DEF f
<1>2. /\ \A i, j \in 1 .. 0 : i < j => f[i] < f[j]
      /\ \A i \in 1 .. 0 : text[i] = out[f[i]]
  BY <1>1
<1>. QED  BY <1>1, <1>2, Zenon DEF Kept

\* What is printed later takes nothing away.
LEMMA KeptAfter ==
    ASSUME NEW S, NEW text, NEW k \in Nat, NEW out \in Seq(S), NEW more \in Seq(S), Kept(text, k, out)
    PROVE  Kept(text, k, out \o more)
<1>1. PICK f \in [1 .. k -> DOMAIN out] : /\ \A i, j \in 1 .. k : i < j => f[i] < f[j]
                                          /\ \A i \in 1 .. k : text[i] = out[f[i]]
  BY DEF Kept
<1>2. /\ DOMAIN out \subseteq DOMAIN (out \o more)
      /\ \A i \in DOMAIN out : (out \o more)[i] = out[i]
  <2>1. /\ Len(out) \in Nat /\ DOMAIN out = 1 .. Len(out)
        /\ Len(more) \in Nat
        /\ DOMAIN (out \o more) = 1 .. Len(out) + Len(more)
        /\ \A i \in 1 .. Len(out) : (out \o more)[i] = out[i]
    BY ConcatItems
  <2>. QED  BY <2>1
<1>3. f \in [1 .. k -> DOMAIN (out \o more)]
  BY <1>2
<1>4. \A i \in 1 .. k : text[i] = (out \o more)[f[i]]
  BY <1>1, <1>2
<1>. QED  BY <1>1, <1>3, <1>4, Zenon DEF Kept

\* The next line is among what is printed.
LEMMA KeptNext ==
    ASSUME NEW S, NEW text, NEW k \in Nat, NEW out \in Seq(S), NEW more \in Seq(S),
           Kept(text, k, out), NEW n \in DOMAIN more, more[n] = text[k + 1]
    PROVE  Kept(text, k + 1, out \o more)
<1>1. PICK f \in [1 .. k -> DOMAIN out] : /\ \A i, j \in 1 .. k : i < j => f[i] < f[j]
                                          /\ \A i \in 1 .. k : text[i] = out[f[i]]
  BY DEF Kept
<1>. DEFINE g == [i \in 1 .. k + 1 |-> IF i = k + 1 THEN Len(out) + n ELSE f[i]]
<1>2. /\ Len(out) \in Nat /\ n \in Nat /\ n > 0 /\ DOMAIN out = 1 .. Len(out)
      /\ Len(out) + n \in DOMAIN (out \o more)
      /\ (out \o more)[Len(out) + n] = more[n]
      /\ DOMAIN out \subseteq DOMAIN (out \o more)
      /\ \A i \in DOMAIN out : (out \o more)[i] = out[i]
  <2>1. /\ Len(out) \in Nat /\ DOMAIN out = 1 .. Len(out)
        /\ Len(more) \in Nat /\ DOMAIN more = 1 .. Len(more)
        /\ DOMAIN (out \o more) = 1 .. Len(out) + Len(more)
        /\ \A i \in 1 .. Len(out) : (out \o more)[i] = out[i]
        /\ \A i \in 1 .. Len(more) : (out \o more)[Len(out) + i] = more[i]
    BY ConcatItems
  <2>. QED  BY <2>1
<1>3. \A i \in 1 .. k + 1 : i # k + 1 => i \in 1 .. k
  OBVIOUS
<1>4. \A i \in 1 .. k + 1 : g[i] \in DOMAIN (out \o more) /\ text[i] = (out \o more)[g[i]]
  BY <1>1, <1>2, <1>3
<1>5. \A i, j \in 1 .. k + 1 : i < j => g[i] < g[j]
  <2>1. SUFFICES ASSUME NEW i \in 1 .. k + 1, NEW j \in 1 .. k + 1, i < j PROVE g[i] < g[j]
    OBVIOUS
  <2>2. i \in 1 .. k /\ f[i] \in 1 .. Len(out) /\ g[i] = f[i]
    BY <1>2, <2>1
  <2>3. CASE j = k + 1
    BY <1>2, <2>2, <2>3
  <2>4. CASE j # k + 1
    BY <1>1, <1>3, <2>1, <2>2, <2>4
  <2>. QED  BY <2>3, <2>4
<1>6. g \in [1 .. k + 1 -> DOMAIN (out \o more)]
  BY <1>4
<1>. HIDE DEF g
<1>. QED  BY <1>4, <1>5, <1>6 DEF Kept

\* The rest of the text is printed.
LEMMA KeptRest ==
    ASSUME NEW S, NEW text \in Seq(S), NEW k \in 0 .. Len(text), NEW out \in Seq(S), Kept(text, k, out)
    PROVE  Kept(text, Len(text), out \o SubSeq(text, k + 1, Len(text)))
<1>1. PICK f \in [1 .. k -> DOMAIN out] : /\ \A i, j \in 1 .. k : i < j => f[i] < f[j]
                                          /\ \A i \in 1 .. k : text[i] = out[f[i]]
  BY DEF Kept
<1>. DEFINE rest == SubSeq(text, k + 1, Len(text))
            all  == out \o rest
            g    == [i \in 1 .. Len(text) |-> IF i <= k THEN f[i] ELSE Len(out) + (i - k)]
<1>2. /\ Len(text) \in Nat /\ k \in Nat /\ k <= Len(text)
      /\ rest \in Seq(S) /\ Len(rest) = Len(text) - k
      /\ \A i \in 1 .. Len(text) - k : rest[i] = text[k + i]
  BY RestItems
<1>. HIDE DEF rest
<1>3. /\ Len(out) \in Nat /\ DOMAIN out = 1 .. Len(out)
      /\ DOMAIN all = 1 .. Len(out) + (Len(text) - k)
      /\ \A i \in DOMAIN out : all[i] = out[i]
      /\ \A i \in 1 .. Len(text) - k : all[Len(out) + i] = rest[i]
  <2>1. /\ Len(out) \in Nat /\ DOMAIN out = 1 .. Len(out)
        /\ DOMAIN all = 1 .. Len(out) + Len(rest)
        /\ \A i \in 1 .. Len(out) : all[i] = out[i]
        /\ \A i \in 1 .. Len(rest) : all[Len(out) + i] = rest[i]
    <3>1. /\ Len(out) \in Nat /\ DOMAIN out = 1 .. Len(out)
          /\ DOMAIN (out \o rest) = 1 .. Len(out) + Len(rest)
          /\ \A i \in 1 .. Len(out) : (out \o rest)[i] = out[i]
          /\ \A i \in 1 .. Len(rest) : (out \o rest)[Len(out) + i] = rest[i]
      <4>. HIDE DEF all, g
      <4>1. rest \in Seq(S)
        BY <1>2
      <4>. QED  BY <4>1, ConcatItems
    <3>. QED  BY <3>1 DEF all
  <2>. QED  BY <1>2, <2>1
<1>. HIDE DEF all
<1>4. ASSUME NEW i \in 1 .. Len(text) PROVE g[i] \in DOMAIN all /\ text[i] = all[g[i]]
  <2>1. CASE i <= k
    <3>1. i \in 1 .. k /\ f[i] \in 1 .. Len(out) /\ text[i] = out[f[i]] /\ g[i] = f[i]
      BY <1>1, <1>2, <1>3, <2>1
    <3>. QED  BY <1>2, <1>3, <3>1
  <2>2. CASE i > k
    <3>1. i - k \in 1 .. Len(text) - k /\ g[i] = Len(out) + (i - k)
      BY <1>2, <2>2
    <3>2. k + (i - k) = i
      BY <1>2
    <3>. DEFINE d == i - k
    <3>3. d \in 1 .. Len(text) - k /\ g[i] = Len(out) + d /\ k + d = i
      BY <3>1, <3>2
    <3>. HIDE DEF d, g
    <3>4. Len(out) + d \in 1 .. Len(out) + (Len(text) - k)
      BY <1>2, <1>3, <3>3
    <3>5. all[Len(out) + d] = rest[d] /\ rest[d] = text[i]
      BY <1>2, <1>3, <3>3
    <3>. QED  BY <1>3, <3>3, <3>4, <3>5
  <2>. QED  BY <1>2, <2>1, <2>2
<1>5. ASSUME NEW i \in 1 .. Len(text), NEW j \in 1 .. Len(text), i < j PROVE g[i] < g[j]
  <2>1. i <= k => i \in 1 .. k /\ f[i] \in 1 .. Len(out)
    BY <1>2, <1>3
  <2>2. j <= k => j \in 1 .. k /\ f[j] \in 1 .. Len(out)
    BY <1>2, <1>3
  <2>3. CASE j <= k
    BY <1>1, <1>2, <1>5, <2>1, <2>2, <2>3
  <2>4. CASE j > k /\ i <= k
    BY <1>2, <1>3, <2>1, <2>4
  <2>5. CASE i > k
    BY <1>2, <1>3, <1>5, <2>5
  <2>. QED  BY <1>2, <2>3, <2>4, <2>5
<1>6. g \in [1 .. Len(text) -> DOMAIN all]
  BY <1>4
<1>. HIDE DEF g
<1>7. Kept(text, Len(text), all)
  BY <1>4, <1>5, <1>6 DEF Kept
<1>. QED  BY <1>7 DEF all, rest

\* The line that is next is printed.
LEMMA CopyNext ==
    ASSUME NEW S, NEW text \in Seq(S), NEW k \in 0 .. Len(text) - 1, NEW out \in Seq(S),
           Copy(text, k, out), Len(out) = k
    PROVE  /\ Copy(text, k + 1, out \o <<text[k + 1]>>)
           /\ Len(out \o <<text[k + 1]>>) = k + 1
<1>1. Len(text) \in Nat /\ k \in Nat /\ k + 1 <= Len(text)
  BY LenProperties
<1>. DEFINE all == out \o <<text[k + 1]>>
<1>2. /\ Len(all) = k + 1 /\ all[k + 1] = text[k + 1]
      /\ \A i \in 1 .. k : all[i] = out[i]
  <2>1. <<text[k + 1]>> \in Seq(S) /\ Len(<<text[k + 1]>>) = 1 /\ <<text[k + 1]>>[1] = text[k + 1]
    BY <1>1, ElementOfSeq
  <2>. QED  BY <1>1, <2>1, ConcatItems
<1>. HIDE DEF all
<1>3. Copy(text, k + 1, all)
  <2>1. ASSUME NEW i \in 1 .. k + 1 PROVE all[i] = text[i]
    <3>1. i \in 1 .. k \/ i = k + 1
      BY <1>1
    <3>2. \A j \in 1 .. k : out[j] = text[j]
      BY DEF Copy
    <3>. QED  BY <1>2, <3>1, <3>2
  <2>2. ASSUME NEW i \in k + 2 .. k + 1 PROVE FALSE
    BY <1>1
  <2>3. k + 1 + 1 = k + 2
    BY <1>1
  <2>. QED  BY <1>1, <1>2, <2>1, <2>2, <2>3 DEF Copy
<1>. QED  BY <1>2, <1>3 DEF all

\* An empty line is printed after the last one.
LEMMA CopyBlank ==
    ASSUME NEW S, NEW text \in Seq(S), NEW out \in Seq(S), Blank \in S, Copy(text, Len(text), out)
    PROVE  Copy(text, Len(text), out \o <<Blank>>)
<1>1. Len(text) \in Nat /\ Len(out) \in Nat /\ Len(out) >= Len(text)
  BY LenProperties DEF Copy
<1>. DEFINE all == out \o <<Blank>>
<1>2. /\ Len(all) = Len(out) + 1 /\ all[Len(out) + 1] = Blank
      /\ \A i \in 1 .. Len(out) : all[i] = out[i]
  <2>1. <<Blank>> \in Seq(S) /\ Len(<<Blank>>) = 1 /\ <<Blank>>[1] = Blank
    OBVIOUS
  <2>. QED  BY <2>1, ConcatItems
<1>. HIDE DEF all
<1>3. Copy(text, Len(text), all)
  BY <1>1, <1>2 DEF Copy
<1>. QED  BY <1>3 DEF all

\* The rest of the text is printed.
LEMMA CopyRest ==
    ASSUME NEW S, NEW text \in Seq(S), NEW k \in 0 .. Len(text), NEW out \in Seq(S), Copy(text, k, out)
    PROVE  Copy(text, Len(text), out \o SubSeq(text, k + 1, Len(text)))
<1>. DEFINE rest == SubSeq(text, k + 1, Len(text))
            all  == out \o rest
<1>1. /\ Len(text) \in Nat /\ k \in Nat /\ k <= Len(text) /\ Len(out) \in Nat
      /\ rest \in Seq(S) /\ Len(rest) = Len(text) - k
      /\ \A i \in 1 .. Len(text) - k : rest[i] = text[k + i]
  BY RestItems, LenProperties
<1>. HIDE DEF rest
<1>2. /\ Len(all) = Len(out) + (Len(text) - k)
      /\ \A i \in 1 .. Len(out) : all[i] = out[i]
      /\ \A i \in 1 .. Len(text) - k : all[Len(out) + i] = rest[i]
  <2>1. /\ Len(all) = Len(out) + Len(rest)
        /\ \A i \in 1 .. Len(out) : all[i] = out[i]
        /\ \A i \in 1 .. Len(rest) : all[Len(out) + i] = rest[i]
    <3>1. /\ Len(out \o rest) = Len(out) + Len(rest)
          /\ \A i \in 1 .. Len(out) : (out \o rest)[i] = out[i]
          /\ \A i \in 1 .. Len(rest) : (out \o rest)[Len(out) + i] = rest[i]
      <4>. HIDE DEF all
      <4>1. rest \in Seq(S)
        BY <1>1
      <4>. QED  BY <4>1, ConcatItems
    <3>. QED  BY <3>1 DEF all
  <2>. QED  BY <1>1, <2>1
<1>. HIDE DEF all
<1>3. ASSUME k = Len(text) PROVE Copy(text, Len(text), all)
  BY <1>1, <1>2, <1>3 DEF Copy
<1>4. ASSUME k < Len(text) PROVE Copy(text, Len(text), all)
  <2>1. Len(out) = k
    BY <1>4 DEF Copy
  <2>2. ASSUME NEW i \in 1 .. Len(text) PROVE all[i] = text[i]
    <3>1. CASE i <= k
      BY <1>1, <1>2, <2>1, <3>1 DEF Copy
    <3>2. CASE i > k
      <4>1. i - k \in 1 .. Len(text) - k /\ k + (i - k) = i
        BY <1>1, <3>2
      <4>. DEFINE d == i - k
      <4>2. d \in 1 .. Len(text) - k /\ k + d = i
        BY <4>1
      <4>. HIDE DEF d
      <4>. QED  BY <1>1, <1>2, <2>1, <4>2
    <3>. QED  BY <1>1, <3>1, <3>2
  <2>. QED  BY <1>1, <1>2, <2>1, <2>2 DEF Copy
<1>5. Copy(text, Len(text), all)
  BY <1>1, <1>3, <1>4
<1>. QED  BY <1>5 DEF all, rest

-----------------------------------------------------------------------------
(* Recursive functions *)

\* The functions on 0 .. n that are given by their steps: there is one.
Steps(X, x0, n, h) == {f \in [0 .. n -> X] : f[0] = x0 /\ \A k \in 1 .. n : f[k] = h[k][f[k - 1]]}

LEMMA Recursion ==
    ASSUME NEW X, NEW x0 \in X, NEW n \in Nat, NEW h \in [1 .. n -> [X -> X]]
    PROVE  Steps(X, x0, n, h) # {}
<1>. DEFINE Solves(m, f) == f[0] = x0 /\ \A k \in 1 .. m : f[k] = h[k][f[k - 1]]
            T == {m \in 0 .. n : \E f \in [0 .. m -> X] : Solves(m, f)}
<1>1. 0 \in T
  <2>. DEFINE g == [k \in 0 .. 0 |-> x0]
  <2>1. g \in [0 .. 0 -> X] /\ Solves(0, g)
    OBVIOUS
  <2>. HIDE DEF g, Solves
  <2>. QED  BY <2>1
<1>2. ASSUME NEW m \in 0 .. n - 1, m \in T PROVE m + 1 \in T
  <2>1. PICK f \in [0 .. m -> X] : Solves(m, f)
    BY <1>2
  <2>. DEFINE g == [k \in 0 .. m + 1 |-> IF k = m + 1 THEN h[m + 1][f[m]] ELSE f[k]]
  <2>2. m + 1 \in 1 .. n /\ m \in 0 .. m /\ h[m + 1] \in [X -> X] /\ f[m] \in X
    OBVIOUS
  <2>3. g \in [0 .. m + 1 -> X]
    BY <2>2
  <2>4. \A k \in 0 .. m : g[k] = f[k]
    OBVIOUS
  <2>5. ASSUME NEW k \in 1 .. m + 1 PROVE g[k] = h[k][g[k - 1]]
    <3>1. CASE k = m + 1
      <4>1. k - 1 = m /\ g[k] = h[m + 1][f[m]]
        BY <3>1
      <4>. QED  BY <2>2, <2>4, <3>1, <4>1
    <3>2. CASE k # m + 1
      <4>1. k \in 1 .. m /\ k \in 0 .. m /\ k - 1 \in 0 .. m
        BY <3>2
      <4>. HIDE DEF g
      <4>. QED  BY <2>1, <2>4, <4>1
    <3>. QED  BY <3>1, <3>2
  <2>6. g[0] = x0
    BY <2>1, <2>4
  <2>. HIDE DEF g
  <2>7. Solves(m + 1, g)
    BY <2>5, <2>6
  <2>. HIDE DEF Solves
  <2>. QED  BY <2>2, <2>3, <2>7
<1>3. n \in T
  <2>. HIDE DEF T
  <2>1. \A m \in 0 .. n : m \in T
    BY <1>1, <1>2, UpTo
  <2>. QED  BY <2>1
<1>4. PICK f \in [0 .. n -> X] : Solves(n, f)
  BY <1>3
<1>5. f \in Steps(X, x0, n, h)
  BY <1>4 DEF Steps
<1>. QED  BY <1>5

\* The first k items of a sequence of sequences, one after the other.
Flat(s, k) == FlattenSeq([i \in 1 .. k |-> s[i]])

FlatAt(S, s, k) ==
    /\ Flat(s, k) \in Seq(S)
    /\ k = 0 => Flat(s, k) = <<>>
    /\ k > 0 => Flat(s, k) = Flat(s, k - 1) \o s[k]

LEMMA Flattened ==
    ASSUME NEW S, NEW n \in Nat, NEW s \in [1 .. n -> Seq(S)], NEW k \in 0 .. n
    PROVE  FlatAt(S, s, k)
<1>. DEFINE h == [i \in 1 .. n |-> [x \in Seq(S) |-> x \o s[i]]]
<1>1. <<>> \in Seq(S)
  OBVIOUS
<1>2. h \in [1 .. n -> [Seq(S) -> Seq(S)]]
  <2>1. \A i \in 1 .. n : \A x \in Seq(S) : x \o s[i] \in Seq(S)
    BY ConcatProperties
  <2>. QED  BY <2>1
<1>3. PICK g \in [0 .. n -> Seq(S)] : g[0] = <<>> /\ \A i \in 1 .. n : g[i] = h[i][g[i - 1]]
  <2>. DEFINE X == Seq(S)
              x0 == <<>>
  <2>1. x0 \in X /\ h \in [1 .. n -> [X -> X]]
    BY <1>1, <1>2
  <2>. HIDE DEF h, X, x0
  <2>2. Steps(X, x0, n, h) # {}
    BY <2>1, Recursion
  <2>. QED  BY <2>2 DEF Steps, X, x0
<1>4. \A i \in 1 .. n : g[i] = g[i - 1] \o s[i]
  <2>1. \A i \in 1 .. n : i - 1 \in 0 .. n
    OBVIOUS
  <2>. QED  BY <1>3, <2>1
<1>5. ASSUME NEW m \in 0 .. n PROVE Flat(s, m) = g[m]
  <2>. DEFINE seqs == [i \in 1 .. m |-> s[i]]
  <2>1. seqs \in Seq(Seq(S)) /\ Len(seqs) = m
    <3>1. seqs \in [1 .. m -> Seq(S)]
      OBVIOUS
    <3>. HIDE DEF seqs
    <3>2. seqs \in Seq(Seq(S)) /\ DOMAIN seqs = 1 .. m
      BY <3>1, SeqDef
    <3>. QED  BY <3>2, LenProperties
  <2>2. CASE m = 0
    <3>1. seqs = <<>>
      BY <2>1, <2>2, EmptySeq
    <3>. HIDE DEF seqs
    <3>. QED  BY <1>3, <2>1, <2>2, <3>1 DEF FlattenSeq, Flat, seqs
  <2>3. CASE m > 0
    <3>. DEFINE f == [i \in 1 .. m |-> g[i]]
                is == CHOOSE f1 : f1 = [i \in 1 .. m |-> IF i = 1 THEN seqs[i] ELSE f1[i - 1] \o seqs[i]]
    <3>1. f = [i \in 1 .. m |-> IF i = 1 THEN seqs[i] ELSE f[i - 1] \o seqs[i]]
      <4>1. ASSUME NEW i \in 1 .. m PROVE f[i] = IF i = 1 THEN seqs[i] ELSE f[i - 1] \o seqs[i]
        <5>1. i \in 1 .. n /\ seqs[i] = s[i] /\ f[i] = g[i - 1] \o s[i]
          <6>1. i \in 1 .. n
            OBVIOUS
          <6>2. seqs[i] = s[i] /\ f[i] = g[i]
            OBVIOUS
          <6>. QED  BY <1>4, <6>1, <6>2
        <5>2. CASE i = 1
          <6>1. g[i - 1] = <<>>
            BY <1>3, <5>2
          <6>. QED  BY <5>1, <5>2, <6>1, ConcatEmptySeq
        <5>3. CASE i # 1
          <6>1. i - 1 \in 1 .. m
            BY <5>3
          <6>. QED  BY <5>1, <5>3, <6>1, SMTT(30)
        <5>. QED  BY <5>2, <5>3
      <4>. HIDE DEF seqs
      <4>. QED  BY <4>1
    <3>2. is = [i \in 1 .. m |-> IF i = 1 THEN seqs[i] ELSE is[i - 1] \o seqs[i]]
      <4>. HIDE DEF f, seqs
      <4>. QED  BY <3>1, Zenon
    <3>3. FlattenSeq(seqs) = is[m]
      <4>. HIDE DEF seqs
      <4>. QED  BY <2>1, <2>3 DEF FlattenSeq
    <3>4. \A i \in 1 .. m : is[i] = IF i = 1 THEN seqs[i] ELSE is[i - 1] \o seqs[i]
      <4>. HIDE DEF seqs, is
      <4>. QED  BY <3>2
    <3>5. \A i \in 1 .. m : f[i] = IF i = 1 THEN seqs[i] ELSE f[i - 1] \o seqs[i]
      <4>. HIDE DEF seqs, f
      <4>. QED  BY <3>1
    <3>. DEFINE T == {i \in 0 .. m : i > 0 => is[i] = f[i]}
    <3>. HIDE DEF is, f, seqs
    <3>6. ASSUME NEW i \in 0 .. m - 1, i \in T PROVE i + 1 \in T
      <4>1. i + 1 \in 1 .. m /\ (i + 1) - 1 = i /\ (i + 1 # 1 => i > 0)
        BY <2>3
      <4>2. i + 1 # 1 => is[i] = f[i]
        BY <3>6, <4>1
      <4>. QED  BY <3>4, <3>5, <4>1, <4>2
    <3>7. m \in T
      <4>1. 0 \in T
        OBVIOUS
      <4>. HIDE DEF T
      <4>2. \A i \in 0 .. m : i \in T
        <5>1. m \in Nat
          OBVIOUS
        <5>. QED  BY <3>6, <4>1, <5>1, UpTo
      <4>. QED  BY <4>2
    <3>8. is[m] = f[m]
      BY <2>3, <3>7
    <3>. QED  BY <2>3, <3>3, <3>8 DEF Flat, f, seqs
  <2>. QED  BY <2>2, <2>3
<1>6. k > 0 => k \in 1 .. n /\ k - 1 \in 0 .. n
  OBVIOUS
<1>7. Flat(s, k) = g[k] /\ g[k] \in Seq(S)
  BY <1>3, <1>5
<1>8. k = 0 => Flat(s, k) = <<>>
  BY <1>3, <1>7
<1>9. ASSUME k > 0 PROVE Flat(s, k) = Flat(s, k - 1) \o s[k]
  <2>1. Flat(s, k - 1) = g[k - 1] /\ g[k] = g[k - 1] \o s[k]
    BY <1>4, <1>5, <1>6, <1>9
  <2>. QED  BY <1>7, <2>1
<1>. QED  BY <1>7, <1>8, <1>9 DEF FlatAt

-----------------------------------------------------------------------------
(* Types *)

\* What an instruction may say, whatever program it is of.
Instructed(instr, id) ==
    LET a == instr.action IN
      /\ a.kind \in ValueKinds \cup PlainKinds \cup {"Subprogram"}
      /\ a.kind \in {"InsertBefore", "InsertAfter", "Replace"} => a.text \in Line
      /\ a.kind = "RegexReplace" => a.by \in Word
      /\ a.kind = "Function" => a.fails \/ a.text \in Line
      /\ a.kind = "Subprogram" => a.sub \in ProgramId

\* While a program runs its frame is in order, and so is the instruction that is next.
LEMMA TopTyped ==
    ASSUME EditInv, frames # <<>>
    PROVE  /\ Len(frames) \in Nat \ {0}
           /\ Top \in Frame
           /\ Top.program \in ProgramId /\ Top.pc \in Nat \ {0} /\ Top.line \in Line
<1>1. frames \in Seq(Frame) /\ Len(frames) \in Nat \ {0}
  BY EmptySeq DEF EditInv, EditTypeOK, Frame
<1>2. Len(frames) \in 1 .. Len(frames)
  BY <1>1
<1>3. Top \in Frame
  BY <1>1, <1>2, ElementOfSeq DEF Top
<1>. QED  BY <1>1, <1>3 DEF Frame

LEMMA InstructionTyped ==
    ASSUME EditInv, mode \in {"lines", "eof"}, frames # <<>>, Top.pc <= Len(Program.instructions)
    PROVE  /\ Top.pc \in DOMAIN Program.instructions
           /\ Instructed(Instruction, Top.program)
<1>1. lib \in DOMAIN Libraries /\ Top.program \in ProgramId /\ Top.pc \in Nat \ {0}
  BY TopTyped DEF EditInv
<1>. DEFINE instructions == Program.instructions
<1>2. instructions \in Seq(ToSet(instructions))
  BY <1>1, LineEditAssumption DEF Program
<1>3. \A instr \in ToSet(instructions) : Instructed(instr, Top.program)
  BY <1>1, LineEditAssumption DEF Program, Instructed
<1>. HIDE DEF instructions
<1>4. DOMAIN instructions = 1 .. Len(instructions) /\ Len(instructions) \in Nat
  BY <1>2, LenProperties
<1>5. Top.pc \in DOMAIN instructions
  BY <1>1, <1>4 DEF instructions
<1>6. instructions[Top.pc] \in ToSet(instructions)
  BY <1>5 DEF ToSet
<1>. QED  BY <1>3, <1>5, <1>6 DEF instructions, Instruction

LEMMA InputTyped ==
    ASSUME EditInv
    PROVE  /\ input \in Seq(Line) /\ Len(input) \in Nat
           /\ line_number \in Nat /\ line_number <= Len(input)
           /\ \A n \in 1 .. Len(input) : input[n] \in Line
<1>1. input \in Seq(Line)
  BY LineEditAssumption, EmptySeq DEF EditInv, EditTypeOK
<1>2. Len(input) \in Nat
  BY <1>1, LenProperties
<1>3. \A n \in 1 .. Len(input) : input[n] \in Line
  BY <1>1, ElementOfSeq
<1>. QED  BY <1>1, <1>2, <1>3 DEF EditInv, EditTypeOK

LEMMA AdvanceTyped ==
    ASSUME EditInv, frames # <<>>, NEW line \in Line
    PROVE  /\ Advance(line) \in Seq(Frame)
           /\ Advance(line) # <<>>
<1>1. frames \in Seq(Frame)
  BY DEF EditInv, EditTypeOK, Frame
<1>2. Len(frames) \in 1 .. Len(frames) /\ Top \in Frame
  BY TopTyped
<1>. DEFINE new == [program |-> Top.program, pc |-> Top.pc + 1, line |-> line]
<1>3. new \in Frame
  BY TopTyped DEF Frame
<1>4. Advance(line) = [frames EXCEPT ![Len(frames)] = new]
  BY DEF Advance
<1>. HIDE DEF new
<1>5. /\ Advance(line) \in Seq(Frame)
      /\ Len(Advance(line)) = Len(frames)
  BY <1>1, <1>2, <1>3, <1>4, ExceptSeq
<1>. QED  BY <1>2, <1>5, EmptySeq

LEMMA FrontTyped ==
    ASSUME NEW S, NEW s \in Seq(S), s # <<>>
    PROVE  Front(s) \in Seq(S) /\ Len(Front(s)) = Len(s) - 1
<1>1. Len(s) \in Nat \ {0}
  BY EmptySeq
<1>. DEFINE n == Len(s) - 1
<1>2. n \in Int /\ n >= 0 /\ \A i \in 1 .. n : s[i] \in S
  BY <1>1, ElementOfSeq
<1>. HIDE DEF n
<1>3. (1 <= n => n - 1 + 1 = n) /\ (~(1 <= n) => n = 0)
  BY <1>2
<1>4. SubSeq(s, 1, n) \in Seq(S) /\ Len(SubSeq(s, 1, n)) = IF 1 <= n THEN n - 1 + 1 ELSE 0
  BY <1>2, SubSeqProperties
<1>. QED  BY <1>3, <1>4 DEF Front, n

LEMMA BlankTyped == Blank \in Line /\ EmptySpace \in Seq(Line) \ {<<>>} /\ Len(EmptySpace) = 1
<1>1. Blank \in Line
  BY EmptySeq DEF Blank, Line
<1>2. <<Blank>> \in Seq(Line) /\ Len(<<Blank>>) = 1
  BY <1>1
<1>. QED  BY <1>1, <1>2, EmptySeq DEF EmptySpace

\* A regex is replaced within the lines of the pattern space.
LEMMA ReplacedTyped ==
    ASSUME NEW space \in Seq(Line) \ {<<>>}, NEW a, a.by \in Word
    PROVE  Replaced(space, a) \in Seq(Line) \ {<<>>}
<1>. DEFINE Has(i) == \E j \in DOMAIN space[i] : space[i][j] = a.word
            first  == CHOOSE i \in DOMAIN space : Has(i) /\ \A k \in 1..(i - 1) : ~Has(k)
            inAll  == [i \in DOMAIN space |-> [j \in DOMAIN space[i] |->
                         IF space[i][j] = a.word THEN a.by ELSE space[i][j]]]
            inOne  == [space EXCEPT ![first][FirstAt(space[first], a.word)] = a.by]
<1>1. Replaced(space, a) \in {inAll, inOne, space}
  BY DEF Replaced
<1>2. Len(space) \in Nat \ {0} /\ DOMAIN space = 1 .. Len(space)
  BY EmptySeq, LenProperties
<1>3. \A i \in DOMAIN space : space[i] \in Seq(Word)
  BY <1>2, ElementOfSeq DEF Line
<1>4. ASSUME NEW i \in DOMAIN space
      PROVE  inAll[i] \in Line
  <2>1. Len(space[i]) \in Nat /\ DOMAIN space[i] = 1 .. Len(space[i])
    BY <1>3, LenProperties
  <2>2. \A j \in 1 .. Len(space[i]) : space[i][j] \in Word
    BY <1>3, ElementOfSeq
  <2>. DEFINE r == [j \in 1 .. Len(space[i]) |-> IF space[i][j] = a.word THEN a.by ELSE space[i][j]]
  <2>3. inAll[i] = r
    BY <2>1
  <2>4. r \in [1 .. Len(space[i]) -> Word]
    BY <2>2
  <2>. HIDE DEF r, inAll
  <2>5. r \in Seq(Word)
    BY <2>1, <2>4, SeqDef
  <2>. QED  BY <2>3, <2>5 DEF Line
<1>5. ASSUME NEW i \in DOMAIN space
      PROVE  inOne[i] \in Line
  <2>. DEFINE w == FirstAt(space[first], a.word)
  <2>1. i = first => inOne[i] = [space[i] EXCEPT ![w] = a.by]
    OBVIOUS
  <2>2. i # first => inOne[i] = space[i]
    OBVIOUS
  <2>. HIDE DEF w, inOne, first
  <2>3. [space[i] EXCEPT ![w] = a.by] \in Seq(Word)
    <3>1. Len(space[i]) \in Nat /\ DOMAIN space[i] = 1 .. Len(space[i]) /\ space[i] \in [1 .. Len(space[i]) -> Word]
      BY <1>3, LenProperties
    <3>2. [space[i] EXCEPT ![w] = a.by] \in [1 .. Len(space[i]) -> Word]
      BY <3>1
    <3>. QED  BY <3>1, <3>2, SeqDef
  <2>. QED  BY <1>3, <2>1, <2>2, <2>3 DEF Line
<1>6. inAll \in [1 .. Len(space) -> Line] /\ inOne \in [1 .. Len(space) -> Line]
  <2>1. inAll = [i \in DOMAIN space |-> inAll[i]]
    OBVIOUS
  <2>2. inOne = [i \in DOMAIN space |-> inOne[i]]
    <3>. HIDE DEF first
    <3>. QED  OBVIOUS
  <2>. HIDE DEF inAll, inOne
  <2>. QED  BY <1>2, <1>4, <1>5, <2>1, <2>2
<1>. HIDE DEF inAll, inOne
<1>7. ASSUME NEW s \in [1 .. Len(space) -> Line] PROVE s \in Seq(Line) /\ DOMAIN s # {}
  <2>1. s \in Seq(Line)
    BY <1>2, SeqDef
  <2>2. 1 \in DOMAIN s
    BY <1>2
  <2>. QED  BY <2>1, <2>2
<1>8. <<>> \in Seq(Line) /\ DOMAIN <<>> = {}
  OBVIOUS
<1>. QED  BY <1>1, <1>6, <1>7, <1>8

LEMMA EditedTyped ==
    ASSUME NEW space \in Seq(Line) \ {<<>>}, NEW instr, NEW id, Instructed(instr, id),
           instr.action.kind \in ValueKinds
    PROVE  Edited(instr.action, space) \in Seq(Line) \ {<<>>}
<1>. DEFINE a == instr.action
<1>1. \A l \in Line : <<l>> \in Seq(Line) /\ Len(<<l>>) = 1 /\ <<l>> # <<>>
  BY EmptySeq
<1>2. CASE a.kind = "InsertBefore"
  <2>1. a.text \in Line
    BY <1>2 DEF Instructed
  <2>2. <<a.text>> \o space \in Seq(Line) /\ <<a.text>> \o space # <<>>
    BY <1>1, <2>1, ConcatProperties, ConcatEqualIffEmpty
  <2>. QED  BY <1>2, <2>2 DEF Edited
<1>3. CASE a.kind = "InsertAfter"
  <2>1. a.text \in Line
    BY <1>3 DEF Instructed
  <2>2. space \o <<a.text>> \in Seq(Line) /\ space \o <<a.text>> # <<>>
    BY <1>1, <2>1, ConcatProperties, ConcatEqualIffEmpty
  <2>. QED  BY <1>3, <2>2 DEF Edited
<1>4. CASE a.kind = "Replace"
  BY <1>1, <1>4 DEF Instructed, Edited
<1>5. CASE a.kind = "RegexReplace"
  BY <1>5, ReplacedTyped DEF Instructed, Edited
<1>6. CASE a.kind = "Function"
  BY <1>1, <1>6 DEF Instructed, Edited
<1>. QED  BY <1>2, <1>3, <1>4, <1>5, <1>6 DEF ValueKinds

LEMMA LastWordsTyped ==
    ASSUME NEW space \in Seq(Line) \ {<<>>}
    PROVE  LastWords(space) \in Seq(Line)
<1>. DEFINE stripped == IF Len(space) > 1 /\ space[1] = Blank THEN Tail(space) ELSE space
<1>1. stripped \in Seq(Line)
  BY HeadTailProperties
<1>2. LastWords(space) \in {<<>>, stripped, Front(stripped)}
  BY DEF LastWords
<1>. HIDE DEF stripped
<1>3. stripped # <<>> => Front(stripped) \in Seq(Line)
  BY <1>1, FrontTyped
<1>4. stripped # <<>>
  <2>1. Len(space) \in Nat /\ Len(Tail(space)) = Len(space) - 1
    BY HeadTailProperties, LenProperties
  <2>2. Len(space) > 1 => Tail(space) # <<>>
    <3>1. Tail(space) = <<>> => Len(Tail(space)) = 0
      BY EmptySeq
    <3>. QED  BY <2>1, <3>1
  <2>. QED  BY <2>2 DEF stripped
<1>. QED  BY <1>1, <1>2, <1>3, <1>4, EmptySeq

\* The frame a program starts with.
LEMMA FirstFrame ==
    ASSUME NEW line \in Line
    PROVE  /\ <<[program |-> 1, pc |-> 1, line |-> line]>> \in Seq(Frame)
           /\ <<[program |-> 1, pc |-> 1, line |-> line]>> # <<>>
<1>1. [program |-> 1, pc |-> 1, line |-> line] \in Frame
  BY LineEditAssumption DEF Frame
<1>. QED  BY <1>1, EmptySeq

LEMMA PushStrTyped ==
    ASSUME NEW space \in Seq(Line) \ {<<>>}, NEW line \in Line
    PROVE  PushStr(space, line) \in Seq(Line) \ {<<>>}
<1>1. Len(space) \in Nat \ {0} /\ Len(space) \in 1 .. Len(space)
  BY EmptySeq
<1>. DEFINE new == space[Len(space)] \o line
<1>2. new \in Line
  BY <1>1, ElementOfSeq, ConcatProperties DEF Line
<1>3. PushStr(space, line) = [space EXCEPT ![Len(space)] = new]
  BY DEF PushStr
<1>. HIDE DEF new
<1>4. PushStr(space, line) \in Seq(Line) /\ Len(PushStr(space, line)) = Len(space)
  BY <1>1, <1>2, <1>3, ExceptSeq
<1>5. PushStr(space, line) # <<>>
  BY <1>1, <1>4, EmptySeq
<1>. QED  BY <1>4, <1>5

LEMMA PrintedTyped ==
    ASSUME NEW out \in Seq(Line), NEW space \in Seq(Line)
    PROVE  /\ Printed(out, space) \in Seq(Line)
           /\ EditInv => \A n \in 0 .. Len(input) : Rest(out, space, n) \in Seq(Line)
<1>1. Printed(out, space) \in Seq(Line)
  BY ConcatProperties DEF Printed
<1>2. ASSUME EditInv, NEW n \in 0 .. Len(input) PROVE Rest(out, space, n) \in Seq(Line)
  <2>1. SubSeq(input, n + 1, Len(input)) \in Seq(Line)
    BY <1>2, InputTyped, RestItems
  <2>. QED  BY <1>1, <2>1, ConcatProperties DEF Rest
<1>. QED  BY <1>1, <1>2

\* The fields of the invariant, for a step of the editor.
LEMMA StepTyped ==
    ASSUME EditInv, mode \in {"lines", "eof"}, lib' = lib, input' = input,
           mode' \in {"lines", "eof", "done", "panicked"},
           line_number' \in 0 .. Len(input),
           pattern_space' \in Seq(Line) \ {<<>>}, output' \in Seq(Line), frames' \in Seq(Frame),
           mode' = "eof" => frames' # <<>>
    PROVE  EditInv'
  BY DEF EditInv, EditTypeOK, Frame

LEMMA EditNextTyped == EditInv /\ EditNext => EditInv'
<1>. SUFFICES ASSUME EditInv, EditNext PROVE EditInv'
  OBVIOUS
<1>1. /\ pattern_space \in Seq(Line) \ {<<>>} /\ output \in Seq(Line) /\ frames \in Seq(Frame)
      /\ line_number \in 0 .. Len(input) /\ line_number \in Nat /\ Len(input) \in Nat
      /\ \A n \in 1 .. Len(input) : input[n] \in Line
      /\ mode \in {"lines", "eof"} => lib \in DOMAIN Libraries
      /\ mode = "eof" => frames # <<>>
  BY InputTyped DEF EditInv, EditTypeOK, Frame
<1>2. /\ Printed(output, pattern_space) \in Seq(Line)
      /\ Rest(output, pattern_space, line_number) \in Seq(Line)
  BY <1>1, PrintedTyped
<1>3. \A line \in Line : frames # <<>> => Advance(line) \in Seq(Frame) /\ Advance(line) # <<>>
  BY AdvanceTyped
<1>4. frames # <<>> => Top.line \in Line
  BY TopTyped
<1>5. \A out \in Seq(Line), space \in Seq(Line) \ {<<>>} :
         Finish(out, space) => /\ output' \in Seq(Line) /\ pattern_space' = space
                               /\ mode' = "done" /\ frames' \in Seq(Frame)
  BY LastWordsTyped, ConcatProperties, EmptySeq DEF Finish
<1>6. CASE LoadLine
  <2>1. /\ line_number' \in 1 .. Len(input) /\ input[line_number'] \in Line
        /\ line_number' \in 0 .. Len(input)
    BY <1>1, <1>6 DEF LoadLine
  <2>2. pattern_space' \in Seq(Line) \ {<<>>}
    BY <1>1, <1>6, <2>1, PushStrTyped DEF LoadLine
  <2>3. frames' \in Seq(Frame)
    BY <1>6, <2>1, FirstFrame DEF LoadLine
  <2>. QED  BY <1>1, <1>6, <2>1, <2>2, <2>3, StepTyped DEF LoadLine
<1>7. CASE SkipInstruction
  BY <1>1, <1>3, <1>4, <1>7, StepTyped DEF SkipInstruction
<1>8. CASE ExecPrint
  BY <1>1, <1>2, <1>3, <1>4, <1>8, StepTyped DEF ExecPrint, Running
<1>9. CASE ExecEdit
  <2>1. pattern_space' \in Seq(Line) \ {<<>>}
    <3>1. Instructed(Instruction, Top.program)
      BY <1>9, InstructionTyped DEF ExecEdit, Running
    <3>2. Instruction.action.kind \in ValueKinds /\ pattern_space' = Edited(Instruction.action, pattern_space)
      BY <1>9 DEF ExecEdit, Running
    <3>. QED  BY <1>1, <3>1, <3>2, EditedTyped
  <2>. QED  BY <1>1, <1>3, <1>4, <1>9, <2>1, StepTyped DEF ExecEdit, Running
<1>10. CASE ExecDelete
  BY <1>1, <1>10, StepTyped, BlankTyped, EmptySeq DEF ExecDelete, Running, DeletedSpace
<1>11. CASE ExecNextLine
  <2>1. output' \in Seq(Line)
    BY <1>1, <1>2, <1>11 DEF ExecNextLine
  <2>2. frames # <<>> /\ mode = "lines" /\ mode' = mode /\ lib' = lib /\ input' = input
    BY <1>11 DEF ExecNextLine, Running
  <2>3. CASE line_number < Len(input)
    <3>1. line_number' = line_number + 1 /\ pattern_space' = <<input[line_number']>> /\ frames' = Advance(input[line_number'])
      BY <1>11, <2>3 DEF ExecNextLine
    <3>2. line_number' \in 0 .. Len(input) /\ input[line_number'] \in Line
      BY <1>1, <2>3, <3>1
    <3>3. pattern_space' \in Seq(Line) \ {<<>>}
      BY <3>1, <3>2, EmptySeq
    <3>. QED  BY <1>1, <1>3, <2>1, <2>2, <3>1, <3>2, <3>3, StepTyped
  <2>4. CASE ~(line_number < Len(input))
    <3>1. line_number' = line_number /\ pattern_space' = EmptySpace /\ frames' = Advance(Top.line)
      BY <1>11, <2>4 DEF ExecNextLine
    <3>. QED  BY <1>1, <1>3, <1>4, <2>1, <2>2, <3>1, BlankTyped, StepTyped
  <2>. QED  BY <2>3, <2>4
<1>12. CASE ExecStop
  BY <1>1, <1>12, StepTyped, BlankTyped, FirstFrame DEF ExecStop, Running
<1>13. CASE ExecStopAndPrint
  BY <1>1, <1>2, <1>13, StepTyped, BlankTyped, FirstFrame DEF ExecStopAndPrint, Running
<1>14. CASE ExecSubprogram
  <2>1. Instructed(Instruction, Top.program) /\ Instruction.action.kind = "Subprogram"
    BY <1>14, InstructionTyped DEF ExecSubprogram, Running
  <2>2. [program |-> Instruction.action.sub, pc |-> 1, line |-> Top.line] \in Frame
    BY <1>4, <1>14, <2>1 DEF ExecSubprogram, Running, Instructed, Frame
  <2>3. frames' \in Seq(Frame)
    BY <1>3, <1>4, <1>14, <2>2, AppendProperties DEF ExecSubprogram, Running
  <2>. QED  BY <1>1, <1>14, <2>3, StepTyped DEF ExecSubprogram, Running
<1>15. CASE ReturnToCaller
  <2>1. frames # <<>>
    BY <1>15, EmptySeq DEF ReturnToCaller
  <2>2. frames' \in Seq(Frame)
    BY <1>1, <1>15, <2>1, FrontTyped DEF ReturnToCaller
  <2>. QED  BY <1>1, <1>15, <2>2, StepTyped DEF ReturnToCaller
<1>16. CASE EndOfLine
  BY <1>1, <1>2, <1>16, StepTyped, BlankTyped, EmptySeq DEF EndOfLine
<1>17. CASE EndOfInput
  BY <1>1, <1>17, StepTyped, BlankTyped, FirstFrame DEF EndOfInput
<1>18. CASE EofSkip
  BY <1>1, <1>3, <1>18, StepTyped, BlankTyped DEF EofSkip
<1>19. CASE EofEdit
  <2>1. frames' \in Seq(Frame) /\ frames' # <<>>
    BY <1>1, <1>3, <1>19, BlankTyped DEF EofEdit, EofRunning
  <2>2. pattern_space' \in Seq(Line) \ {<<>>} /\ output' \in Seq(Line)
    <3>1. CASE Instruction.action.kind = "Print"
      BY <1>1, <1>2, <1>19, <3>1 DEF EofEdit
    <3>2. CASE Instruction.action.kind # "Print"
      <4>1. Instructed(Instruction, Top.program)
        BY <1>1, <1>19, InstructionTyped DEF EofEdit, EofRunning
      <4>2. /\ Instruction.action.kind \in ValueKinds
            /\ pattern_space' = Edited(Instruction.action, pattern_space) /\ output' = output
        BY <1>19, <3>2 DEF EofEdit, EofRunning
      <4>. QED  BY <1>1, <4>1, <4>2, EditedTyped
    <3>. QED  BY <3>1, <3>2
  <2>. QED  BY <1>1, <1>19, <2>1, <2>2, StepTyped DEF EofEdit, EofRunning
<1>20. CASE EofDelete
  <2>1. /\ output' \in Seq(Line) /\ pattern_space' \in Seq(Line) \ {<<>>}
        /\ mode' = "done" /\ frames' \in Seq(Frame)
    BY <1>1, <1>5, <1>20, BlankTyped DEF EofDelete, DeletedSpace
  <2>. QED  BY <1>1, <1>20, <2>1, StepTyped DEF EofDelete, EofRunning
<1>21. CASE EofStop
  <2>1. /\ output' \in Seq(Line) /\ pattern_space' \in Seq(Line) \ {<<>>}
        /\ mode' = "done" /\ frames' \in Seq(Frame)
    BY <1>1, <1>5, <1>21 DEF EofStop
  <2>. QED  BY <1>1, <1>21, <2>1, StepTyped DEF EofStop, EofRunning
<1>22. CASE EofStopAndPrint
  <2>1. /\ output' \in Seq(Line) /\ pattern_space' \in Seq(Line) \ {<<>>}
        /\ mode' = "done" /\ frames' \in Seq(Frame)
    BY <1>2, <1>5, <1>22, BlankTyped DEF EofStopAndPrint
  <2>. QED  BY <1>1, <1>22, <2>1, StepTyped DEF EofStopAndPrint, EofRunning
<1>23. CASE EofPanic
  BY <1>1, <1>23, StepTyped DEF EofPanic, EofRunning
<1>24. CASE EofEnd
  <2>1. /\ output' \in Seq(Line) /\ pattern_space' \in Seq(Line) \ {<<>>}
        /\ mode' = "done" /\ frames' \in Seq(Frame)
    BY <1>1, <1>5, <1>24 DEF EofEnd
  <2>. QED  BY <1>1, <1>24, <2>1, StepTyped DEF EofEnd
<1>. QED
  BY <1>6, <1>7, <1>8, <1>9, <1>10, <1>11, <1>12, <1>13, <1>14, <1>15, <1>16, <1>17, <1>18,
     <1>19, <1>20, <1>21, <1>22, <1>23, <1>24 DEF EditNext

-----------------------------------------------------------------------------
(* No line is lost *)

\* What every program does and how it ends, of the one that is running.
LEMMA OnlyThese ==
    ASSUME EditInv, mode \in {"lines", "eof"}, frames # <<>>, NEW kinds, Only(kinds)
    PROVE  /\ Program.print_default
           /\ Top.pc <= Len(Program.instructions) => Instruction.action.kind \in kinds
<1>1. Top.program \in ProgramId
  BY TopTyped
<1>2. Program.print_default
  BY <1>1 DEF Only, Program
<1>3. ASSUME Top.pc <= Len(Program.instructions) PROVE Instruction.action.kind \in kinds
  <2>1. Top.pc \in DOMAIN Program.instructions
    BY <1>3, InstructionTyped
  <2>2. Instruction.action.kind \in KindsOf(ProgramId)
    <3>. DEFINE Of(id) == {Libraries[lib][id].instructions[i].action.kind : i \in DOMAIN Libraries[lib][id].instructions}
    <3>1. Instruction.action.kind \in Of(Top.program)
      BY <2>1 DEF Instruction, Program
    <3>2. KindsOf(ProgramId) = UNION {Of(id) : id \in ProgramId}
      BY Zenon DEF KindsOf
    <3>. HIDE DEF Of
    <3>. QED  BY <1>1, <3>1, <3>2, SMTT(30)
  <2>. QED  BY <2>2 DEF Only
<1>. QED  BY <1>2, <1>3

\* A step within a text leaves the programs as they are.
LEMMA OnlyStays ==
    ASSUME lib' = lib, NEW kinds
    PROVE  Only(kinds)' <=> Only(kinds)
  BY DEF Only, KindsOf

\* Once the pattern space is printed, the current line is.
LEMMA HeldPrinted ==
    ASSUME NEW text \in Seq(Line), NEW n \in 0 .. Len(text), NEW space \in Seq(Line),
           NEW out \in Seq(Line), Held(text, n, space, out)
    PROVE  Kept(text, n, Printed(out, space))
<1>1. Len(text) \in Nat /\ n \in Nat
  BY LenProperties
<1>2. CASE Kept(text, n, out)
  BY <1>1, <1>2, KeptAfter DEF Printed
<1>3. CASE ~Kept(text, n, out)
  <2>1. n > 0 /\ Kept(text, n - 1, out)
    BY <1>3 DEF Held
  <2>2. PICK i \in DOMAIN space : space[i] = text[n]
    BY <1>3 DEF Held
  <2>. DEFINE k == n - 1
  <2>3. k \in Nat /\ k + 1 = n /\ Kept(text, k, out)
    BY <1>1, <2>1
  <2>. HIDE DEF k
  <2>4. space[i] = text[k + 1]
    BY <2>2, <2>3
  <2>5. Kept(text, k + 1, out \o space)
    BY <2>3, <2>4, KeptNext
  <2>. QED  BY <2>3, <2>5 DEF Printed
<1>. QED  BY <1>2, <1>3


\* The same, item for item.
LEMMA CopyingPrinted ==
    ASSUME NEW text \in Seq(Line), NEW n \in 0 .. Len(text), NEW space, NEW out \in Seq(Line),
           Copying(text, n, space, out)
    PROVE  Copy(text, n, Printed(out, space))
<1>1. Len(text) \in Nat /\ n \in Nat
  BY LenProperties
<1>2. CASE n > 0 /\ space = <<text[n]>> /\ Copy(text, n - 1, out) /\ Len(out) = n - 1
  <2>. DEFINE k == n - 1
  <2>1. k \in 0 .. Len(text) - 1 /\ k + 1 = n /\ Copy(text, k, out) /\ Len(out) = k
    BY <1>1, <1>2
  <2>. HIDE DEF k
  <2>2. Copy(text, k + 1, out \o <<text[k + 1]>>)
    BY <2>1, CopyNext
  <2>. QED  BY <1>2, <2>1, <2>2 DEF Printed
<1>3. CASE n = Len(text) /\ space = EmptySpace /\ Copy(text, n, out)
  BY <1>3, CopyBlank, BlankTyped DEF Printed, EmptySpace
<1>. QED  BY <1>2, <1>3 DEF Copying

\* What is printed at the end takes nothing away.
LEMMA KeptFinish ==
    ASSUME EditInv, NEW out \in Seq(Line), NEW space \in Seq(Line) \ {<<>>}, Finish(out, space),
           Kept(input, Len(input), out)
    PROVE  Kept(input, Len(input), output')
  BY InputTyped, LastWordsTyped, KeptAfter DEF Finish

\* At the end nothing is left in an empty pattern space.
LEMMA CopyFinish ==
    ASSUME NEW out \in Seq(Line), Finish(out, EmptySpace)
    PROVE  output' = out
  BY ConcatEmptySeq DEF Finish, LastWords

LEMMA KeptNextStep == EditInv /\ KeptInv /\ EditNext => KeptInv'
<1>. SUFFICES ASSUME EditInv, KeptInv, EditNext, Only(Keeping)'
              PROVE  /\ (mode = "lines" /\ frames = <<>> =>
                            pattern_space = EmptySpace /\ Kept(input, line_number, output))'
                     /\ (mode = "lines" /\ frames # <<>> => Held(input, line_number, pattern_space, output))'
                     /\ (mode \in {"eof", "done"} => Kept(input, Len(input), output))'
  BY DEF KeptInv
<1>1. lib' = lib /\ input' = input
  BY DEF EditNext, LoadLine, SkipInstruction, ExecPrint, ExecEdit, ExecDelete, ExecNextLine, ExecStop,
         ExecStopAndPrint, ExecSubprogram, ReturnToCaller, EndOfLine, EndOfInput, EofSkip, EofEdit,
         EofDelete, EofStop, EofStopAndPrint, EofPanic, EofEnd
<1>2. Only(Keeping)
  BY <1>1, OnlyStays
<1>3. /\ pattern_space \in Seq(Line) \ {<<>>} /\ output \in Seq(Line)
      /\ line_number \in 0 .. Len(input) /\ line_number \in Nat /\ Len(input) \in Nat
      /\ input \in Seq(Line)
  BY InputTyped DEF EditInv, EditTypeOK
<1>4. mode = "lines" /\ frames # <<>> =>
         /\ Held(input, line_number, pattern_space, output)
         /\ Kept(input, line_number, Printed(output, pattern_space))
         /\ Program.print_default
  BY <1>2, <1>3, HeldPrinted, OnlyThese DEF KeptInv
<1>5. mode \in {"lines", "eof"} /\ frames # <<>> /\ Top.pc <= Len(Program.instructions)
         => Instruction.action.kind \in Keeping
  BY <1>2, OnlyThese
<1>6. mode = "eof" => frames # <<>> /\ Kept(input, Len(input), output)
  BY <1>2 DEF KeptInv, EditInv
<1>7. \A line \in Line : frames # <<>> => Advance(line) # <<>>
  BY AdvanceTyped
<1>8. frames # <<>> => Top.line \in Line
  BY TopTyped
<1>9. CASE LoadLine
  <2>1. /\ pattern_space = EmptySpace /\ Kept(input, line_number, output)
        /\ line_number' = line_number + 1 /\ line_number' \in 1 .. Len(input)
        /\ mode' = "lines" /\ frames' # <<>> /\ output' = output
    BY <1>2, <1>3, <1>9 DEF LoadLine, KeptInv
  <2>2. input[line_number'] \in Line
    BY <2>1, InputTyped
  <2>3. pattern_space' = [EmptySpace EXCEPT ![1] = @ \o input[line_number']]
    BY <1>9, <2>1, BlankTyped DEF LoadLine, PushStr
  <2>4. 1 \in DOMAIN pattern_space' /\ pattern_space'[1] = <<>> \o input[line_number']
    BY <2>3 DEF EmptySpace, Blank
  <2>5. pattern_space'[1] = input[line_number']
    BY <2>2, <2>4, ConcatEmptySeq DEF Line
  <2>6. line_number' > 0 /\ line_number' - 1 = line_number
    BY <1>3, <2>1
  <2>7. Held(input', line_number', pattern_space', output')
    BY <1>1, <2>1, <2>4, <2>5, <2>6 DEF Held
  <2>. QED  BY <2>1, <2>7
<1>10. CASE SkipInstruction
  BY <1>1, <1>4, <1>7, <1>8, <1>10 DEF SkipInstruction
<1>11. CASE ExecPrint
  <2>1. Held(input', line_number', pattern_space', output')
    BY <1>1, <1>4, <1>11 DEF ExecPrint, Running, Held
  <2>. QED  BY <1>7, <1>8, <1>11, <2>1 DEF ExecPrint, Running
<1>12. CASE ExecEdit
  <2>1. /\ frames # <<>> /\ mode = "lines" /\ Instruction.action.kind \in {"InsertBefore", "InsertAfter"}
        /\ pattern_space' = Edited(Instruction.action, pattern_space)
        /\ output' = output /\ line_number' = line_number /\ mode' = mode /\ frames' # <<>>
    BY <1>5, <1>7, <1>8, <1>12 DEF ExecEdit, Running, ValueKinds, Keeping, Moving
  <2>. DEFINE text == Instruction.action.text
  <2>2. text \in Line /\ <<text>> \in Seq(Line) /\ Len(<<text>>) = 1
    BY <1>12, <2>1, InstructionTyped DEF ExecEdit, Running, Instructed
  <2>3. pattern_space' \in {<<text>> \o pattern_space, pattern_space \o <<text>>}
    BY <2>1 DEF Edited
  <2>. HIDE DEF text
  <2>4. \A i \in DOMAIN pattern_space : \E j \in DOMAIN pattern_space' : pattern_space'[j] = pattern_space[i]
    <3>1. CASE pattern_space' = <<text>> \o pattern_space
      <4>1. /\ Len(pattern_space) \in Nat /\ DOMAIN pattern_space = 1 .. Len(pattern_space)
            /\ DOMAIN pattern_space' = 1 .. Len(<<text>>) + Len(pattern_space)
            /\ \A i \in 1 .. Len(pattern_space) : pattern_space'[Len(<<text>>) + i] = pattern_space[i]
        BY <1>3, <2>2, <3>1, ConcatItems
      <4>2. \A i \in 1 .. Len(pattern_space) : 1 + i \in DOMAIN pattern_space' /\ pattern_space'[1 + i] = pattern_space[i]
        BY <2>2, <4>1
      <4>. QED  BY <4>1, <4>2
    <3>2. CASE pattern_space' = pattern_space \o <<text>>
      <4>1. /\ Len(pattern_space) \in Nat /\ DOMAIN pattern_space = 1 .. Len(pattern_space)
            /\ DOMAIN pattern_space' = 1 .. Len(pattern_space) + Len(<<text>>)
            /\ \A i \in 1 .. Len(pattern_space) : pattern_space'[i] = pattern_space[i]
        BY <1>3, <2>2, <3>2, ConcatItems
      <4>2. \A i \in 1 .. Len(pattern_space) : i \in DOMAIN pattern_space'
        BY <2>2, <4>1
      <4>. QED  BY <4>1, <4>2
    <3>. QED  BY <2>3, <3>1, <3>2
  <2>5. Held(input', line_number', pattern_space', output')
    BY <1>1, <1>4, <2>1, <2>4 DEF Held
  <2>. QED  BY <2>1, <2>5
<1>13. CASE ExecDelete
  BY <1>5, <1>13 DEF ExecDelete, Running, Keeping, Moving
<1>14. CASE ExecNextLine
  <2>1. /\ mode = "lines" /\ frames # <<>> /\ mode' = mode
        /\ output' = Printed(output, pattern_space) /\ Kept(input, line_number, output')
    BY <1>4, <1>14 DEF ExecNextLine, Running
  <2>2. CASE line_number < Len(input)
    <3>1. /\ line_number' = line_number + 1 /\ pattern_space' = <<input[line_number']>>
          /\ frames' = Advance(input[line_number'])
      BY <1>14, <2>2 DEF ExecNextLine
    <3>2. line_number' \in 1 .. Len(input) /\ line_number' - 1 = line_number /\ line_number' > 0
      BY <1>3, <2>2, <3>1
    <3>3. frames' # <<>>
      BY <1>7, <2>1, <3>1, <3>2, InputTyped
    <3>4. 1 \in DOMAIN pattern_space' /\ pattern_space'[1] = input[line_number']
      BY <3>1
    <3>5. Held(input', line_number', pattern_space', output')
      BY <1>1, <2>1, <3>2, <3>4 DEF Held
    <3>. QED  BY <2>1, <3>3, <3>5
  <2>3. CASE ~(line_number < Len(input))
    <3>1. line_number' = line_number /\ frames' = Advance(Top.line)
      BY <1>14, <2>3 DEF ExecNextLine
    <3>. QED  BY <1>1, <1>7, <1>8, <2>1, <3>1 DEF Held
  <2>. QED  BY <2>2, <2>3
<1>15. CASE ExecStop
  BY <1>5, <1>15 DEF ExecStop, Running, Keeping, Moving
<1>16. CASE ExecStopAndPrint
  <2>1. mode' = "eof" /\ output' = Printed(output, pattern_space) \o SubSeq(input, line_number + 1, Len(input))
    BY <1>16 DEF ExecStopAndPrint, Rest
  <2>2. Kept(input, line_number, Printed(output, pattern_space))
    BY <1>4, <1>16 DEF ExecStopAndPrint, Running
  <2>3. Kept(input, Len(input), output')
    BY <1>3, <2>1, <2>2, PrintedTyped, KeptRest
  <2>. QED  BY <1>1, <2>1, <2>3
<1>17. CASE ExecSubprogram
  <2>1. frames' # <<>>
    <3>1. Instructed(Instruction, Top.program) /\ Instruction.action.kind = "Subprogram" /\ frames # <<>>
      BY <1>17, InstructionTyped DEF ExecSubprogram, Running
    <3>2. [program |-> Instruction.action.sub, pc |-> 1, line |-> Top.line] \in Frame
      BY <1>8, <3>1 DEF Instructed, Frame
    <3>3. Advance(Top.line) \in Seq(Frame)
      BY <1>8, <3>1, AdvanceTyped
    <3>. QED  BY <1>17, <3>2, <3>3, AppendProperties DEF ExecSubprogram
  <2>. QED  BY <1>1, <1>4, <1>17, <2>1 DEF ExecSubprogram, Running
<1>18. CASE ReturnToCaller
  <2>1. frames # <<>> /\ frames \in Seq(Frame)
    BY <1>18, EmptySeq DEF ReturnToCaller, EditInv, EditTypeOK, Frame
  <2>2. Len(Front(frames)) = Len(frames) - 1 /\ Len(frames) \in Nat
    BY <2>1, FrontTyped, LenProperties
  <2>3. frames' # <<>>
    BY <1>18, <2>2, EmptySeq DEF ReturnToCaller
  <2>. QED  BY <1>1, <1>4, <1>18, <2>1, <2>3 DEF ReturnToCaller
<1>19. CASE EndOfLine
  <2>1. frames # <<>>
    <3>1. Len(frames) = 1
      BY <1>19 DEF EndOfLine
    <3>2. Len(<<>>) = 0
      OBVIOUS
    <3>. QED  BY <3>1, <3>2
  <2>2. output' = Printed(output, pattern_space)
    BY <1>4, <1>19, <2>1 DEF EndOfLine
  <2>. QED  BY <1>1, <1>4, <1>19, <2>1, <2>2 DEF EndOfLine
<1>20. CASE EndOfInput
  BY <1>1, <1>2, <1>20 DEF EndOfInput, KeptInv
<1>21. CASE EofSkip
  BY <1>1, <1>6, <1>21 DEF EofSkip
<1>22. CASE EofEdit
  <2>1. CASE Instruction.action.kind = "Print"
    <3>1. output' = output \o pattern_space /\ mode' = "eof"
      BY <1>22, <2>1 DEF EofEdit, EofRunning, Printed
    <3>2. Kept(input, Len(input), output')
      BY <1>3, <1>6, <1>22, <3>1, KeptAfter DEF EofEdit, EofRunning
    <3>. QED  BY <1>1, <3>1, <3>2
  <2>2. CASE Instruction.action.kind # "Print"
    BY <1>1, <1>6, <1>22, <2>2 DEF EofEdit, EofRunning
  <2>. QED  BY <2>1, <2>2
<1>23. CASE EofDelete
  BY <1>5, <1>6, <1>23, Zenon DEF EofDelete, EofRunning, Keeping, Moving
<1>24. CASE EofStop
  BY <1>5, <1>6, <1>24 DEF EofStop, EofRunning, Keeping, Moving
<1>25. CASE EofStopAndPrint
  <2>. DEFINE all == Rest(output, pattern_space, line_number)
  <2>1. Kept(input, Len(input), Printed(output, pattern_space))
    BY <1>3, <1>6, <1>25, KeptAfter DEF EofStopAndPrint, EofRunning, Printed
  <2>2. /\ Printed(output, pattern_space) \in Seq(Line) /\ all \in Seq(Line)
        /\ SubSeq(input, line_number + 1, Len(input)) \in Seq(Line)
    BY <1>3, PrintedTyped, RestItems
  <2>3. Kept(input, Len(input), all)
    BY <1>3, <2>1, <2>2, KeptAfter DEF Rest
  <2>4. Finish(all, EmptySpace)
    BY <1>25 DEF EofStopAndPrint
  <2>. HIDE DEF all
  <2>5. Kept(input, Len(input), output') /\ mode' = "done"
    BY <2>2, <2>3, <2>4, KeptFinish, BlankTyped DEF Finish
  <2>. QED  BY <1>1, <2>5
<1>26. CASE EofPanic
  BY <1>26 DEF EofPanic
<1>27. CASE EofEnd
  <2>1. Kept(input, Len(input), output') /\ mode' = "done"
    BY <1>3, <1>6, <1>27, KeptFinish DEF EofEnd, Finish
  <2>. QED  BY <1>1, <2>1
<1>. QED
  BY <1>9, <1>10, <1>11, <1>12, <1>13, <1>14, <1>15, <1>16, <1>17, <1>18, <1>19, <1>20,
     <1>21, <1>22, <1>23, <1>24, <1>25, <1>26, <1>27 DEF EditNext

LEMMA CopyNextStep == EditInv /\ CopyInv /\ EditNext => CopyInv'
<1>. SUFFICES ASSUME EditInv, CopyInv, EditNext, Only(Moving)'
              PROVE  /\ (mode = "lines" /\ frames = <<>> =>
                            pattern_space = EmptySpace /\ Copy(input, line_number, output))'
                     /\ (mode = "lines" /\ frames # <<>> => Copying(input, line_number, pattern_space, output))'
                     /\ (mode = "eof" => line_number = Len(input) /\ pattern_space = EmptySpace)'
                     /\ (mode \in {"eof", "done"} => Copy(input, Len(input), output))'
  BY DEF CopyInv
<1>1. lib' = lib /\ input' = input
  BY DEF EditNext, LoadLine, SkipInstruction, ExecPrint, ExecEdit, ExecDelete, ExecNextLine, ExecStop,
         ExecStopAndPrint, ExecSubprogram, ReturnToCaller, EndOfLine, EndOfInput, EofSkip, EofEdit,
         EofDelete, EofStop, EofStopAndPrint, EofPanic, EofEnd
<1>2. Only(Moving)
  BY <1>1, OnlyStays
<1>3. /\ pattern_space \in Seq(Line) \ {<<>>} /\ output \in Seq(Line)
      /\ line_number \in 0 .. Len(input) /\ line_number \in Nat /\ Len(input) \in Nat
      /\ input \in Seq(Line)
  BY InputTyped DEF EditInv, EditTypeOK
<1>4. mode = "lines" /\ frames # <<>> =>
         /\ Copying(input, line_number, pattern_space, output)
         /\ Copy(input, line_number, Printed(output, pattern_space))
         /\ Program.print_default
  BY <1>2, <1>3, CopyingPrinted, OnlyThese DEF CopyInv
<1>5. mode \in {"lines", "eof"} /\ frames # <<>> /\ Top.pc <= Len(Program.instructions)
         => Instruction.action.kind \in Moving
  BY <1>2, OnlyThese
<1>6. mode = "eof" => /\ frames # <<>> /\ line_number = Len(input) /\ pattern_space = EmptySpace
                      /\ Copy(input, Len(input), output)
  BY <1>2 DEF CopyInv, EditInv
<1>7. \A line \in Line : frames # <<>> => Advance(line) # <<>>
  BY AdvanceTyped
<1>8. frames # <<>> => Top.line \in Line
  BY TopTyped
<1>9. CASE LoadLine
  <2>1. /\ pattern_space = EmptySpace /\ Copy(input, line_number, output)
        /\ line_number' = line_number + 1 /\ line_number' \in 1 .. Len(input) /\ line_number < Len(input)
        /\ mode' = "lines" /\ frames' # <<>> /\ output' = output
    BY <1>2, <1>3, <1>9 DEF LoadLine, CopyInv
  <2>2. input[line_number'] \in Line
    BY <2>1, InputTyped
  <2>3. pattern_space' = [EmptySpace EXCEPT ![1] = @ \o input[line_number']]
    BY <1>9, <2>1, BlankTyped DEF LoadLine, PushStr
  <2>4. pattern_space' = <<Blank \o input[line_number']>>
    BY <2>3 DEF EmptySpace
  <2>5. pattern_space' = <<input[line_number']>>
    BY <2>2, <2>4, ConcatEmptySeq DEF Line, Blank
  <2>6. line_number' > 0 /\ line_number' - 1 = line_number /\ Len(output) = line_number
    BY <1>3, <2>1 DEF Copy
  <2>7. Copying(input', line_number', pattern_space', output')
    BY <1>1, <2>1, <2>5, <2>6 DEF Copying
  <2>. QED  BY <2>1, <2>7
<1>10. CASE SkipInstruction
  BY <1>1, <1>4, <1>7, <1>8, <1>10 DEF SkipInstruction
<1>11. CASE ExecPrint
  BY <1>5, <1>11 DEF ExecPrint, Running, Moving
<1>12. CASE ExecEdit
  BY <1>5, <1>12 DEF ExecEdit, Running, ValueKinds, Moving
<1>13. CASE ExecDelete
  BY <1>5, <1>13 DEF ExecDelete, Running, Moving
<1>14. CASE ExecNextLine
  <2>1. /\ mode = "lines" /\ frames # <<>> /\ mode' = mode
        /\ output' = Printed(output, pattern_space) /\ Copy(input, line_number, output')
    BY <1>4, <1>14 DEF ExecNextLine, Running
  <2>2. CASE line_number < Len(input)
    <3>1. /\ line_number' = line_number + 1 /\ pattern_space' = <<input[line_number']>>
          /\ frames' = Advance(input[line_number'])
      BY <1>14, <2>2 DEF ExecNextLine
    <3>2. line_number' \in 1 .. Len(input) /\ line_number' - 1 = line_number /\ line_number' > 0
      BY <1>3, <2>2, <3>1
    <3>3. frames' # <<>>
      BY <1>7, <2>1, <3>1, <3>2, InputTyped
    <3>4. Len(output') = line_number
      BY <2>1, <2>2 DEF Copy
    <3>5. Copying(input', line_number', pattern_space', output')
      BY <1>1, <2>1, <3>1, <3>2, <3>4 DEF Copying
    <3>. QED  BY <2>1, <3>3, <3>5
  <2>3. CASE ~(line_number < Len(input))
    <3>1. line_number' = line_number /\ frames' = Advance(Top.line) /\ pattern_space' = EmptySpace
      BY <1>14, <2>3 DEF ExecNextLine
    <3>2. line_number = Len(input)
      BY <1>3, <2>3
    <3>. QED  BY <1>1, <1>7, <1>8, <2>1, <3>1, <3>2 DEF Copying
  <2>. QED  BY <2>2, <2>3
<1>15. CASE ExecStop
  BY <1>5, <1>15 DEF ExecStop, Running, Moving
<1>16. CASE ExecStopAndPrint
  <2>1. /\ mode' = "eof" /\ line_number' = Len(input) /\ pattern_space' = EmptySpace
        /\ output' = Printed(output, pattern_space) \o SubSeq(input, line_number + 1, Len(input))
    BY <1>16 DEF ExecStopAndPrint, Rest
  <2>2. Copy(input, line_number, Printed(output, pattern_space))
    BY <1>4, <1>16 DEF ExecStopAndPrint, Running
  <2>3. Copy(input, Len(input), output')
    BY <1>3, <2>1, <2>2, PrintedTyped, CopyRest
  <2>. QED  BY <1>1, <2>1, <2>3
<1>17. CASE ExecSubprogram
  <2>1. frames' # <<>>
    <3>1. Instructed(Instruction, Top.program) /\ Instruction.action.kind = "Subprogram" /\ frames # <<>>
      BY <1>17, InstructionTyped DEF ExecSubprogram, Running
    <3>2. [program |-> Instruction.action.sub, pc |-> 1, line |-> Top.line] \in Frame
      BY <1>8, <3>1 DEF Instructed, Frame
    <3>3. Advance(Top.line) \in Seq(Frame)
      BY <1>8, <3>1, AdvanceTyped
    <3>. QED  BY <1>17, <3>2, <3>3, AppendProperties DEF ExecSubprogram
  <2>. QED  BY <1>1, <1>4, <1>17, <2>1 DEF ExecSubprogram, Running
<1>18. CASE ReturnToCaller
  <2>1. frames # <<>> /\ frames \in Seq(Frame)
    BY <1>18, EmptySeq DEF ReturnToCaller, EditInv, EditTypeOK, Frame
  <2>2. Len(Front(frames)) = Len(frames) - 1 /\ Len(frames) \in Nat
    BY <2>1, FrontTyped, LenProperties
  <2>3. frames' # <<>>
    BY <1>18, <2>2, EmptySeq DEF ReturnToCaller
  <2>. QED  BY <1>1, <1>4, <1>18, <2>1, <2>3 DEF ReturnToCaller
<1>19. CASE EndOfLine
  <2>1. frames # <<>>
    <3>1. Len(frames) = 1
      BY <1>19 DEF EndOfLine
    <3>2. Len(<<>>) = 0
      OBVIOUS
    <3>. QED  BY <3>1, <3>2
  <2>2. output' = Printed(output, pattern_space)
    BY <1>4, <1>19, <2>1 DEF EndOfLine
  <2>. QED  BY <1>1, <1>4, <1>19, <2>1, <2>2 DEF EndOfLine
<1>20. CASE EndOfInput
  BY <1>1, <1>2, <1>20 DEF EndOfInput, CopyInv
<1>21. CASE EofSkip
  BY <1>1, <1>6, <1>21 DEF EofSkip
<1>22. CASE EofEdit
  BY <1>5, <1>6, <1>22 DEF EofEdit, EofRunning, ValueKinds, Moving
<1>23. CASE EofDelete
  BY <1>5, <1>6, <1>23 DEF EofDelete, EofRunning, Moving
<1>24. CASE EofStop
  BY <1>5, <1>6, <1>24 DEF EofStop, EofRunning, Moving
<1>25. CASE EofStopAndPrint
  <2>. DEFINE all == Rest(output, pattern_space, line_number)
  <2>1. Copy(input, Len(input), Printed(output, pattern_space))
    BY <1>3, <1>6, <1>25, CopyBlank, BlankTyped DEF EofStopAndPrint, EofRunning, Printed, EmptySpace
  <2>2. Printed(output, pattern_space) \in Seq(Line) /\ all \in Seq(Line) /\ line_number = Len(input)
    BY <1>3, <1>6, <1>25, PrintedTyped DEF EofStopAndPrint, EofRunning
  <2>3. Copy(input, Len(input), all)
    BY <1>3, <2>1, <2>2, CopyRest DEF Rest
  <2>4. Finish(all, EmptySpace)
    BY <1>25 DEF EofStopAndPrint
  <2>. HIDE DEF all
  <2>5. Copy(input, Len(input), output') /\ mode' = "done"
    BY <2>2, <2>3, <2>4, CopyFinish DEF Finish
  <2>. QED  BY <1>1, <2>5
<1>26. CASE EofPanic
  BY <1>26 DEF EofPanic
<1>27. CASE EofEnd
  <2>1. Copy(input, Len(input), output') /\ mode' = "done"
    BY <1>3, <1>6, <1>27, CopyFinish DEF EofEnd, Finish
  <2>. QED  BY <1>1, <2>1
<1>. QED
  BY <1>9, <1>10, <1>11, <1>12, <1>13, <1>14, <1>15, <1>16, <1>17, <1>18, <1>19, <1>20,
     <1>21, <1>22, <1>23, <1>24, <1>25, <1>26, <1>27 DEF EditNext

-----------------------------------------------------------------------------
(* The reference *)

\* A program whose instructions are in order.
Proper(p) ==
    /\ Len(p.instructions) \in Nat
    /\ DOMAIN p.instructions = 1 .. Len(p.instructions)
    /\ \A i \in DOMAIN p.instructions : Instructed(p.instructions[i], 1)

\* What a line prints before it reaches its end, and what the lines up to k come to.
PrintedUpTo(p, text, n, k) == FlattenSeq([i \in 1 .. k |-> PrintedAt(p, text, n, i)])

LinesUpTo(p, text, k) == FlattenSeq([n \in 1 .. k |-> OfLine(p, text, n)])

LEMMA ProgramProper ==
    ASSUME lib \in DOMAIN Libraries
    PROVE  Proper(Libraries[lib][1])
<1>. DEFINE instructions == Libraries[lib][1].instructions
<1>1. /\ instructions \in Seq(ToSet(instructions))
      /\ \A instr \in ToSet(instructions) : Instructed(instr, 1)
  BY LineEditAssumption DEF Instructed
<1>2. Len(instructions) \in Nat /\ DOMAIN instructions = 1 .. Len(instructions)
  <2>. HIDE DEF instructions
  <2>. QED  BY <1>1, LenProperties
<1>3. \A i \in DOMAIN instructions : instructions[i] \in ToSet(instructions)
  BY DEF ToSet
<1>. HIDE DEF instructions
<1>4. \A i \in DOMAIN instructions : Instructed(instructions[i], 1)
  BY <1>1, <1>3
<1>. QED  BY <1>2, <1>4 DEF Proper, instructions

\* What instruction k makes of the pattern space.
SpaceStep(p, text, n, k) ==
    SpaceAfter(p, text, n)[k] =
        IF p.instructions[k].action.kind \in ValueKinds /\ Matches(p.instructions[k], n, text[n])
        THEN Edited(p.instructions[k].action, SpaceAfter(p, text, n)[k - 1])
        ELSE SpaceAfter(p, text, n)[k - 1]

\* The pattern space, instruction by instruction.
LEMMA SpaceSteps ==
    ASSUME NEW p, Proper(p), NEW text \in Seq(Line), NEW n \in 1 .. Len(text)
    PROVE  /\ SpaceAfter(p, text, n)[0] = <<text[n]>>
           /\ \A k \in 0 .. Len(p.instructions) : SpaceAfter(p, text, n)[k] \in Seq(Line) \ {<<>>}
           /\ \A k \in 1 .. Len(p.instructions) : SpaceStep(p, text, n, k)
<1>. DEFINE X == Seq(Line) \ {<<>>}
            last == Len(p.instructions)
            Edits(k) == /\ p.instructions[k].action.kind \in ValueKinds
                        /\ Matches(p.instructions[k], n, text[n])
            h == [k \in 1 .. last |-> [x \in X |-> IF Edits(k) THEN Edited(p.instructions[k].action, x) ELSE x]]
            is == CHOOSE f1 : f1 = [k \in 0 .. last |->
                      IF k = 0 THEN <<text[n]>>
                      ELSE IF Edits(k) THEN Edited(p.instructions[k].action, f1[k - 1]) ELSE f1[k - 1]]
<1>1. last \in Nat /\ <<text[n]>> \in X
  BY ElementOfSeq, EmptySeq DEF Proper
<1>2. h \in [1 .. last -> [X -> X]]
  <2>1. ASSUME NEW k \in 1 .. last, NEW x \in X
        PROVE  (IF Edits(k) THEN Edited(p.instructions[k].action, x) ELSE x) \in X
    <3>1. Instructed(p.instructions[k], 1)
      BY DEF Proper
    <3>. QED  BY <3>1, EditedTyped
  <2>. HIDE DEF Edits, X
  <2>. QED  BY <2>1
<1>3. PICK f \in [0 .. last -> X] : f[0] = <<text[n]>> /\ \A k \in 1 .. last : f[k] = h[k][f[k - 1]]
  <2>. DEFINE x0 == <<text[n]>>
  <2>1. x0 \in X
    BY <1>1
  <2>. HIDE DEF h, X, last, x0
  <2>2. Steps(X, x0, last, h) # {}
    BY <1>1, <1>2, <2>1, Recursion
  <2>. QED  BY <2>2 DEF Steps, x0
<1>4. ASSUME NEW k \in 0 .. last
      PROVE  f[k] = IF k = 0 THEN <<text[n]>>
                    ELSE IF Edits(k) THEN Edited(p.instructions[k].action, f[k - 1]) ELSE f[k - 1]
  <2>1. CASE k = 0
    BY <1>3, <2>1, SMTT(30)
  <2>2. CASE k # 0
    <3>1. k \in 1 .. last /\ k - 1 \in 0 .. last
      BY <1>1, <2>2
    <3>2. f[k - 1] \in X /\ f[k] = h[k][f[k - 1]]
      BY <1>3, <3>1
    <3>3. h[k][f[k - 1]] = IF Edits(k) THEN Edited(p.instructions[k].action, f[k - 1]) ELSE f[k - 1]
      <4>. HIDE DEF Edits, X
      <4>. QED  BY <3>1, <3>2
    <3>. QED  BY <2>2, <3>2, <3>3, Zenon
  <2>. QED  BY <2>1, <2>2
<1>5. is = [k \in 0 .. last |->
               IF k = 0 THEN <<text[n]>>
               ELSE IF Edits(k) THEN Edited(p.instructions[k].action, is[k - 1]) ELSE is[k - 1]]
  <2>. HIDE DEF Edits, h, X, last
  <2>1. f = [k \in 0 .. last |->
               IF k = 0 THEN <<text[n]>>
               ELSE IF Edits(k) THEN Edited(p.instructions[k].action, f[k - 1]) ELSE f[k - 1]]
    BY <1>4
  <2>. QED  BY <2>1
<1>6. SpaceAfter(p, text, n) = is
  BY Zenon DEF SpaceAfter
<1>. HIDE DEF is, Edits, h, X, last
<1>7. \A k \in 0 .. last : is[k] = f[k]
  <2>. DEFINE T == {k \in 0 .. last : is[k] = f[k]}
  <2>1. 0 \in T
    BY <1>1, <1>3, <1>5
  <2>2. ASSUME NEW k \in 0 .. last - 1, k \in T PROVE k + 1 \in T
    <3>1. k + 1 \in 0 .. last /\ k + 1 # 0 /\ (k + 1) - 1 = k /\ is[k] = f[k]
      BY <1>1, <2>2
    <3>2. is[k + 1] = IF Edits(k + 1) THEN Edited(p.instructions[k + 1].action, is[k]) ELSE is[k]
      BY <1>5, <3>1
    <3>3. f[k + 1] = IF Edits(k + 1) THEN Edited(p.instructions[k + 1].action, f[k]) ELSE f[k]
      BY <1>4, <3>1
    <3>. QED  BY <3>1, <3>2, <3>3
  <2>. HIDE DEF T
  <2>3. \A k \in 0 .. last : k \in T
    BY <1>1, <2>1, <2>2, UpTo
  <2>. QED  BY <2>3 DEF T
<1>8. \A k \in 1 .. last : k \in 0 .. last /\ k - 1 \in 0 .. last /\ k # 0
  BY <1>1
<1>9. \A k \in 1 .. last : is[k] = IF Edits(k) THEN Edited(p.instructions[k].action, is[k - 1]) ELSE is[k - 1]
  BY <1>4, <1>7, <1>8
<1>10. is[0] = <<text[n]>> /\ \A k \in 0 .. last : is[k] \in X
  <2>1. 0 \in 0 .. last
    BY <1>1
  <2>2. \A k \in 0 .. last : f[k] \in X
    OBVIOUS
  <2>. QED  BY <1>3, <1>7, <2>1, <2>2
<1>. QED  BY <1>6, <1>9, <1>10 DEF last, X, Edits, SpaceStep

\* What is printed on the way, instruction by instruction.
LEMMA PrintedSteps ==
    ASSUME NEW p, Proper(p), NEW text \in Seq(Line), NEW n \in 1 .. Len(text),
           NEW k \in 0 .. Len(p.instructions)
    PROVE  /\ PrintedUpTo(p, text, n, k) \in Seq(Line)
           /\ k = 0 => PrintedUpTo(p, text, n, k) = <<>>
           /\ k > 0 => PrintedUpTo(p, text, n, k) =
                           PrintedUpTo(p, text, n, k - 1) \o PrintedAt(p, text, n, k)
<1>. DEFINE last == Len(p.instructions)
            s == [i \in 1 .. last |-> PrintedAt(p, text, n, i)]
<1>1. last \in Nat
  BY DEF Proper
<1>2. s \in [1 .. last -> Seq(Line)]
  <2>1. ASSUME NEW i \in 1 .. last PROVE PrintedAt(p, text, n, i) \in Seq(Line)
    <3>1. i - 1 \in 0 .. last
      BY <1>1
    <3>2. SpaceAfter(p, text, n)[i - 1] \in Seq(Line)
      BY <3>1, SpaceSteps
    <3>3. <<>> \in Seq(Line)
      OBVIOUS
    <3>. QED  BY <3>2, <3>3 DEF PrintedAt
  <2>. QED  BY <2>1
<1>3. \A m \in 0 .. last : [i \in 1 .. m |-> s[i]] = [i \in 1 .. m |-> PrintedAt(p, text, n, i)]
  BY <1>1
<1>4. k \in 0 .. last /\ (k > 0 => k - 1 \in 0 .. last /\ s[k] = PrintedAt(p, text, n, k))
  BY <1>1
<1>. HIDE DEF s, last
<1>5. /\ Flat(s, k) \in Seq(Line)
      /\ k = 0 => Flat(s, k) = <<>>
      /\ k > 0 => Flat(s, k) = Flat(s, k - 1) \o s[k]
  <2>. DEFINE S == Line
  <2>1. k \in 0 .. last /\ s \in [1 .. last -> Seq(S)]
    BY <1>2, <1>4
  <2>. HIDE DEF S
  <2>2. FlatAt(S, s, k)
    BY <1>1, <2>1, Flattened
  <2>. QED  BY <2>2 DEF S, FlatAt
<1>6. \A m \in 0 .. last : Flat(s, m) = PrintedUpTo(p, text, n, m)
  BY <1>3 DEF Flat, PrintedUpTo
<1>. QED  BY <1>4, <1>5, <1>6

\* The instruction a line ends at, or that there is none.
LEMMA LineEnds ==
    ASSUME NEW p, Proper(p), NEW text, NEW n
    PROVE  /\ LastRun(p, text, n) \in 0 .. Len(p.instructions)
           /\ Ends(p, text, n) # {} => LastRun(p, text, n) \in Ends(p, text, n)
           /\ \A k \in Ends(p, text, n) :
                (\A i \in Ends(p, text, n) : i >= k) =>
                    LastRun(p, text, n) = k /\ EndKind(p, text, n) = p.instructions[k].action.kind
<1>1. Len(p.instructions) \in Nat /\ Ends(p, text, n) \subseteq 1 .. Len(p.instructions)
  BY DEF Proper, Ends
<1>2. ASSUME Ends(p, text, n) # {}
      PROVE  /\ LastRun(p, text, n) = Min(Ends(p, text, n))
             /\ Min(Ends(p, text, n)) \in Ends(p, text, n)
             /\ \A i \in Ends(p, text, n) : Min(Ends(p, text, n)) <= i
  <2>1. Ends(p, text, n) \in SUBSET Nat
    BY <1>1
  <2>2. \E x \in Ends(p, text, n) : \A y \in Ends(p, text, n) : x <= y
    BY <1>2, <2>1, LeastNumber
  <2>. QED  BY <1>2, <2>2 DEF LastRun, Min
<1>3. Ends(p, text, n) = {} => LastRun(p, text, n) = Len(p.instructions)
  BY DEF LastRun
<1>4. ASSUME NEW k \in Ends(p, text, n), \A i \in Ends(p, text, n) : i >= k
      PROVE  LastRun(p, text, n) = k /\ EndKind(p, text, n) = p.instructions[k].action.kind
  <2>1. LastRun(p, text, n) = k
    <3>1. Min(Ends(p, text, n)) >= k /\ Min(Ends(p, text, n)) <= k
      BY <1>2, <1>4
    <3>2. k \in Nat /\ Min(Ends(p, text, n)) \in Nat
      BY <1>1, <1>2
    <3>. QED  BY <1>2, <3>1, <3>2
  <2>. QED  BY <2>1 DEF EndKind
<1>. QED  BY <1>1, <1>2, <1>3, <1>4

\* What an instruction does to the pattern space and to what is printed.
AsInstructed(p, text, n, k) ==
    LET instr   == p.instructions[k]
        matches == Matches(instr, n, text[n])
        before  == SpaceAfter(p, text, n)[k - 1]
        after   == SpaceAfter(p, text, n)[k]
    IN  /\ ~matches => after = before /\ PrintedUpTo(p, text, n, k) = PrintedUpTo(p, text, n, k - 1)
        /\ matches /\ instr.action.kind = "Print" =>
              /\ after = before
              /\ PrintedUpTo(p, text, n, k) = PrintedUpTo(p, text, n, k - 1) \o before
        /\ matches /\ instr.action.kind \in ValueKinds =>
              /\ after = Edited(instr.action, before)
              /\ PrintedUpTo(p, text, n, k) = PrintedUpTo(p, text, n, k - 1)
        /\ k \in Ends(p, text, n) =>
              after = before /\ PrintedUpTo(p, text, n, k) = PrintedUpTo(p, text, n, k - 1)

LEMMA InstructionSteps ==
    ASSUME NEW p, Proper(p), NEW text \in Seq(Line), NEW n \in 1 .. Len(text),
           NEW k \in 1 .. Len(p.instructions)
    PROVE  AsInstructed(p, text, n, k)
<1>. DEFINE instr   == p.instructions[k]
            matches == Matches(instr, n, text[n])
            before  == SpaceAfter(p, text, n)[k - 1]
            after   == SpaceAfter(p, text, n)[k]
            done    == PrintedUpTo(p, text, n, k - 1)
<1>1. Len(p.instructions) \in Nat /\ k \in 0 .. Len(p.instructions) /\ k - 1 \in 0 .. Len(p.instructions) /\ k > 0
  BY DEF Proper
<1>2. after = IF instr.action.kind \in ValueKinds /\ matches THEN Edited(instr.action, before) ELSE before
  <2>1. SpaceStep(p, text, n, k)
    BY SpaceSteps
  <2>. QED  BY <2>1 DEF SpaceStep
<1>3. /\ PrintedUpTo(p, text, n, k) = done \o PrintedAt(p, text, n, k)
      /\ done \in Seq(Line)
  BY <1>1, PrintedSteps
<1>4. PrintedAt(p, text, n, k) = IF instr.action.kind = "Print" /\ matches THEN before ELSE <<>>
  BY DEF PrintedAt
<1>5. done \o <<>> = done
  BY <1>3, ConcatEmptySeq
<1>6. k \in Ends(p, text, n) => instr.action.kind \in {"Delete", "Stop", "StopAndPrint"}
  BY DEF Ends
<1>7. \A kind \in {"Print", "Delete", "Stop", "StopAndPrint"} : kind \notin ValueKinds
  BY DEF ValueKinds
<1>8. "Print" \notin ValueKinds \cup {"Delete", "Stop", "StopAndPrint"}
  BY DEF ValueKinds
<1>. HIDE DEF instr, matches, before, after, done
<1>9. /\ ~matches => after = before /\ PrintedUpTo(p, text, n, k) = done
      /\ matches /\ instr.action.kind = "Print" => after = before /\ PrintedUpTo(p, text, n, k) = done \o before
      /\ matches /\ instr.action.kind \in ValueKinds =>
            after = Edited(instr.action, before) /\ PrintedUpTo(p, text, n, k) = done
      /\ k \in Ends(p, text, n) => after = before /\ PrintedUpTo(p, text, n, k) = done
  BY <1>2, <1>3, <1>4, <1>5, <1>6, <1>7, <1>8
<1>. QED  BY <1>9 DEF instr, matches, before, after, done, AsInstructed

\* What a line comes to, by how it ends.
LEMMA LineIs ==
    ASSUME NEW p, Proper(p), NEW text \in Seq(Line), NEW n \in 1 .. Len(text)
    PROVE  /\ OfLine(p, text, n) \in Seq(Line)
           /\ Ends(p, text, n) = {} =>
                LET k == Len(p.instructions) IN
                OfLine(p, text, n) = IF p.print_default
                                     THEN PrintedUpTo(p, text, n, k) \o SpaceAfter(p, text, n)[k]
                                     ELSE PrintedUpTo(p, text, n, k)
           /\ \A k \in Ends(p, text, n) : (\A i \in Ends(p, text, n) : i >= k) =>
                OfLine(p, text, n) =
                    IF p.instructions[k].action.kind = "StopAndPrint"
                    THEN PrintedUpTo(p, text, n, k - 1)
                           \o (SpaceAfter(p, text, n)[k - 1] \o SubSeq(text, n + 1, Len(text)))
                    ELSE PrintedUpTo(p, text, n, k - 1)
<1>. DEFINE last  == LastRun(p, text, n)
            end   == EndKind(p, text, n)
            space == SpaceAfter(p, text, n)[last]
            done  == PrintedUpTo(p, text, n, last)
            rest  == SubSeq(text, n + 1, Len(text))
            more  == CASE end = "None" /\ p.print_default -> space
                       [] end = "StopAndPrint" -> space \o rest
                       [] OTHER -> <<>>
<1>1. OfLine(p, text, n) = done \o more
  BY DEF OfLine, PrintedUpTo
<1>2. last \in 0 .. Len(p.instructions)
  BY LineEnds
<1>3. done \in Seq(Line) /\ space \in Seq(Line) /\ <<>> \in Seq(Line)
  <2>. HIDE DEF last
  <2>. QED  BY <1>2, SpaceSteps, PrintedSteps
<1>4. n \in 0 .. Len(text) /\ rest \in Seq(Line)
  <2>1. n \in 0 .. Len(text)
    BY LenProperties
  <2>. QED  BY <2>1, RestItems
<1>5. space \o rest \in Seq(Line)
  <2>. HIDE DEF space, rest
  <2>. QED  BY <1>3, <1>4, ConcatProperties
<1>6. more \in Seq(Line)
  <2>. HIDE DEF space, rest, end
  <2>. QED  BY <1>3, <1>4, <1>5
<1>7. OfLine(p, text, n) \in Seq(Line)
  <2>. HIDE DEF done, more
  <2>. QED  BY <1>1, <1>3, <1>6, ConcatProperties
<1>8. done \o <<>> = done
  BY <1>3, ConcatEmptySeq
<1>9. ASSUME Ends(p, text, n) = {}
      PROVE  /\ last = Len(p.instructions)
             /\ OfLine(p, text, n) = IF p.print_default THEN done \o space ELSE done
  <2>1. last = Len(p.instructions) /\ end = "None"
    BY <1>9 DEF LastRun, EndKind
  <2>2. more = IF p.print_default THEN space ELSE <<>>
    <3>. HIDE DEF space, rest, end
    <3>. QED  BY <2>1
  <2>. HIDE DEF done, more, space, end, last
  <2>. QED  BY <1>1, <1>8, <2>1, <2>2
<1>10. ASSUME NEW k \in Ends(p, text, n), \A i \in Ends(p, text, n) : i >= k
       PROVE  OfLine(p, text, n) =
                  IF p.instructions[k].action.kind = "StopAndPrint"
                  THEN PrintedUpTo(p, text, n, k - 1) \o (SpaceAfter(p, text, n)[k - 1] \o rest)
                  ELSE PrintedUpTo(p, text, n, k - 1)
  <2>1. last = k /\ end = p.instructions[k].action.kind
    BY <1>10, LineEnds
  <2>2. k \in 1 .. Len(p.instructions) /\ p.instructions[k].action.kind \in {"Delete", "Stop", "StopAndPrint"}
    BY DEF Ends, Proper
  <2>3. SpaceAfter(p, text, n)[k] = SpaceAfter(p, text, n)[k - 1]
        /\ PrintedUpTo(p, text, n, k) = PrintedUpTo(p, text, n, k - 1)
    BY <2>2, InstructionSteps DEF AsInstructed
  <2>4. space = SpaceAfter(p, text, n)[k - 1] /\ done = PrintedUpTo(p, text, n, k - 1)
    BY <2>1, <2>3
  <2>5. end # "None" /\ (end = "StopAndPrint" <=> p.instructions[k].action.kind = "StopAndPrint")
    BY <2>1, <2>2
  <2>6. more = IF p.instructions[k].action.kind = "StopAndPrint" THEN space \o rest ELSE <<>>
    <3>. HIDE DEF space, rest, end
    <3>. QED  BY <2>5
  <2>. HIDE DEF done, more, space, end, last, rest
  <2>. QED  BY <1>1, <1>8, <2>4, <2>6
<1>. QED  BY <1>7, <1>9, <1>10

\* The lines, one after the other.
LEMMA LinesSteps ==
    ASSUME NEW p, Proper(p), NEW text \in Seq(Line), NEW k \in 0 .. Len(text)
    PROVE  /\ LinesUpTo(p, text, k) \in Seq(Line)
           /\ k = 0 => LinesUpTo(p, text, k) = <<>>
           /\ k > 0 => LinesUpTo(p, text, k) = LinesUpTo(p, text, k - 1) \o OfLine(p, text, k)
<1>. DEFINE last == Len(text)
            s == [n \in 1 .. last |-> OfLine(p, text, n)]
            S == Line
<1>1. last \in Nat
  BY LenProperties
<1>2. s \in [1 .. last -> Seq(S)]
  BY LineIs
<1>3. \A m \in 0 .. last : [n \in 1 .. m |-> s[n]] = [n \in 1 .. m |-> OfLine(p, text, n)]
  BY <1>1
<1>4. k \in 0 .. last /\ (k > 0 => k - 1 \in 0 .. last /\ s[k] = OfLine(p, text, k))
  BY <1>1
<1>. HIDE DEF s, last, S
<1>5. k \in 0 .. last
  BY <1>4
<1>6. FlatAt(S, s, k)
  BY <1>1, <1>2, <1>5, Flattened
<1>7. \A m \in 0 .. last : Flat(s, m) = LinesUpTo(p, text, m)
  BY <1>3 DEF Flat, LinesUpTo
<1>. QED  BY <1>4, <1>6, <1>7 DEF FlatAt, S

\* The text, up to the line that stops the program.
LEMMA TextStops ==
    ASSUME NEW p, NEW text \in Seq(Line)
    PROVE  /\ StopsAt(p, text) = {} => OfText(p, text) = LinesUpTo(p, text, Len(text))
           /\ \A n \in StopsAt(p, text) :
                (\A m \in StopsAt(p, text) : m >= n) => OfText(p, text) = LinesUpTo(p, text, n)
<1>1. Len(text) \in Nat /\ StopsAt(p, text) \subseteq 1 .. Len(text)
  BY LenProperties DEF StopsAt
<1>2. StopsAt(p, text) = {} => OfText(p, text) = LinesUpTo(p, text, Len(text))
  BY DEF OfText, LinesUpTo
<1>3. ASSUME NEW n \in StopsAt(p, text), \A m \in StopsAt(p, text) : m >= n
      PROVE  OfText(p, text) = LinesUpTo(p, text, n)
  <2>1. Min(StopsAt(p, text)) = n
    <3>1. \A m \in StopsAt(p, text) : n <= m
      BY <1>1, <1>3
    <3>2. \A x \in StopsAt(p, text) : (\A y \in StopsAt(p, text) : x <= y) => x = n
      <4>1. ASSUME NEW x \in StopsAt(p, text), \A y \in StopsAt(p, text) : x <= y PROVE x = n
        <5>1. x <= n /\ n <= x /\ x \in Nat /\ n \in Nat
          BY <1>1, <3>1, <4>1
        <5>. QED  BY <5>1
      <4>. QED  BY <4>1
    <3>. QED  BY <3>1, <3>2 DEF Min
  <2>. QED  BY <2>1 DEF OfText, LinesUpTo
<1>. QED  BY <1>2, <1>3

-----------------------------------------------------------------------------
(* The editor does as the reference says *)

\* The instruction after one of a program, or its end.
LEMMA NextWithin ==
    ASSUME NEW l \in Nat, NEW k \in 1 .. l PROVE k + 1 \in 1 .. l + 1 /\ (k + 1) - 1 = k
OBVIOUS

\* Concatenation of lines is associative.
LEMMA LinesAssociative ==
    \A a, b, c \in Seq(Line) : (a \o b) \o c = a \o (b \o c)
<1>. DEFINE S == Line
<1>1. \A a, b, c \in Seq(S) : (a \o b) \o c = a \o (b \o c)
  <2>. HIDE DEF S
  <2>. QED  BY ConcatAssociative
<1>. QED  BY <1>1

\* At an instruction of program p, on line n: what the reference says was printed, and
\* what is in the pattern space.
AtInstruction(p, text, n, fr, space, out) ==
    /\ Len(fr) = 1 /\ fr[1].program = 1
    /\ n > 0 /\ fr[1].line = text[n]
    /\ fr[1].pc \in 1 .. Len(p.instructions) + 1
    /\ \A i \in Ends(p, text, n) : i >= fr[1].pc
    /\ space = SpaceAfter(p, text, n)[fr[1].pc - 1]
    /\ out = LinesUpTo(p, text, n - 1) \o PrintedUpTo(p, text, n, fr[1].pc - 1)

RefInv ==
    IsSimple(Libraries[lib][1]) =>
        /\ mode = "lines" /\ frames = <<>> =>
              /\ pattern_space = EmptySpace
              /\ output = LinesUpTo(Libraries[lib][1], input, line_number)
              /\ \A n \in StopsAt(Libraries[lib][1], input) : n > line_number
        /\ mode = "lines" /\ frames # <<>> =>
              /\ AtInstruction(Libraries[lib][1], input, line_number, frames, pattern_space, output)
              /\ \A n \in StopsAt(Libraries[lib][1], input) : n >= line_number
        /\ mode = "eof" =>
              /\ Len(frames) = 1 /\ frames[1].program = 1
              /\ pattern_space = EmptySpace
        /\ mode \in {"eof", "done"} => output = OfText(Libraries[lib][1], input)

\* The frame of a program that calls no other.
LEMMA OneFrame ==
    ASSUME EditInv, Len(frames) = 1, NEW line \in Line
    PROVE  /\ frames # <<>> /\ Top = frames[1]
           /\ Len(Advance(line)) = 1 /\ Advance(line) # <<>>
           /\ Advance(line)[1] = [program |-> Top.program, pc |-> Top.pc + 1, line |-> line]
<1>1. frames # <<>> /\ Top = frames[1]
  BY EmptySeq DEF Top
<1>2. frames \in Seq(Frame)
  BY DEF EditInv, EditTypeOK, Frame
<1>. DEFINE new == [program |-> Top.program, pc |-> Top.pc + 1, line |-> line]
<1>3. new \in Frame
  BY <1>1, TopTyped DEF Frame
<1>4. Advance(line) = [frames EXCEPT ![1] = new]
  BY DEF Advance
<1>5. Advance(line) # <<>>
  BY <1>1, AdvanceTyped
<1>. HIDE DEF new
<1>6. Len(Advance(line)) = 1 /\ Advance(line)[1] = new
  <2>1. DOMAIN frames = 1 .. 1
    BY <1>2, LenProperties
  <2>2. Advance(line)[1] = new
    BY <1>4, <2>1
  <2>. QED  BY <1>2, <1>3, <1>4, <2>2, ExceptSeq
<1>. QED  BY <1>1, <1>5, <1>6 DEF new

LEMMA RefNextStep == EditInv /\ RefInv /\ EditNext => RefInv'
<1>. DEFINE p == Libraries[lib][1]
<1>. SUFFICES ASSUME EditInv, RefInv, EditNext, IsSimple(Libraries[lib][1])'
              PROVE  /\ (mode = "lines" /\ frames = <<>> =>
                            /\ pattern_space = EmptySpace
                            /\ output = LinesUpTo(Libraries[lib][1], input, line_number)
                            /\ \A n \in StopsAt(Libraries[lib][1], input) : n > line_number)'
                     /\ (mode = "lines" /\ frames # <<>> =>
                            /\ AtInstruction(Libraries[lib][1], input, line_number, frames, pattern_space, output)
                            /\ \A n \in StopsAt(Libraries[lib][1], input) : n >= line_number)'
                     /\ (mode = "eof" =>
                            /\ Len(frames) = 1 /\ frames[1].program = 1
                            /\ pattern_space = EmptySpace)'
                     /\ (mode \in {"eof", "done"} => output = OfText(Libraries[lib][1], input))'
  BY DEF RefInv
<1>1. lib' = lib /\ input' = input
  BY DEF EditNext, LoadLine, SkipInstruction, ExecPrint, ExecEdit, ExecDelete, ExecNextLine, ExecStop,
         ExecStopAndPrint, ExecSubprogram, ReturnToCaller, EndOfLine, EndOfInput, EofSkip, EofEdit,
         EofDelete, EofStop, EofStopAndPrint, EofPanic, EofEnd
<1>2. IsSimple(p)
  BY <1>1
<1>3. mode \in {"lines", "eof"}
  BY DEF EditNext, LoadLine, SkipInstruction, ExecPrint, ExecEdit, ExecDelete, ExecNextLine, ExecStop,
         ExecStopAndPrint, ExecSubprogram, ReturnToCaller, EndOfLine, EndOfInput, EofSkip, EofEdit,
         EofDelete, EofStop, EofStopAndPrint, EofPanic, EofEnd, Running, EofRunning
<1>4. Proper(p)
  BY <1>3, ProgramProper DEF EditInv
<1>5. /\ pattern_space \in Seq(Line) \ {<<>>} /\ output \in Seq(Line)
      /\ line_number \in 0 .. Len(input) /\ line_number \in Nat /\ Len(input) \in Nat
      /\ input \in Seq(Line)
  BY InputTyped DEF EditInv, EditTypeOK
<1>6. ASSUME mode = "lines", frames # <<>>
      PROVE  /\ AtInstruction(p, input, line_number, frames, pattern_space, output)
             /\ \A n \in StopsAt(p, input) : n >= line_number
             /\ line_number \in 1 .. Len(input)
             /\ Top = frames[1] /\ Program = p /\ Len(frames) = 1
             /\ Top.program = 1 /\ Top.line = input[line_number] /\ Top.line \in Line
             /\ Top.pc \in 1 .. Len(p.instructions) + 1
  <2>1. /\ AtInstruction(p, input, line_number, frames, pattern_space, output)
        /\ \A n \in StopsAt(p, input) : n >= line_number
    BY <1>2, <1>6 DEF RefInv
  <2>2. Len(frames) = 1 /\ Top = frames[1] /\ frames[1].program = 1 /\ frames[1].line = input[line_number]
        /\ line_number > 0 /\ frames[1].pc \in 1 .. Len(p.instructions) + 1
    BY <2>1 DEF AtInstruction, Top
  <2>3. Program = p
    BY <2>2 DEF Program
  <2>4. Top.line \in Line
    BY <1>6, TopTyped
  <2>. QED  BY <1>5, <2>1, <2>2, <2>3, <2>4
<1>7. ASSUME mode = "eof"
      PROVE  /\ Len(frames) = 1 /\ frames # <<>> /\ Top = frames[1] /\ Program = p
             /\ frames[1].program = 1
             /\ pattern_space = EmptySpace /\ output = OfText(p, input)
             /\ Top.pc <= Len(p.instructions) => ~AtEof(Instruction)
  <2>1. /\ Len(frames) = 1 /\ frames[1].program = 1
        /\ pattern_space = EmptySpace /\ output = OfText(p, input)
    BY <1>2, <1>7 DEF RefInv
  <2>2. frames # <<>> /\ Top = frames[1] /\ Program = p
    <3>1. Len(<<>>) = 0
      OBVIOUS
    <3>2. frames # <<>>
      <4>1. Len(frames) = 1
        BY <2>1
      <4>. QED  BY <3>1, <4>1
    <3>3. Top = frames[1]
      BY <2>1 DEF Top
    <3>4. Program = p
      BY <2>1, <3>3 DEF Program
    <3>. QED  BY <3>2, <3>3, <3>4
  <2>3. Top.pc <= Len(p.instructions) => Top.pc \in DOMAIN p.instructions
    BY <1>7, <2>2, InstructionTyped
  <2>. QED  BY <1>2, <2>1, <2>2, <2>3 DEF IsSimple, AtEof, Instruction
\* Before the end of line n, one instruction further on.
<1>8. ASSUME mode = "lines", frames # <<>>, Top.pc <= Len(p.instructions), Top.pc \notin Ends(p, input, line_number),
             mode' = "lines", line_number' = line_number, frames' = Advance(Top.line),
             pattern_space' = SpaceAfter(p, input, line_number)[Top.pc],
             \E more \in Seq(Line) :
                 /\ output' = output \o more
                 /\ PrintedUpTo(p, input, line_number, Top.pc) =
                        PrintedUpTo(p, input, line_number, Top.pc - 1) \o more
      PROVE  /\ frames' # <<>>
             /\ AtInstruction(p, input, line_number, frames, pattern_space, output)'
             /\ \A n \in StopsAt(p, input)' : n >= line_number'
  <2>1. PICK more \in Seq(Line) :
                 /\ output' = output \o more
                 /\ PrintedUpTo(p, input, line_number, Top.pc) =
                        PrintedUpTo(p, input, line_number, Top.pc - 1) \o more
    BY <1>8
  <2>. DEFINE n == line_number
              k == Top.pc
              lines == LinesUpTo(p, input, n - 1)
              done == PrintedUpTo(p, input, n, k - 1)
  <2>2. /\ n \in 1 .. Len(input) /\ k \in 1 .. Len(p.instructions) /\ Len(p.instructions) \in Nat
        /\ \A i \in Ends(p, input, n) : i >= k
        /\ output = lines \o done
        /\ Top = frames[1] /\ Top.program = 1 /\ Top.line = input[n] /\ Top.line \in Line
        /\ Len(frames) = 1
    <3>1. /\ AtInstruction(p, input, n, frames, pattern_space, output)
          /\ Top = frames[1] /\ Top.program = 1 /\ Top.line = input[n] /\ Top.line \in Line
          /\ Len(frames) = 1 /\ n \in 1 .. Len(input) /\ k \in 1 .. Len(p.instructions) + 1
      BY <1>6, <1>8
    <3>2. output = lines \o done /\ \A i \in Ends(p, input, n) : i >= k
      BY <3>1, Zenon DEF AtInstruction
    <3>3. Len(p.instructions) \in Nat /\ k <= Len(p.instructions)
      BY <1>4, <1>8 DEF Proper
    <3>4. k \in 1 .. Len(p.instructions)
      <4>. DEFINE l == Len(p.instructions)
      <4>1. l \in Nat /\ k <= l /\ k \in 1 .. l + 1
        BY <3>1, <3>3
      <4>. HIDE DEF k, l
      <4>2. k \in 1 .. l
        BY <4>1
      <4>. QED  BY <4>2 DEF l
    <3>. QED  BY <3>1, <3>2, <3>3, <3>4
  <2>3. lines \in Seq(Line) /\ done \in Seq(Line)
    <3>. HIDE DEF n, k, p
    <3>0. Len(input) \in Nat
      BY <1>5, LenProperties
    <3>1. n - 1 \in 0 .. Len(input) /\ k - 1 \in 0 .. Len(p.instructions)
      BY <2>2, <3>0
    <3>. QED  BY <1>4, <1>5, <2>2, <3>1, LinesSteps, PrintedSteps
  <2>4. output' = lines \o (done \o more)
    <3>1. output = lines \o done /\ output' = output \o more
      BY <2>1, <2>2
    <3>. HIDE DEF lines, done
    <3>2. (lines \o done) \o more = lines \o (done \o more)
      BY <2>3, LinesAssociative
    <3>. QED  BY <3>1, <3>2
  <2>5. /\ frames' # <<>> /\ Len(frames') = 1
        /\ frames'[1] = [program |-> 1, pc |-> k + 1, line |-> input[n]]
    BY <1>8, <2>2, OneFrame
  <2>6. k + 1 \in 1 .. Len(p.instructions) + 1 /\ (k + 1) - 1 = k
    BY <2>2, NextWithin
  <2>7. \A i \in Ends(p, input, n) : i >= k + 1
    <3>1. \A i \in Ends(p, input, n) : i \in 1 .. Len(p.instructions)
      BY <1>4 DEF Ends, Proper
    <3>. QED  BY <1>8, <2>2, <3>1
  <2>8. output' = lines \o PrintedUpTo(p, input, n, k)
    BY <2>1, <2>4
  <2>9. frames'[1].program = 1 /\ frames'[1].pc = k + 1 /\ frames'[1].line = input[n]
    BY <2>5
  <2>10. /\ n > 0 /\ Len(frames') = 1
         /\ pattern_space' = SpaceAfter(p, input, n)[k]
    BY <1>8, <2>2, <2>5
  <2>11. AtInstruction(p, input, n, frames', pattern_space', output')
    <3>. HIDE DEF n, k, p, lines, done
    <3>1. frames'[1].pc - 1 = k /\ frames'[1].pc \in 1 .. Len(p.instructions) + 1
      BY <2>6, <2>9
    <3>. QED  BY <2>7, <2>8, <2>9, <2>10, <3>1 DEF AtInstruction, lines
  <2>. QED  BY <1>1, <1>6, <1>8, <2>5, <2>11
\* At the end of line n.
<1>9. ASSUME mode = "lines", frames # <<>>, NEW out, OfLine(p, input, line_number) = out
      PROVE  /\ LinesUpTo(p, input, line_number - 1) \in Seq(Line)
             /\ PrintedUpTo(p, input, line_number, Top.pc - 1) \in Seq(Line)
             /\ output = LinesUpTo(p, input, line_number - 1) \o PrintedUpTo(p, input, line_number, Top.pc - 1)
             /\ LinesUpTo(p, input, line_number) = LinesUpTo(p, input, line_number - 1) \o out
  <2>. DEFINE n == line_number
              k == Top.pc
  <2>1. /\ n \in 1 .. Len(input) /\ k - 1 \in 0 .. Len(p.instructions)
        /\ output = LinesUpTo(p, input, n - 1) \o PrintedUpTo(p, input, n, k - 1)
    <3>1. /\ AtInstruction(p, input, n, frames, pattern_space, output)
          /\ Top = frames[1] /\ k \in 1 .. Len(p.instructions) + 1 /\ n \in 1 .. Len(input)
      BY <1>6, <1>9
    <3>2. Len(p.instructions) \in Nat
      BY <1>4 DEF Proper
    <3>3. output = LinesUpTo(p, input, n - 1) \o PrintedUpTo(p, input, n, k - 1)
      BY <3>1 DEF AtInstruction
    <3>. HIDE DEF n, k, p
    <3>. QED  BY <3>1, <3>2, <3>3
  <2>2. n - 1 \in 0 .. Len(input) /\ n \in 0 .. Len(input) /\ n > 0
    BY <1>5, <2>1
  <2>3. LinesUpTo(p, input, n - 1) \in Seq(Line) /\ PrintedUpTo(p, input, n, k - 1) \in Seq(Line)
    <3>. HIDE DEF n, k, p
    <3>. QED  BY <1>4, <1>5, <2>1, <2>2, LinesSteps, PrintedSteps
  <2>4. LinesUpTo(p, input, n) = LinesUpTo(p, input, n - 1) \o OfLine(p, input, n)
    <3>. HIDE DEF n, k, p
    <3>. QED  BY <1>4, <1>5, <2>2, LinesSteps
  <2>. QED  BY <1>9, <2>1, <2>3, <2>4
\* An instruction that ends the line.
<1>10. ASSUME Running({"Delete", "Stop", "StopAndPrint"})
       PROVE  /\ Top.pc \in Ends(p, input, line_number)
              /\ \A i \in Ends(p, input, line_number) : i >= Top.pc
              /\ EndKind(p, input, line_number) = Instruction.action.kind
              /\ Instruction = p.instructions[Top.pc]
              /\ pattern_space = SpaceAfter(p, input, line_number)[Top.pc - 1]
              /\ Instruction.action.kind # "StopAndPrint" =>
                    output = LinesUpTo(p, input, line_number)
              /\ Instruction.action.kind = "StopAndPrint" =>
                    Rest(output, pattern_space, line_number) = LinesUpTo(p, input, line_number)
  <2>1. /\ mode = "lines" /\ frames # <<>> /\ Top.pc <= Len(Program.instructions)
        /\ Matches(Instruction, line_number, Top.line)
        /\ Instruction.action.kind \in {"Delete", "Stop", "StopAndPrint"}
    BY <1>10 DEF Running
  <2>. DEFINE n == line_number
              k == Top.pc
              lines == LinesUpTo(p, input, n - 1)
              done == PrintedUpTo(p, input, n, k - 1)
              rest == SubSeq(input, n + 1, Len(input))
  <2>2. /\ Program = p /\ n \in 1 .. Len(input) /\ k \in 1 .. Len(p.instructions)
        /\ pattern_space = SpaceAfter(p, input, n)[k - 1]
        /\ \A i \in Ends(p, input, n) : i >= k
        /\ Top.line = input[n]
    BY <1>4, <1>6, <2>1 DEF AtInstruction, Proper
  <2>3. Instruction = p.instructions[k]
    BY <2>2, SMTT(30) DEF Instruction
  <2>4. k \in Ends(p, input, n)
    BY <1>4, <2>1, <2>2, <2>3 DEF Ends, Proper
  <2>5. EndKind(p, input, n) = Instruction.action.kind
    <3>. HIDE DEF n, k, p
    <3>. QED  BY <1>4, <2>2, <2>3, <2>4, LineEnds
  <2>6. OfLine(p, input, n) = IF Instruction.action.kind = "StopAndPrint"
                              THEN done \o (pattern_space \o rest) ELSE done
    <3>. HIDE DEF n, k, p, rest, done
    <3>1. OfLine(p, input, n) =
             IF p.instructions[k].action.kind = "StopAndPrint"
             THEN PrintedUpTo(p, input, n, k - 1)
                    \o (SpaceAfter(p, input, n)[k - 1] \o SubSeq(input, n + 1, Len(input)))
             ELSE PrintedUpTo(p, input, n, k - 1)
      <4>1. input \in Seq(Line) /\ n \in 1 .. Len(input) /\ \A i \in Ends(p, input, n) : i >= k
        BY <1>5, <2>2
      <4>. QED  BY <1>4, <2>4, <4>1, LineIs
    <3>2. pattern_space = SpaceAfter(p, input, n)[k - 1]
      BY <2>2
    <3>. QED  BY <2>3, <3>1, <3>2 DEF rest, done
  <2>7. /\ lines \in Seq(Line) /\ done \in Seq(Line) /\ output = lines \o done
        /\ LinesUpTo(p, input, n) = lines \o OfLine(p, input, n)
    BY <1>9, <2>1
  <2>8. rest \in Seq(Line)
    BY <1>5, RestItems
  <2>. HIDE DEF lines, done, rest, n, k, p
  <2>9. Instruction.action.kind # "StopAndPrint" => output = LinesUpTo(p, input, n)
    BY <2>6, <2>7
  <2>10. ASSUME Instruction.action.kind = "StopAndPrint"
         PROVE  Rest(output, pattern_space, line_number) = LinesUpTo(p, input, n)
    <3>0. lines \in Seq(Line) /\ done \in Seq(Line)
      BY <2>7
    <3>1. Rest(output, pattern_space, line_number) = ((lines \o done) \o pattern_space) \o rest
      BY <2>7 DEF Rest, Printed, rest, n
    <3>2. pattern_space \in Seq(Line) /\ done \o pattern_space \in Seq(Line) /\ pattern_space \o rest \in Seq(Line)
      BY <1>5, <2>7, <2>8, ConcatProperties
    <3>3. (lines \o done) \o pattern_space = lines \o (done \o pattern_space)
      <4>1. pattern_space \in Seq(Line)
        BY <3>2
      <4>. QED  BY <3>0, <4>1, LinesAssociative
    <3>4. (lines \o (done \o pattern_space)) \o rest = lines \o ((done \o pattern_space) \o rest)
      <4>. DEFINE both == done \o pattern_space
      <4>1. lines \in Seq(Line) /\ both \in Seq(Line)
        BY <3>0, <3>2
      <4>. HIDE DEF both
      <4>2. (lines \o both) \o rest = lines \o (both \o rest)
        BY <2>8, <4>1, LinesAssociative
      <4>. QED  BY <4>2 DEF both
    <3>5. (done \o pattern_space) \o rest = done \o (pattern_space \o rest)
      <4>1. done \in Seq(Line) /\ pattern_space \in Seq(Line)
        BY <3>0, <3>2
      <4>. QED  BY <2>8, <4>1, LinesAssociative
    <3>. QED  BY <2>6, <2>7, <2>10, <3>1, <3>3, <3>4, <3>5
  <2>. QED  BY <2>2, <2>3, <2>4, <2>5, <2>9, <2>10 DEF n, k
\* An instruction that stops the program.
<1>11. ASSUME Running({"Stop", "StopAndPrint"})
       PROVE  LinesUpTo(p, input, line_number) = OfText(p, input)
  <2>1. Running({"Delete", "Stop", "StopAndPrint"}) /\ Instruction.action.kind \in {"Stop", "StopAndPrint"}
        /\ mode = "lines" /\ frames # <<>>
    BY <1>11 DEF Running
  <2>2. EndKind(p, input, line_number) \in {"Stop", "StopAndPrint"} /\ line_number \in DOMAIN input
    BY <1>5, <1>6, <1>10, <2>1, LenProperties
  <2>3. line_number \in StopsAt(p, input) /\ \A m \in StopsAt(p, input) : m >= line_number
    BY <1>6, <2>1, <2>2 DEF StopsAt
  <2>. HIDE DEF p
  <2>. QED  BY <1>5, <2>3, TextStops
<1>12. StopsAt(p, input)' = StopsAt(p, input)
  BY <1>1, SMTT(30)
<1>13. ASSUME mode = "lines", frames # <<>>, Top.pc <= Len(p.instructions)
       PROVE  /\ Top.pc \in 1 .. Len(p.instructions)
              /\ Instruction = p.instructions[Top.pc]
              /\ Instruction.action.kind \notin {"NextLine", "Subprogram"}
              /\ line_number \in 1 .. Len(input)
              /\ Top.line = input[line_number] /\ Top.line \in Line
              /\ pattern_space = SpaceAfter(p, input, line_number)[Top.pc - 1]
              /\ Top.pc \in Ends(p, input, line_number) =>
                    /\ Instruction.action.kind \in {"Delete", "Stop", "StopAndPrint"}
                    /\ Matches(Instruction, line_number, Top.line)
              /\ ~Matches(Instruction, line_number, Top.line) =>
                    /\ SpaceAfter(p, input, line_number)[Top.pc] = pattern_space
                    /\ PrintedUpTo(p, input, line_number, Top.pc) =
                           PrintedUpTo(p, input, line_number, Top.pc - 1)
              /\ Matches(Instruction, line_number, Top.line) /\ Instruction.action.kind = "Print" =>
                    /\ SpaceAfter(p, input, line_number)[Top.pc] = pattern_space
                    /\ PrintedUpTo(p, input, line_number, Top.pc) =
                           PrintedUpTo(p, input, line_number, Top.pc - 1) \o pattern_space
              /\ Matches(Instruction, line_number, Top.line) /\ Instruction.action.kind \in ValueKinds =>
                    /\ SpaceAfter(p, input, line_number)[Top.pc] = Edited(Instruction.action, pattern_space)
                    /\ PrintedUpTo(p, input, line_number, Top.pc) =
                           PrintedUpTo(p, input, line_number, Top.pc - 1)
  <2>1. /\ Top.pc \in 1 .. Len(p.instructions) /\ Program = p
        /\ Top.line = input[line_number]
        /\ pattern_space = SpaceAfter(p, input, line_number)[Top.pc - 1]
    BY <1>4, <1>6, <1>13 DEF AtInstruction, Proper
  <2>2. Instruction = p.instructions[Top.pc]
    BY <2>1 DEF Instruction
  <2>3. Top.pc \in DOMAIN p.instructions
    BY <1>4, <2>1 DEF Proper
  <2>4. Instruction.action.kind \notin {"NextLine", "Subprogram"}
    BY <1>2, <2>2, <2>3 DEF IsSimple
  <2>5. Top.pc \in Ends(p, input, line_number) =>
                    /\ Instruction.action.kind \in {"Delete", "Stop", "StopAndPrint"}
                    /\ Matches(Instruction, line_number, Top.line)
    BY <2>1, <2>2 DEF Ends
  <2>6. /\ ~Matches(Instruction, line_number, Top.line) =>
              /\ SpaceAfter(p, input, line_number)[Top.pc] = pattern_space
              /\ PrintedUpTo(p, input, line_number, Top.pc) =
                     PrintedUpTo(p, input, line_number, Top.pc - 1)
        /\ Matches(Instruction, line_number, Top.line) /\ Instruction.action.kind = "Print" =>
              /\ SpaceAfter(p, input, line_number)[Top.pc] = pattern_space
              /\ PrintedUpTo(p, input, line_number, Top.pc) =
                     PrintedUpTo(p, input, line_number, Top.pc - 1) \o pattern_space
        /\ Matches(Instruction, line_number, Top.line) /\ Instruction.action.kind \in ValueKinds =>
              /\ SpaceAfter(p, input, line_number)[Top.pc] = Edited(Instruction.action, pattern_space)
              /\ PrintedUpTo(p, input, line_number, Top.pc) =
                     PrintedUpTo(p, input, line_number, Top.pc - 1)
    <3>. DEFINE n == line_number
                k == Top.pc
    <3>1. /\ n \in 1 .. Len(input) /\ k \in 1 .. Len(p.instructions)
          /\ Instruction = p.instructions[k] /\ Top.line = input[n]
          /\ pattern_space = SpaceAfter(p, input, n)[k - 1]
      BY <1>6, <1>13, <2>1, <2>2
    <3>. HIDE DEF n, k, p
    <3>2. AsInstructed(p, input, n, k)
      BY <1>4, <1>5, <3>1, InstructionSteps
    <3>. QED  BY <3>1, <3>2 DEF AsInstructed, n, k
  <2>. QED  BY <1>6, <1>13, <2>1, <2>2, <2>4, <2>5, <2>6, Zenon
<1>14. output \o <<>> = output /\ <<>> \in Seq(Line)
  BY <1>5, ConcatEmptySeq
\* The end of the text.
<1>15. ASSUME mode' = "eof", frames' = <<[program |-> 1, pc |-> 1, line |-> Blank]>>,
              pattern_space' = EmptySpace, output' = OfText(p, input)
       PROVE  /\ (Len(frames) = 1 /\ frames[1].program = 1 /\ pattern_space = EmptySpace)'
              /\ (output = OfText(Libraries[lib][1], input))'
  BY <1>1, <1>15
<1>20. CASE LoadLine
  <2>1. /\ pattern_space = EmptySpace /\ output = LinesUpTo(p, input, line_number)
        /\ \A n \in StopsAt(p, input) : n > line_number
        /\ line_number' = line_number + 1 /\ line_number' \in 1 .. Len(input)
        /\ mode' = "lines" /\ output' = output
        /\ frames' = <<[program |-> 1, pc |-> 1, line |-> input[line_number']]>>
    BY <1>1, <1>2, <1>5, <1>20 DEF LoadLine, RefInv
  <2>2. input[line_number'] \in Line
    BY <2>1, InputTyped
  <2>3. pattern_space' = [EmptySpace EXCEPT ![1] = @ \o input[line_number']]
    BY <1>20, <2>1, BlankTyped DEF LoadLine, PushStr
  <2>4. pattern_space' = <<Blank \o input[line_number']>>
    BY <2>3 DEF EmptySpace
  <2>5. pattern_space' = <<input[line_number']>>
    BY <2>2, <2>4, ConcatEmptySeq DEF Line, Blank
  <2>. DEFINE n == line_number'
  <2>6. n - 1 = line_number /\ n > 0 /\ n \in 1 .. Len(input)
    BY <1>5, <2>1
  <2>7. Len(p.instructions) \in Nat /\ 0 \in 0 .. Len(p.instructions)
    BY <1>4 DEF Proper
  <2>8. SpaceAfter(p, input, n)[0] = <<input[n]>> /\ PrintedUpTo(p, input, n, 0) = <<>>
    <3>. HIDE DEF n, p
    <3>. QED  BY <1>4, <1>5, <2>6, <2>7, SpaceSteps, PrintedSteps
  <2>9. output' = LinesUpTo(p, input, n - 1) \o PrintedUpTo(p, input, n, 0)
    BY <1>14, <2>1, <2>6, <2>8
  <2>10. \A i \in Ends(p, input, n) : i >= 1
    BY <1>4 DEF Ends, Proper
  <2>11. Len(frames') = 1 /\ frames'[1] = [program |-> 1, pc |-> 1, line |-> input[n]]
    BY <2>1
  <2>12. AtInstruction(p, input, n, frames', pattern_space', output')
    <3>. DEFINE new == frames'[1]
    <3>1. new.program = 1 /\ new.pc = 1 /\ new.line = input[n] /\ new.pc - 1 = 0
      BY <2>11
    <3>2. new.pc \in 1 .. Len(p.instructions) + 1
      BY <2>7, <3>1
    <3>. HIDE DEF new
    <3>. QED  BY <2>5, <2>6, <2>8, <2>9, <2>10, <2>11, <3>1, <3>2 DEF AtInstruction, new
  <2>13. \A m \in StopsAt(p, input) : m >= n
    <3>1. \A m \in StopsAt(p, input) : m \in Nat
      BY <1>5, LenProperties DEF StopsAt
    <3>. QED  BY <1>5, <2>1, <3>1
  <2>14. frames' # <<>>
    BY <2>11, EmptySeq
  <2>. QED  BY <1>1, <2>1, <2>12, <2>13, <2>14
<1>21. CASE SkipInstruction
  <2>1. /\ mode = "lines" /\ frames # <<>> /\ Top.pc <= Len(p.instructions)
        /\ ~Matches(Instruction, line_number, Top.line)
        /\ frames' = Advance(Top.line) /\ mode' = "lines" /\ line_number' = line_number
        /\ pattern_space' = pattern_space /\ output' = output
    BY <1>6, <1>21 DEF SkipInstruction
  <2>2. Top.pc \notin Ends(p, input, line_number)
    BY <1>13, <2>1
  <2>3. /\ pattern_space' = SpaceAfter(p, input, line_number)[Top.pc]
        /\ PrintedUpTo(p, input, line_number, Top.pc) = PrintedUpTo(p, input, line_number, Top.pc - 1)
    BY <1>13, <2>1
  <2>4. PrintedUpTo(p, input, line_number, Top.pc - 1) \o <<>> = PrintedUpTo(p, input, line_number, Top.pc - 1)
    <3>. DEFINE printed == PrintedUpTo(p, input, line_number, Top.pc - 1)
    <3>1. printed \in Seq(Line)
      BY <1>9, <2>1
    <3>. HIDE DEF printed
    <3>2. printed \o <<>> = printed
      BY <3>1, ConcatEmptySeq
    <3>. QED  BY <3>2 DEF printed
  <2>. QED  BY <1>8, <1>14, <2>1, <2>2, <2>3, <2>4
<1>22. CASE ExecPrint
  <2>1. /\ mode = "lines" /\ frames # <<>> /\ Top.pc <= Len(p.instructions)
        /\ Matches(Instruction, line_number, Top.line) /\ Instruction.action.kind = "Print"
        /\ frames' = Advance(Top.line) /\ mode' = "lines" /\ line_number' = line_number
        /\ pattern_space' = pattern_space /\ output' = output \o pattern_space
    BY <1>6, <1>22 DEF ExecPrint, Running, Printed
  <2>2. Top.pc \notin Ends(p, input, line_number)
    BY <1>13, <2>1
  <2>3. /\ pattern_space' = SpaceAfter(p, input, line_number)[Top.pc]
        /\ PrintedUpTo(p, input, line_number, Top.pc) =
               PrintedUpTo(p, input, line_number, Top.pc - 1) \o pattern_space
    BY <1>13, <2>1
  <2>. QED  BY <1>5, <1>8, <2>1, <2>2, <2>3
<1>23. CASE ExecEdit
  <2>1. /\ mode = "lines" /\ frames # <<>> /\ Top.pc <= Len(p.instructions)
        /\ Matches(Instruction, line_number, Top.line) /\ Instruction.action.kind \in ValueKinds
        /\ frames' = Advance(Top.line) /\ mode' = "lines" /\ line_number' = line_number
        /\ pattern_space' = Edited(Instruction.action, pattern_space) /\ output' = output
    BY <1>6, <1>23 DEF ExecEdit, Running
  <2>2. Top.pc \notin Ends(p, input, line_number)
    BY <1>13, <2>1 DEF ValueKinds
  <2>3. /\ pattern_space' = SpaceAfter(p, input, line_number)[Top.pc]
        /\ PrintedUpTo(p, input, line_number, Top.pc) = PrintedUpTo(p, input, line_number, Top.pc - 1)
    BY <1>13, <2>1
  <2>4. PrintedUpTo(p, input, line_number, Top.pc - 1) \o <<>> = PrintedUpTo(p, input, line_number, Top.pc - 1)
    BY <1>9, <2>1, ConcatEmptySeq
  <2>. QED  BY <1>8, <1>14, <2>1, <2>2, <2>3, <2>4
<1>24. CASE ExecDelete
  <2>1. /\ Running({"Delete", "Stop", "StopAndPrint"}) /\ Instruction.action.kind = "Delete"
        /\ mode = "lines" /\ frames # <<>> /\ mode' = "lines" /\ frames' = <<>>
        /\ pattern_space' = EmptySpace /\ line_number' = line_number /\ output' = output
    BY <1>24 DEF ExecDelete, Running, DeletedSpace
  <2>2. output = LinesUpTo(p, input, line_number) /\ EndKind(p, input, line_number) = "Delete"
    BY <1>10, <2>1
  <2>3. line_number \notin StopsAt(p, input)
    BY <2>2 DEF StopsAt
  <2>4. \A n \in StopsAt(p, input) : n > line_number
    <3>1. \A n \in StopsAt(p, input) : n \in Nat
      BY <1>5, LenProperties DEF StopsAt
    <3>. QED  BY <1>5, <1>6, <2>1, <2>3, <3>1
  <2>. QED  BY <1>1, <2>1, <2>2, <2>4
<1>25. CASE ExecNextLine
  BY <1>6, <1>13, <1>25 DEF ExecNextLine, Running
<1>26. CASE ExecStop
  <2>1. /\ Running({"Delete", "Stop", "StopAndPrint"}) /\ Running({"Stop", "StopAndPrint"})
        /\ Instruction.action.kind = "Stop"
    BY <1>26 DEF ExecStop, Running
  <2>2. output' = OfText(p, input)
    BY <1>10, <1>11, <1>26, <2>1 DEF ExecStop
  <2>3. /\ mode' = "eof" /\ frames' = <<[program |-> 1, pc |-> 1, line |-> Blank]>>
        /\ pattern_space' = EmptySpace
    BY <1>26 DEF ExecStop
  <2>. QED  BY <1>15, <2>2, <2>3
<1>27. CASE ExecStopAndPrint
  <2>1. /\ Running({"Delete", "Stop", "StopAndPrint"}) /\ Running({"Stop", "StopAndPrint"})
        /\ Instruction.action.kind = "StopAndPrint"
    BY <1>27 DEF ExecStopAndPrint, Running
  <2>2. output' = OfText(p, input)
    BY <1>10, <1>11, <1>27, <2>1 DEF ExecStopAndPrint
  <2>3. /\ mode' = "eof" /\ frames' = <<[program |-> 1, pc |-> 1, line |-> Blank]>>
        /\ pattern_space' = EmptySpace
    BY <1>27 DEF ExecStopAndPrint
  <2>. QED  BY <1>15, <2>2, <2>3
<1>28. CASE ExecSubprogram
  BY <1>6, <1>13, <1>28 DEF ExecSubprogram, Running
<1>29. CASE ReturnToCaller
  <2>1. mode = "lines" /\ Len(frames) > 1
    BY <1>29 DEF ReturnToCaller
  <2>2. frames # <<>>
    <3>1. Len(<<>>) = 0
      OBVIOUS
    <3>. QED  BY <2>1, <3>1
  <2>3. Len(frames) = 1
    BY <1>6, <2>1, <2>2
  <2>. QED  BY <2>1, <2>3
<1>30. CASE EndOfLine
  <2>1. /\ mode = "lines" /\ Len(frames) = 1 /\ mode' = "lines" /\ frames' = <<>>
        /\ pattern_space' = EmptySpace /\ line_number' = line_number
    BY <1>30 DEF EndOfLine
  <2>2. frames # <<>>
    <3>1. Len(<<>>) = 0
      OBVIOUS
    <3>. QED  BY <2>1, <3>1
  <2>. DEFINE n == line_number
              last == Len(p.instructions)
              done == PrintedUpTo(p, input, n, last)
              lines == LinesUpTo(p, input, n - 1)
  <2>3. /\ Program = p /\ last \in Nat /\ Top.pc = last + 1 /\ Top.pc - 1 = last
        /\ n \in 1 .. Len(input)
        /\ pattern_space = SpaceAfter(p, input, n)[last]
        /\ output' = IF p.print_default THEN output \o pattern_space ELSE output
    <3>1. Program = p /\ last \in Nat /\ Top.pc \in 1 .. last + 1 /\ n \in 1 .. Len(input) /\ Top = frames[1]
          /\ pattern_space = SpaceAfter(p, input, n)[Top.pc - 1]
      BY <1>4, <1>6, <2>1, <2>2 DEF AtInstruction, Proper
    <3>2. Top.pc > last
      BY <1>30, <3>1 DEF EndOfLine
    <3>. DEFINE k == Top.pc
    <3>3. k = last + 1 /\ k - 1 = last
      <4>1. last \in Nat /\ k \in 1 .. last + 1 /\ k > last
        BY <3>1, <3>2
      <4>. HIDE DEF k, last
      <4>. QED  BY <4>1
    <3>4. output' = IF p.print_default THEN output \o pattern_space ELSE output
      BY <1>30, <3>1 DEF EndOfLine, Printed
    <3>. HIDE DEF last
    <3>. QED  BY <3>1, <3>3, <3>4
  <2>4. Ends(p, input, n) = {}
    <3>1. \A i \in Ends(p, input, n) : i >= last + 1 /\ i \in 1 .. last
      <4>1. /\ AtInstruction(p, input, n, frames, pattern_space, output)
            /\ Top = frames[1] /\ Top.pc = last + 1
        BY <1>6, <2>1, <2>2, <2>3
      <4>2. \A i \in Ends(p, input, n) : i >= last + 1
        BY <4>1 DEF AtInstruction
      <4>3. \A i \in Ends(p, input, n) : i \in 1 .. last
        BY <1>4 DEF Ends, Proper
      <4>. QED  BY <4>2, <4>3
    <3>. DEFINE ends == Ends(p, input, n)
    <3>2. last \in Nat /\ \A i \in ends : i >= last + 1 /\ i \in 1 .. last
      BY <2>3, <3>1
    <3>. HIDE DEF ends, last
    <3>3. ends = {}
      BY <3>2
    <3>. QED  BY <3>3 DEF ends
  <2>5. OfLine(p, input, n) = IF p.print_default THEN done \o pattern_space ELSE done
    <3>. HIDE DEF n, p
    <3>. QED  BY <1>4, <1>5, <2>3, <2>4, LineIs
  <2>6. /\ lines \in Seq(Line) /\ done \in Seq(Line) /\ output = lines \o done
        /\ LinesUpTo(p, input, n) = lines \o OfLine(p, input, n)
    BY <1>9, <2>1, <2>2, <2>3
  <2>7. output' = LinesUpTo(p, input, n)
    <3>. HIDE DEF n, p, last, done, lines
    <3>0. lines \in Seq(Line) /\ done \in Seq(Line) /\ pattern_space \in Seq(Line)
      BY <1>5, <2>6
    <3>1. (lines \o done) \o pattern_space = lines \o (done \o pattern_space)
      BY <3>0, LinesAssociative
    <3>. QED  BY <2>3, <2>5, <2>6, <3>1
  <2>8. EndKind(p, input, n) = "None"
    BY <2>4 DEF EndKind
  <2>9. \A m \in StopsAt(p, input) : m > n
    <3>1. \A m \in StopsAt(p, input) : m \in Nat
      BY <1>5, LenProperties DEF StopsAt
    <3>2. n \notin StopsAt(p, input)
      BY <2>8 DEF StopsAt
    <3>. QED  BY <1>5, <1>6, <2>1, <2>2, <3>1, <3>2
  <2>. QED  BY <1>1, <2>1, <2>7, <2>9
<1>31. CASE EndOfInput
  <2>1. /\ output = LinesUpTo(p, input, line_number) /\ line_number = Len(input)
        /\ \A n \in StopsAt(p, input) : n > line_number
        /\ mode' = "eof" /\ pattern_space' = EmptySpace
        /\ frames' = <<[program |-> 1, pc |-> 1, line |-> Blank]>> /\ output' = output
    BY <1>2, <1>31 DEF EndOfInput, RefInv
  <2>2. StopsAt(p, input) = {}
    <3>1. \A n \in StopsAt(p, input) : n \in 1 .. Len(input)
      BY <1>5, LenProperties DEF StopsAt
    <3>. QED  BY <1>5, <2>1, <3>1
  <2>3. output' = OfText(p, input)
    BY <1>5, <2>1, <2>2, TextStops
  <2>. QED  BY <1>15, <2>1, <2>3
<1>32. CASE EofSkip
  <2>1. /\ mode = "eof" /\ mode' = "eof" /\ frames' = Advance(Blank)
        /\ pattern_space' = pattern_space /\ output' = output
    BY <1>32 DEF EofSkip
  <2>2. Len(frames') = 1 /\ frames'[1] = [program |-> Top.program, pc |-> Top.pc + 1, line |-> Blank]
    BY <1>7, <2>1, OneFrame, BlankTyped
  <2>3. frames'[1].program = 1
    BY <1>7, <2>1, <2>2
  <2>. QED  BY <1>1, <1>7, <2>1, <2>2, <2>3
<1>33. CASE EofEdit \/ EofDelete \/ EofStop \/ EofStopAndPrint \/ EofPanic
  BY <1>7, <1>33 DEF EofEdit, EofDelete, EofStop, EofStopAndPrint, EofPanic, EofRunning
<1>34. CASE EofEnd
  <2>1. mode = "eof" /\ Finish(output, EmptySpace) /\ mode' = "done"
    BY <1>7, <1>34 DEF EofEnd, Finish
  <2>2. output' = output
    BY <1>5, <2>1, CopyFinish
  <2>. QED  BY <1>1, <1>7, <2>1, <2>2
<1>. QED
  BY <1>20, <1>21, <1>22, <1>23, <1>24, <1>25, <1>26, <1>27, <1>28, <1>29, <1>30, <1>31, <1>32,
     <1>33, <1>34 DEF EditNext

-----------------------------------------------------------------------------
(* The theorems *)

LEMMA NothingCopied == Kept(<<>>, Len(<<>>), <<>>) /\ Copy(<<>>, Len(<<>>), <<>>)
<1>1. Len(<<>>) = 0
  BY EmptySeq
<1>. QED  BY <1>1, KeptNothing DEF Copy

LEMMA NothingRead == \A p : OfText(p, <<>>) = <<>>
<1>. SUFFICES ASSUME NEW p PROVE OfText(p, <<>>) = <<>>
  OBVIOUS
<1>. DEFINE line == [n \in 1 .. 0 |-> OfLine(p, <<>>, n)]
<1>1. StopsAt(p, <<>>) = {} /\ Len(<<>>) = 0 /\ line = <<>>
  BY DEF StopsAt
<1>2. OfText(p, <<>>) = FlattenSeq(line)
  <2>. HIDE DEF line
  <2>. QED  BY <1>1 DEF OfText, line
<1>3. FlattenSeq(<<>>) = <<>>
  BY <1>1 DEF FlattenSeq
<1>. QED  BY <1>1, <1>2, <1>3

LEMMA ScriptEdits ==
    /\ ScriptInit => EditInv /\ KeptInv /\ CopyInv /\ RefInv
    /\ EditInv /\ KeptInv /\ CopyInv /\ RefInv /\ [ScriptNext]_scriptVars => EditInv' /\ KeptInv' /\ CopyInv' /\ RefInv'
<1>1. ASSUME ScriptInit PROVE EditInv /\ KeptInv /\ CopyInv /\ RefInv
  <2>1. CASE EditInit
    <3>1. input \in Seq(Line) /\ Len(input) \in Nat
      BY <2>1, LineEditAssumption, LenProperties DEF EditInit
    <3>2. EditInv
      BY <2>1, <3>1, BlankTyped, EmptySeq DEF EditInit, EditInv, EditTypeOK
    <3>3. Kept(input, line_number, output) /\ Copy(input, line_number, output)
      BY <2>1, <3>1, KeptNothing DEF EditInit, Copy
    <3>4. RefInv
      <4>1. lib \in DOMAIN Libraries /\ mode = "lines" /\ frames = <<>> /\ line_number = 0
            /\ pattern_space = EmptySpace /\ output = <<>> /\ 0 \in 0 .. Len(input)
        BY <2>1, <3>1 DEF EditInit
      <4>. DEFINE p == Libraries[lib][1]
      <4>2. Proper(p)
        BY <4>1, ProgramProper
      <4>. HIDE DEF p
      <4>3. LinesUpTo(p, input, 0) = <<>>
        BY <3>1, <4>1, <4>2, LinesSteps
      <4>4. \A n \in StopsAt(p, input) : n > 0
        BY <3>1, LenProperties DEF StopsAt
      <4>. QED  BY <4>1, <4>3, <4>4 DEF RefInv, p
    <3>. QED  BY <2>1, <3>2, <3>3, <3>4 DEF EditInit, KeptInv, CopyInv
  <2>2. CASE /\ input = <<>> /\ line_number = 0 /\ pattern_space = EmptySpace
             /\ output = <<>> /\ mode = "done" /\ frames = <<>>
    <3>1. EditInv
      BY <2>2, BlankTyped, EmptySeq DEF EditInv, EditTypeOK
    <3>. QED  BY <2>2, <3>1, NothingCopied, NothingRead DEF KeptInv, CopyInv, RefInv
  <2>. QED  BY <1>1, <2>1, <2>2 DEF ScriptInit
<1>2. ASSUME EditInv, KeptInv, CopyInv, RefInv, [ScriptNext]_scriptVars PROVE EditInv' /\ KeptInv' /\ CopyInv' /\ RefInv'
  <2>1. CASE Patch
    BY <1>2, <2>1, EditNextTyped, KeptNextStep, CopyNextStep, RefNextStep DEF Patch
  <2>2. CASE NextStatement
    <3>1. /\ input' = <<>> /\ line_number' = 0 /\ pattern_space' = EmptySpace
          /\ output' = <<>> /\ mode' = "done" /\ frames' = frames
      BY <2>2 DEF NextStatement
    <3>2. EditInv'
      BY <1>2, <3>1, BlankTyped, EmptySeq DEF EditInv, EditTypeOK
    <3>. QED  BY <3>1, <3>2, NothingCopied, NothingRead DEF KeptInv, CopyInv, RefInv
  <2>3. CASE UNCHANGED editVars
    <3>1. EditInv' /\ KeptInv' /\ CopyInv'
      BY <1>2, <2>3, SMTT(20) DEF editVars, EditInv, EditTypeOK, KeptInv, CopyInv, Only, KindsOf
    <3>2. RefInv'
      BY <1>2, <2>3 DEF editVars, RefInv
    <3>. QED  BY <3>1, <3>2
  <2>. QED  BY <1>2, <2>1, <2>2, <2>3 DEF ScriptNext, BuildUsers, MakeCalls, scriptVars
<1>. QED  BY <1>1, <1>2

\* The variables of the line editor keep their types: a program is never at an
\* instruction of no program, and the pattern space is a text (line_edit.rs,
\* EditProgram::apply and execute_program).
THEOREM EditTyped == ScriptSpec => []EditTypeOK
<1>1. EditInv => EditTypeOK
  BY DEF EditInv
<1>. QED  BY <1>1, ScriptEdits, PTL DEF ScriptSpec

\* LinesKept, for programs and texts of any length: what only inserts, prints, fetches
\* lines and stops with the rest printed loses none, and what only moves copies the text
\* (line_edit.rs, advance_line and print_rest_of_input).
THEOREM NoLineLost == ScriptSpec => []LinesKept
<1>1. EditInv /\ KeptInv /\ CopyInv => LinesKept
  <2>. SUFFICES ASSUME EditInv, KeptInv, CopyInv, mode = "done",
                       \A id \in ProgramId : Libraries[lib][id].print_default
                PROVE  /\ KindsOf(ProgramId) \subseteq Keeping => Subsequence(input, output)
                       /\ KindsOf(ProgramId) \subseteq Moving =>
                            /\ IsPrefix(input, output)
                            /\ \A i \in (Len(input) + 1) .. Len(output) : output[i] = Blank
    BY DEF LinesKept, Keeping, Moving
  <2>1. /\ input \in Seq(Line) /\ output \in Seq(Line)
        /\ Len(input) \in Nat /\ Len(output) \in Nat /\ DOMAIN input = 1 .. Len(input)
    BY InputTyped, LenProperties DEF EditInv, EditTypeOK
  <2>2. ASSUME KindsOf(ProgramId) \subseteq Keeping PROVE Subsequence(input, output)
    <3>1. Kept(input, Len(input), output)
      BY <2>2 DEF KeptInv, Only
    <3>. QED  BY <2>1, <3>1, Zenon DEF Kept, Subsequence
  <2>3. ASSUME KindsOf(ProgramId) \subseteq Moving
        PROVE  /\ IsPrefix(input, output)
               /\ \A i \in (Len(input) + 1) .. Len(output) : output[i] = Blank
    <3>1. Copy(input, Len(input), output)
      BY <2>3 DEF CopyInv, Only
    <3>2. /\ Len(output) >= Len(input) /\ \A i \in 1 .. Len(input) : output[i] = input[i]
          /\ \A i \in Len(input) + 1 .. Len(output) : output[i] = Blank
      BY <3>1 DEF Copy
    <3>3. SubSeq(output, 1, Len(input)) = SubSeq(input, 1, Len(input))
      <4>. DEFINE n == Len(input)
      <4>1. n \in Int /\ 1 \in Int /\ (\A i \in 1 .. n : input[i] \in Line /\ output[i] \in Line)
        BY <2>1, <3>2, InputTyped
      <4>. HIDE DEF n
      <4>2. /\ SubSeq(output, 1, n) \in Seq(Line) /\ SubSeq(input, 1, n) \in Seq(Line)
            /\ Len(SubSeq(output, 1, n)) = IF 1 <= n THEN n - 1 + 1 ELSE 0
            /\ Len(SubSeq(input, 1, n)) = IF 1 <= n THEN n - 1 + 1 ELSE 0
            /\ \A i \in 1 .. n - 1 + 1 : SubSeq(output, 1, n)[i] = output[1 + i - 1]
            /\ \A i \in 1 .. n - 1 + 1 : SubSeq(input, 1, n)[i] = input[1 + i - 1]
        BY <4>1, SubSeqProperties
      <4>3. n - 1 + 1 = n /\ \A i \in 1 .. n : 1 + i - 1 = i
        BY <4>1
      <4>4. \A i \in 1 .. n : SubSeq(output, 1, n)[i] = SubSeq(input, 1, n)[i]
        BY <3>2, <4>2, <4>3 DEF n
      <4>5. Len(SubSeq(output, 1, n)) = Len(SubSeq(input, 1, n)) /\ 1 .. Len(SubSeq(output, 1, n)) \subseteq 1 .. n
        BY <4>1, <4>2
      <4>. QED  BY <4>2, <4>4, <4>5, SeqEqual DEF n
    <3>. QED  BY <2>1, <3>2, <3>3 DEF IsPrefix
  <2>. QED  BY <2>2, <2>3
<1>. QED  BY <1>1, ScriptEdits, PTL DEF ScriptSpec

\* AgreesWithReference, for programs of any instructions and texts of any length: a
\* program that neither fetches lines nor calls another makes of the text, line by line,
\* what its documentation says (line_edit.rs, EditProgram::apply): no line depends on how
\* the lines before it were left.
THEOREM DoesAsDocumented == ScriptSpec => []AgreesWithReference
<1>1. RefInv => AgreesWithReference
  BY DEF RefInv, AgreesWithReference
<1>. QED  BY <1>1, ScriptEdits, PTL DEF ScriptSpec
=============================================================================
