------------------------------- MODULE Passwd -------------------------------
(***************************************************************************)
(* Users and groups as a script builds them (konfigkoll_script,            *)
(* plugins/passwd.rs and plugins/passwd/sysusers.rs): from its own calls   *)
(* and from the sysusers.d files of packages, aligned with the ids the     *)
(* host already gave out, and written to passwd, group, shadow and gshadow.*)
(*                                                                         *)
(* A script stops at the first error, as the documented example does.      *)
(* GECOS, home and shell are data that nothing here depends on, and so are *)
(* the dates of shadow.  Ids are u32: MaxId stands for its last value.     *)
(***************************************************************************)
EXTENDS FsTypes, Integers, SequencesExt

CONSTANTS
    UserName, GroupName,    \* the names that are told apart
    GroupRank,              \* the order of group names, as BTreeMap iterates
    MaxId,                  \* the largest user or group id
    Password,               \* what a password field holds
    NewUsers, NewGroups,    \* what the script adds, see User and Group
    Memberships,            \* pairs of a user and a group, for add_user_to_groups
    UserUpdates, GroupUpdates,  \* what update functions do, see IsUpdate
    SysusersFiles,          \* sequences of sysusers.d lines, see SysusersLine
    Mappings,               \* the arguments of new: [users, groups], sequences of pairs
    Hosts,                  \* the files of the system, see HostFiles
    MaxCalls                \* bound on the calls a script makes between new and apply

Id == 0 .. MaxId

NoPasswd == "!*"

User == [name : UserName, uid : Id, group : GroupName, passwd : Password]

Group == [name : GroupName, gid : Id, members : SUBSET UserName, admins : SUBSET UserName]

NewUser(name, uid, group) == [name |-> name, uid |-> uid, group |-> group, passwd |-> NoPasswd]

NewGroup(name, gid) == [name |-> name, gid |-> gid, members |-> {}, admins |-> {}]

\* An update: whose, and what the function of the script makes of it; None: it fails, or
\* returns something else.
IsUpdate(f, names, accounts) == f.name \in names /\ f.func \in [accounts -> accounts \cup {None}]

\* The ids of a line, as they are written: numbers of any size, names or paths.
UserId ==
    [form : {"-", "path"}] \cup [form : {"uid"}, uid : Nat]
    \cup [form : {"uid:gid"}, uid : Nat, gid : Nat, group : GroupName]
    \cup [form : {"uid:group"}, uid : Nat, group : GroupName]

GroupId == [form : {"-", "path"}] \cup [form : {"gid"}, gid : Nat]

SysusersLine ==
    [type : {"u"}, name : UserName, id : UserId] \cup [type : {"g"}, name : GroupName, id : GroupId]
    \cup [type : {"m"}, user : UserName, group : GroupName] \cup [type : {"#", "r", "bad"}]

\* The files of the system; an id that is no number is None.
HostFiles ==
    [passwd : Seq([name : UserName, id : Id \cup {None}]),
     group  : Seq([name : GroupName, id : Id \cup {None}]),
     shadow : Seq([name : UserName, passwd : Password])]

\* What apply writes.
FileSet ==
    [passwd  : SUBSET [name : UserName, uid : Id, gid : Nat],
     group   : SUBSET [name : GroupName, gid : Id, members : SUBSET UserName],
     shadow  : SUBSET [name : UserName, passwd : Password],
     gshadow : SUBSET [name : GroupName, admins : SUBSET UserName, members : SUBSET UserName]]

ASSUME PasswdAssumption ==
    /\ MaxId \in Nat /\ NoPasswd \in Password
    /\ UserName \subseteq GroupName /\ IsFiniteSet(GroupName)
    /\ None \notin User \cup Group \cup Id \cup FileSet
    /\ NewUsers \subseteq User
    /\ NewGroups \subseteq Group
    /\ GroupRank \in [GroupName -> Nat]
    /\ \A g, h \in GroupName : GroupRank[g] = GroupRank[h] => g = h
    /\ Memberships \subseteq UserName \X GroupName
    /\ \A i \in DOMAIN UserUpdates : IsUpdate(UserUpdates[i], UserName, User)
    /\ \A i \in DOMAIN GroupUpdates : IsUpdate(GroupUpdates[i], GroupName, Group)
    /\ SysusersFiles \subseteq Seq(SysusersLine)
    /\ Mappings \subseteq [users : Seq(UserName \X Id), groups : Seq(GroupName \X Id)]
    /\ Hosts \subseteq HostFiles
    /\ MaxCalls \in Nat

VARIABLES
    users, groups,          \* Passwd::users and groups, None where there is none
    user_ids, group_ids,    \* the preferred ids
    host,                   \* what the system's files say
    status,                 \* "new", "building", "failed", "panicked" or "written"
    calls,
    written,                \* the files, once they are written
    \* history
    declared,               \* the users that a sysusers.d file or add_user_with_group brought
    joined,                 \* members that were added since the script last set their group
    aligned                 \* the names whose ids were aligned, until the script sets them

passwdVars == << users, groups, user_ids, group_ids, host, status, calls, written,
                 declared, joined, aligned >>

Users(us)  == {n \in UserName : us[n] # None}
Groups(gs) == {n \in GroupName : gs[n] # None}

-----------------------------------------------------------------------------
(* sysusers.d: a line is [type, name, id] or [type, user, group] *)

\* A mutant: ids of any size are taken.
NeverTooLarge(n) == FALSE

\* dec_uint is a u32: a larger number is no number.
TooLarge(n) == n > MaxId

\* user_id_parser: the alternatives in their order.  After a colon, what is no number
\* is the name of a group; what is no number at all is a path.
ParsedUserId(id) ==
    CASE id.form = "-" -> [form |-> "None"]
      [] id.form = "uid:gid" /\ ~TooLarge(id.uid) /\ ~TooLarge(id.gid) ->
             [form |-> "UidGid", uid |-> id.uid, gid |-> id.gid]
      [] id.form \in {"uid:gid", "uid:group"} /\ ~TooLarge(id.uid) ->
             [form |-> "UidGroup", uid |-> id.uid, group |-> id.group]
      [] id.form = "uid" /\ ~TooLarge(id.uid) -> [form |-> "Uid", uid |-> id.uid]
      [] OTHER -> [form |-> "FromPath"]

ParsedGroupId(id) ==
    CASE id.form = "-" -> [form |-> "None"]
      [] id.form = "gid" /\ ~TooLarge(id.gid) -> [form |-> "Gid", gid |-> id.gid]
      [] OTHER -> [form |-> "FromPath"]

\* parse_file: comments and blank lines are nothing, any other line of no known
\* form is an error for the whole file.
ParseFails(file) == \E i \in DOMAIN file : file[i].type \notin {"#", "u", "g", "m", "r"}

-----------------------------------------------------------------------------
(* add_from_sysusers: every directive, on a state [users, groups, ok, ...] *)

\* A mutant: insert instead of entry().or_insert().
InsertAnyway(map, key, value) == [map EXCEPT ![key] = value]

\* The entry of a map, unless it is there.
OrInsert(map, key, value) == IF map[key] = None THEN [map EXCEPT ![key] = value] ELSE map

\* groups.values().find(gid)
WithGid(gs, gid) == {n \in Groups(gs) : gs[n].gid = gid}

FirstWithGid(gs, gid) ==
    gs[CHOOSE n \in WithGid(gs, gid) : \A o \in WithGid(gs, gid) : GroupRank[n] <= GroupRank[o]].name

\* uid and gid of a user's line, and the name of its group; None if that is an error.
Resolved(st, line) ==
    LET id == ParsedUserId(line.id) IN
    CASE id.form = "Uid"      -> [uid |-> id.uid, gid |-> id.uid, group |-> line.name]
      [] id.form = "UidGroup" -> [uid |-> id.uid, gid |-> id.uid, group |-> id.group]
      [] id.form = "UidGid" /\ WithGid(st.groups, id.gid) # {} ->
             [uid |-> id.uid, gid |-> id.gid, group |-> FirstWithGid(st.groups, id.gid)]
      [] id.form = "None" /\ user_ids[line.name] # None ->
             [uid |-> user_ids[line.name], gid |-> user_ids[line.name], group |-> line.name]
      [] OTHER -> None

\* A mutant: the group that is made is always named after the user.
UserLineOwnGroup(st, line) ==
    LET r == Resolved(st, line) IN
    IF r = None THEN [st EXCEPT !.ok = FALSE]
    ELSE [st EXCEPT !.groups   = OrInsert(@, line.name, NewGroup(line.name, r.gid)),
                    !.users    = OrInsert(@, line.name, NewUser(line.name, r.uid, r.group)),
                    !.declared = @ \cup ({line.name} \ Users(st.users))]

\* A mutant: a user that is there gets the id of the file.
UserLineTakingId(st, line) ==
    LET r == Resolved(st, line) IN
    IF r = None THEN [st EXCEPT !.ok = FALSE]
    ELSE [st EXCEPT !.groups   = OrInsert(@, r.group, NewGroup(r.group, r.gid)),
                    !.users    = [OrInsert(@, line.name, NewUser(line.name, r.uid, r.group))
                                    EXCEPT ![line.name].uid = r.uid],
                    !.declared = @ \cup ({line.name} \ Users(st.users))]

UserLine(st, line) ==
    LET r == Resolved(st, line) IN
    IF r = None THEN [st EXCEPT !.ok = FALSE]
    ELSE [st EXCEPT !.groups   = OrInsert(@, r.group, NewGroup(r.group, r.gid)),
                    !.users    = OrInsert(@, line.name, NewUser(line.name, r.uid, r.group)),
                    !.declared = @ \cup ({line.name} \ Users(st.users))]

GroupLine(st, line) ==
    LET id  == ParsedGroupId(line.id)
        gid == IF id.form = "Gid" THEN id.gid
               ELSE IF id.form = "None" THEN group_ids[line.name] ELSE None
    IN  IF gid = None THEN [st EXCEPT !.ok = FALSE]
        ELSE [st EXCEPT !.groups = OrInsert(@, line.name, NewGroup(line.name, gid))]

\* A group that is not there is only logged.
Join(st, user, group) ==
    IF st.groups[group] = None THEN st
    ELSE [st EXCEPT !.groups[group].members = @ \cup {user},
                    !.joined = @ \cup {<<user, group>>}]

Directive(st, line) ==
    IF ~st.ok THEN st
    ELSE CASE line.type = "u" -> UserLine(st, line)
           [] line.type = "g" -> GroupLine(st, line)
           [] line.type = "m" -> Join(st, line.user, line.group)
           [] OTHER           -> st

State == [users |-> users, groups |-> groups, declared |-> declared, joined |-> joined, ok |-> TRUE]

FromSysusers(st, file) ==
    IF ParseFails(file) THEN [st EXCEPT !.ok = FALSE] ELSE FoldLeft(Directive, st, file)

-----------------------------------------------------------------------------
(* The system's files: lines [name, id] or [name, passwd]; id None is no number *)

\* A mutant: groups are not looked at.
SaneUsers(us, gs) == \A m, n \in Users(us) : us[m].uid = us[n].uid => m = n

\* sanity_check
Sane(us, gs) ==
    /\ \A m, n \in Users(us) : us[m].uid = us[n].uid => m = n
    /\ \A m, n \in Groups(gs) : gs[m].gid = gs[n].gid => m = n

Lines(file, name) == {i \in DOMAIN file : file[i].name = name}

\* Every line of a name sets its id, so that the last one stays.
SystemId(file, name) == file[Max(Lines(file, name))].id

AlignUsers(us, file) ==
    [n \in UserName |-> IF us[n] # None /\ Lines(file, n) # {}
                        THEN [us[n] EXCEPT !.uid = SystemId(file, n)] ELSE us[n]]

AlignGroups(gs, file) ==
    [n \in GroupName |-> IF gs[n] # None /\ Lines(file, n) # {}
                         THEN [gs[n] EXCEPT !.gid = SystemId(file, n)] ELSE gs[n]]

Unreadable(file) == \E i \in DOMAIN file : file[i].id = None

SystemPasswords(us, names, file) ==
    [n \in UserName |-> IF us[n] # None /\ n \in names /\ Lines(file, n) # {}
                        THEN [us[n] EXCEPT !.passwd = file[Max(Lines(file, n))].passwd] ELSE us[n]]

\* The lines of the four files; their order follows the ids and then the names.
FormatPasswd(us, gs) ==
    {[name |-> us[n].name, uid |-> us[n].uid,
      gid  |-> IF gs[us[n].group] = None THEN 0 ELSE gs[us[n].group].gid] : n \in Users(us)}

FormatShadow(us) == {[name |-> us[n].name, passwd |-> us[n].passwd] : n \in Users(us)}

FormatGroup(gs) == {[name |-> gs[n].name, gid |-> gs[n].gid, members |-> gs[n].members] : n \in Groups(gs)}

FormatGshadow(gs) ==
    {[name |-> gs[n].name, admins |-> gs[n].admins, members |-> gs[n].members] : n \in Groups(gs)}

\* The content of each file; the backups, with a dash, are the same.
Files(us, gs) ==
    [passwd |-> FormatPasswd(us, gs), group |-> FormatGroup(gs),
     shadow |-> FormatShadow(us), gshadow |-> FormatGshadow(gs)]
-----------------------------------------------------------------------------
(* The calls of a script *)

PasswdInit ==
    /\ users = [n \in UserName |-> None]
    /\ groups = [n \in GroupName |-> None]
    /\ user_ids = [n \in UserName |-> None]
    /\ group_ids = [n \in GroupName |-> None]
    /\ host \in Hosts
    /\ status = "new"
    /\ calls = 0
    /\ written = None
    /\ declared = {}
    /\ joined = {}
    /\ aligned = [users |-> {}, groups |-> {}]

NoDuplicates(pairs) ==
    \A i, j \in DOMAIN pairs : i # j => pairs[i][1] # pairs[j][1] /\ pairs[i][2] # pairs[j][2]

ToMap(pairs, names) ==
    [n \in names |-> IF \E i \in DOMAIN pairs : pairs[i][1] = n
                     THEN (CHOOSE q \in {pairs[i] : i \in DOMAIN pairs} : q[1] = n)[2] ELSE None]

\* Passwd::new refuses a name or an id that occurs twice.
New ==
    /\ status = "new"
    /\ \E m \in Mappings :
         IF NoDuplicates(m.users) /\ NoDuplicates(m.groups)
         THEN /\ user_ids' = ToMap(m.users, UserName)
              /\ group_ids' = ToMap(m.groups, GroupName)
              /\ status' = "building"
         ELSE status' = "failed" /\ UNCHANGED <<user_ids, group_ids>>
    /\ UNCHANGED <<users, groups, host, calls, written, declared, joined, aligned>>

\* A call other than new, align and apply.
Calling ==
    /\ status = "building"
    /\ calls < MaxCalls
    /\ calls' = calls + 1
    /\ UNCHANGED <<user_ids, group_ids, host, written>>

\* The script sets a user and a group itself.
Sets(us, gs) ==
    aligned' = [users |-> aligned.users \ us, groups |-> aligned.groups \ gs]

AddUser ==
    /\ Calling
    /\ \E u \in NewUsers : /\ users' = [users EXCEPT ![u.name] = u]
                           /\ declared' = declared \ {u.name}
                           /\ Sets({u.name}, {})
    /\ UNCHANGED <<groups, status, joined>>

\* The group takes the id of the user, and starts without members.
AddUserWithGroup ==
    /\ Calling
    /\ \E u \in NewUsers :
         /\ users' = [users EXCEPT ![u.name] = u]
         /\ groups' = [groups EXCEPT ![u.group] = NewGroup(u.group, u.uid)]
         /\ declared' = declared \cup {u.name}
         /\ joined' = {j \in joined : j[2] # u.group}
         /\ Sets({u.name}, {u.group})
    /\ UNCHANGED status

AddGroup ==
    /\ Calling
    /\ \E g \in NewGroups : /\ groups' = [groups EXCEPT ![g.name] = g]
                            /\ joined' = {j \in joined : j[2] # g.name}
                            /\ Sets({}, {g.name})
    /\ UNCHANGED <<users, status, declared>>

AddUserToGroups ==
    /\ Calling
    /\ \E m \in Memberships : LET st == Join(State, m[1], m[2]) IN
         groups' = st.groups /\ joined' = st.joined
    /\ UNCHANGED <<users, status, declared, aligned>>

AddUserToGroupsAsAdmin ==
    /\ Calling
    /\ \E m \in Memberships :
         groups' = IF groups[m[2]] = None THEN groups
                   ELSE [groups EXCEPT ![m[2]].admins = @ \cup {m[1]}]
    /\ UNCHANGED <<users, status, declared, joined, aligned>>

\* What an update makes; None, if there is nothing to update or the function fails.
UpdatedBy(f, map) == IF map[f.name] = None THEN None ELSE f.func[map[f.name]]

\* What is updated stays under its old name in the map.
UpdateUser ==
    /\ Calling
    /\ \E i \in DOMAIN UserUpdates : LET f == UserUpdates[i] IN
         IF UpdatedBy(f, users) = None THEN status' = "panicked" /\ UNCHANGED <<users, declared, aligned>>
         ELSE /\ users' = [users EXCEPT ![f.name] = UpdatedBy(f, users)]
              /\ declared' = declared \ {f.name}
              /\ Sets({f.name}, {})
              /\ UNCHANGED status
    /\ UNCHANGED <<groups, joined>>

\* The members have no setter, but the function may return another group.
UpdateGroup ==
    /\ Calling
    /\ \E i \in DOMAIN GroupUpdates : LET f == GroupUpdates[i] IN
         IF UpdatedBy(f, groups) = None THEN status' = "panicked" /\ UNCHANGED <<groups, joined, aligned>>
         ELSE /\ groups' = [groups EXCEPT ![f.name] = UpdatedBy(f, groups)]
              /\ joined' = {j \in joined : j[2] = f.name => j[1] \in UpdatedBy(f, groups).members}
              /\ Sets({}, {f.name})
              /\ UNCHANGED status
    /\ UNCHANGED <<users, declared>>

AddFromSysusers ==
    /\ Calling
    /\ \E file \in SysusersFiles : LET st == FromSysusers(State, file) IN
         /\ users' = st.users
         /\ groups' = st.groups
         /\ declared' = st.declared
         /\ joined' = st.joined
         /\ status' = IF st.ok THEN status ELSE "failed"
    /\ UNCHANGED aligned

PasswdFromSystem ==
    /\ Calling
    /\ \E names \in SUBSET UserName : users' = SystemPasswords(users, names, host.shadow)
    /\ UNCHANGED <<groups, status, declared, joined, aligned>>

\* Checked before, not after.
AlignIdsWithSystem ==
    /\ status = "building"
    /\ calls < MaxCalls
    /\ calls' = calls + 1
    /\ IF Sane(users, groups) /\ ~Unreadable(host.passwd) /\ ~Unreadable(host.group)
       THEN /\ users' = AlignUsers(users, host.passwd)
            /\ groups' = AlignGroups(groups, host.group)
            /\ aligned' = [users  |-> {n \in Users(users) : Lines(host.passwd, n) # {}},
                           groups |-> {n \in Groups(groups) : Lines(host.group, n) # {}}]
            /\ UNCHANGED status
       ELSE status' = "failed" /\ UNCHANGED <<users, groups, aligned>>
    /\ UNCHANGED <<user_ids, group_ids, host, written, declared, joined>>

Apply ==
    /\ status = "building"
    /\ IF Sane(users, groups)
       THEN status' = "written" /\ written' = Files(users, groups)
       ELSE status' = "failed" /\ UNCHANGED written
    /\ UNCHANGED <<users, groups, user_ids, group_ids, host, calls, declared, joined, aligned>>

PasswdNext ==
    \/ New \/ AddUser \/ AddUserWithGroup \/ AddGroup \/ AddUserToGroups
    \/ AddUserToGroupsAsAdmin \/ UpdateUser \/ UpdateGroup \/ AddFromSysusers
    \/ PasswdFromSystem \/ AlignIdsWithSystem \/ Apply

PasswdSpec == PasswdInit /\ [][PasswdNext]_passwdVars
-----------------------------------------------------------------------------
(* Properties *)

PasswdTypeOK ==
    /\ users \in [UserName -> User \cup {None}]
    /\ groups \in [GroupName -> Group \cup {None}]
    /\ user_ids \in [UserName -> Id \cup {None}]
    /\ group_ids \in [GroupName -> Id \cup {None}]
    /\ host \in Hosts
    /\ status \in {"new", "building", "failed", "panicked", "written"}
    /\ calls \in 0 .. MaxCalls
    /\ written \in FileSet \cup {None} /\ (written # None <=> status = "written")
    /\ declared \subseteq UserName
    /\ joined \subseteq UserName \X GroupName
    /\ aligned \in [users : SUBSET UserName, groups : SUBSET GroupName]

\* What is written gives no id to two users or two groups.  The calls may all do so,
\* and aligning may make two ids equal that were different when it checked them.
WrittenIdsUnique ==
    written # None =>
        /\ Cardinality({p.uid : p \in written.passwd}) = Cardinality(Users(users))
        /\ Cardinality({g.gid : g \in written.group}) = Cardinality(Groups(groups))

\* A user that a sysusers.d file or add_user_with_group brought, and that no other
\* call replaced since, is written with the id of a written group, whatever was done to the
\* group meanwhile; other users may be given group 0, see FormatPasswd.
DeclaredHaveGroups ==
    written # None =>
        \A n \in declared : \E p \in written.passwd, g \in written.group :
            p.name = n /\ g.gid = p.gid /\ groups[users[n].group].gid = g.gid

\* A member that was added to a group remains its member until the script sets the
\* group anew, or its update returns one without: no sysusers.d file or alignment undoes it,
\* and no update that is about something else.
MembersAreKept ==
    \A j \in joined : groups[j[2]] # None /\ j[1] \in groups[j[2]].members

\* An id that was aligned with the system stays, and is written, until the script sets
\* that user or group itself: a sysusers.d file that is read later does not take it back.
AlignedKeepTheirIds ==
    /\ \A n \in aligned.users : users[n].uid = SystemId(host.passwd, n)
    /\ \A n \in aligned.groups : groups[n].gid = SystemId(host.group, n)
    /\ written # None =>
         \A n \in aligned.users : \E p \in written.passwd :
             p.name = users[n].name /\ p.uid = SystemId(host.passwd, n)

\* A sysusers.d file only ever adds: what the script or an earlier file said of a user
\* stays, and so does what it said of a group, but for the members.
SysusersOnlyAdd ==
    [][AddFromSysusers =>
         /\ \A n \in Users(users) : users'[n] = users[n]
         /\ \A n \in Groups(groups) : /\ groups'[n].gid = groups[n].gid
                                      /\ groups[n].members \subseteq groups'[n].members
                                      /\ groups'[n].admins = groups[n].admins]_passwdVars
=============================================================================
