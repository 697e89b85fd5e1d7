------------------------------ MODULE Tmpfiles ------------------------------
(***************************************************************************)
(* The systemd-tmpfiles backend of paketkoll (systemd_tmpfiles/src/parser  *)
(* and types, paketkoll_core/src/backend/systemd_tmpfiles.rs): the lines of*)
(* tmpfiles.d, in the order of systemd-tmpfiles --cat-config, become       *)
(* directives, and those, one by one, the files that are to be there.      *)
(*                                                                         *)
(* A line has its fields split already.  Fields that no entry depends on   *)
(* (age, quota, recursive, replace, :, ~ before a mode) are left out.      *)
(***************************************************************************)
EXTENDS Paths, Naturals, Sequences, FiniteSetsExt

CONSTANTS
    TmpfilesConfigs,    \* the configurations: sequences of lines, [type, plus, marks, path,
                        \* mode, user, group, argument]
    Resolved,           \* texts with their specifiers replaced (and paths made absolute);
                        \* None: an error
    Globs,              \* the texts with a wildcard in them
    Decoded,            \* what decoding base64 in place leaves in the buffer; None: an error
    Devices,            \* the arguments that are device numbers
    HostIds,            \* <<kind, name>>: the ids of the users and groups there are
    FactoryOf,          \* path -> the text of its twin below /usr/share/factory
    SourceTrees,        \* source -> its inodes, [at, above, kind, mode, owner, group, data,
                        \* readable]; at: the path within it, above: its directories
    Below               \* <<path, at>> -> path

VARIABLES
    tmpfiles_config,    \* a sequence of lines
    tmpfiles_stage,     \* "idle", "process", "done" or "failed"
    position,           \* of the next line
    id_cache,           \* <<kind, name>> -> id
    tmpfiles            \* path -> [props, ok_if_missing]

tmpfilesVars == <<tmpfiles_config, tmpfiles_stage, position, id_cache, tmpfiles>>

-----------------------------------------------------------------------------
(* parse_str, parse_directive *)

TakesPlus == {"f", "F", "w", "p", "L", "c", "b", "C", "a", "A"}

LineTypes == TakesPlus \cup {"d", "D", "e", "v", "q", "Q", "x", "X", "r", "R", "z", "Z", "m", "t", "T", "h", "H"}

NeedsArgument == {"w", "t", "T", "h", "H", "a", "A"}

\* The argument, decoded unless it names a credential.
Argument(line) ==
    IF line.argument # None /\ "~" \in line.marks /\ "^" \notin line.marks
    THEN Decoded[line.argument] ELSE line.argument

IsDirective(line) ==
    /\ line.type \in LineTypes
    /\ line.plus => line.type \in TakesPlus \* F ignores its plus
    /\ line.argument # None => Argument(line) # None
    /\ line.type \in NeedsArgument => line.argument # None
    /\ line.type \in {"c", "b"} => Argument(line) \in Devices

\* One line that is none fails them all.
ParseTmpfiles(lines) == \A i \in DOMAIN lines : IsDirective(lines[i])

\* Directive::can_be_glob
CanBeGlob == {"w", "e", "x", "X", "r", "R", "z", "m", "Z", "t", "T", "h", "H", "a", "A"}

Adjusts == {"e", "z", "m", "Z"}

\* process_entry has nothing to say of these.
Skipped(line) ==
    \/ line.type \in CanBeGlob /\ line.path \in Globs
    \/ /\ Resolved[line.path] # None
       /\ \/ line.type \in {"x", "X", "t", "T", "h", "H", "a", "A"}
          \/ line.type = "w" /\ line.plus

-----------------------------------------------------------------------------
(* resolve_uid, resolve_gid, IdCache *)

CacheKey(kind, name) == <<kind, name>>

Lookup(cache, kind, name) ==
    LET key == CacheKey(kind, name)
    IN IF key \in DOMAIN cache THEN cache[key] ELSE HostIds[<<kind, name>>]

\* None: there is no such user or group.
ResolveId(cache, kind, id) ==
    CASE id.kind = "Caller"  -> 0
      [] id.kind = "Numeric" -> id.id
      [] id.kind = "Name"    -> Lookup(cache, kind, id.name)

Cached(cache, kind, id) ==
    IF id.kind = "Name"
    THEN [k \in DOMAIN cache \cup {CacheKey(kind, id.name)} |->
             IF k \in DOMAIN cache THEN cache[k] ELSE HostIds[<<kind, id.name>>]]
    ELSE cache

-----------------------------------------------------------------------------
(* process_entry *)

Props(kind, bits, owner, group, data) ==
    [kind |-> kind, mode |-> bits, owner |-> owner, group |-> group, data |-> data]

ModeOf(line) == IF line.mode = None THEN "0644" ELSE line.mode

\* The types whose entries have an owner from the line.
Owned == {"f", "F", "d", "D", "v", "q", "Q", "p", "c", "b"} \cup Adjusts

KindOf(line) ==
    CASE line.type \in {"f", "F"}                -> "RegularFileSystemd"
      [] line.type = "w"                         -> "RegularFileBasic"
      [] line.type \in {"d", "D", "v", "q", "Q"} -> "Directory"
      [] line.type = "p"                         -> "Fifo"
      [] line.type = "L"                         -> "Symlink"
      [] line.type = "c"                         -> "CharDevice"
      [] line.type = "b"                         -> "BlockDevice"
      [] line.type \in {"r", "R"}                -> "Removed"
      [] line.type \in Adjusts                   -> "Permissions"

\* The text that an entry is about, before its specifiers are replaced.
DataText(line) ==
    CASE line.type \in {"f", "F", "w", "L"} -> Argument(line)
      [] line.type \notin {"f", "F", "w", "L"} -> None

\* The contents, target or device; Cow::Borrowed(""), and the twin of an L.
DataOf(line) ==
    CASE DataText(line) # None -> Resolved[DataText(line)]
      [] DataText(line) = None /\ line.type \in {"f", "F"} -> ""
      [] DataText(line) = None /\ line.type = "L" -> FactoryOf[Resolved[line.path]]
      [] line.type \in {"c", "b"} -> Argument(line)
      [] OTHER -> None

PropsOf(line, uid, gid) ==
    CASE line.type \in Owned -> Props(KindOf(line), ModeOf(line), uid, gid, DataOf(line))
      [] line.type = "L"     -> Props("Symlink", None, 0, 0, DataOf(line))
      [] OTHER               -> Props(KindOf(line), None, None, None, DataOf(line))

\* FileFlags::OK_IF_MISSING
OkIfMissing(line) == line.marks \cap {"^", "-", "!"} # {}

FileOf(props, ok) == [props |-> props, ok_if_missing |-> ok]

-----------------------------------------------------------------------------
(* do_insert *)

\* Permissions for a path that has an entry already.
WithPermissions(old, p) ==
    CASE old.kind = "Symlink" -> [old EXCEPT !.owner = p.owner, !.group = p.group]
      [] old.kind = "RegularFileBasic" ->
            Props("RegularFileSystemd", p.mode, p.owner, p.group, old.data)
      [] old.kind = "Removed" -> old
      [] OTHER -> [old EXCEPT !.mode = p.mode, !.owner = p.owner, !.group = p.group]

Put(files, path, file) ==
    [p \in DOMAIN files \cup {path} |-> IF p = path THEN file ELSE files[p]]

\* A mutant: whatever comes last replaces what there was.
DoReplace(files, path, props, ok) == Put(files, path, FileOf(props, ok))

DoInsert(files, path, props, ok) ==
    IF path \in DOMAIN files /\ props.kind = "Permissions"
    THEN Put(files, path, [files[path] EXCEPT !.props = WithPermissions(@, props)])
    ELSE Put(files, path, FileOf(props, ok))

-----------------------------------------------------------------------------
(* recursive_copy *)

\* What can be read, in directories that can.
Copied(tree) == {n \in tree : \A x \in tree : x.at \in n.above \cup {n.at} => x.readable}

\* The directories come after what they contain, which makes no difference: all are
\* paths of their own.
RecursiveCopy(files, tree, target, ok) ==
    LET Source(p) == CHOOSE n \in Copied(tree) : Below[<<target, n.at>>] = p
        paths == {Below[<<target, n.at>>] : n \in Copied(tree)}
        Inserted(n, p) == DoInsert(files, p, Props(n.kind, n.mode, n.owner, n.group, n.data), ok)
    IN  [p \in DOMAIN files \cup paths |-> IF p \in paths THEN Inserted(Source(p), p)[p] ELSE files[p]]

SourceOf(line) ==
    IF line.argument = None THEN FactoryOf[Resolved[line.path]]
    ELSE Resolved[Argument(line)]

Lines == UNION {{config[i] : i \in DOMAIN config} : config \in TmpfilesConfigs}

\* Specifiers resolve to paths, but in globs; the ids of the host are those of the names
\* there are; and a tree has one inode for a path, of the kinds that recursive_copy makes.
ASSUME TmpfilesAssumption ==
    /\ TmpfilesConfigs # {}
    /\ \A config \in TmpfilesConfigs : config \in Seq(Lines)
    /\ \A line \in Lines :
          /\ Skipped(line) \/ Resolved[line.path] \in Path \cup {None}
          /\ line.user.kind = "Name" => CacheKey("User", line.user.name) \in DOMAIN HostIds
          /\ line.group.kind = "Name" => CacheKey("Group", line.group.name) \in DOMAIN HostIds
    /\ \A line \in {x \in Lines : x.type = "C" /\ IsDirective(x)} :
          Resolved[line.path] # None /\ SourceOf(line) # None =>
             LET copied  == Copied(SourceTrees[SourceOf(line)])
                 Target(n) == Below[<<Resolved[line.path], n.at>>]
             IN /\ \A n \in copied : Target(n) \in Path /\ n.kind \in {"Directory", "RegularFileSystemd"}
                /\ \A n, m \in copied : Target(n) = Target(m) => n = m

-----------------------------------------------------------------------------
(* Files::files *)

NoTmpfiles == <<>>

TmpfilesStart(lines) ==
    /\ tmpfiles_config = lines
    /\ tmpfiles_stage = "idle"
    /\ position = 1
    /\ id_cache = <<>>
    /\ tmpfiles = NoTmpfiles

ReadTmpfiles ==
    /\ tmpfiles_stage = "idle"
    /\ tmpfiles_stage' = IF ParseTmpfiles(tmpfiles_config) THEN "process" ELSE "failed"
    /\ UNCHANGED <<tmpfiles_config, position, id_cache, tmpfiles>>

\* One entry after the other, as later ones change what earlier ones made.
At(types) ==
    /\ tmpfiles_stage = "process"
    /\ position <= Len(tmpfiles_config)
    /\ tmpfiles_config[position].type \in types

NextEntry == position' = position + 1 /\ UNCHANGED <<tmpfiles_config, tmpfiles_stage>>

FailEntry ==
    /\ tmpfiles_stage' = "failed"
    /\ UNCHANGED <<tmpfiles_config, position, id_cache, tmpfiles>>

SkipEntry ==
    /\ At(LineTypes)
    /\ Skipped(tmpfiles_config[position])
    /\ NextEntry
    /\ UNCHANGED <<id_cache, tmpfiles>>

\* What process_entry looks up: specifiers first, then the user and the group.
Texts(line) == {line.path} \cup ({DataText(line)} \ {None})

ProcessEntry ==
    /\ At(LineTypes \ {"C"})
    /\ LET line  == tmpfiles_config[position]
           uid   == ResolveId(id_cache, "User", line.user)
           users == Cached(id_cache, "User", line.user)
           gid   == ResolveId(users, "Group", line.group)
           owned == line.type \in Owned
       IN /\ ~Skipped(line)
          /\ IF (\E t \in Texts(line) : Resolved[t] = None) \/ (owned /\ None \in {uid, gid})
             THEN FailEntry
             ELSE /\ id_cache' = IF owned THEN Cached(users, "Group", line.group) ELSE id_cache
                  /\ tmpfiles' = DoInsert(tmpfiles, Resolved[line.path], PropsOf(line, uid, gid),
                                          OkIfMissing(line))
                  /\ NextEntry

\* A source that is not there has no inodes.
CopyEntry ==
    /\ At({"C"})
    /\ LET line == tmpfiles_config[position]
       IN IF Resolved[line.path] = None \/ SourceOf(line) = None THEN FailEntry
          ELSE /\ tmpfiles' = RecursiveCopy(tmpfiles, SourceTrees[SourceOf(line)],
                                            Resolved[line.path], OkIfMissing(line))
               /\ NextEntry
               /\ UNCHANGED id_cache

EndOfEntries ==
    /\ tmpfiles_stage = "process"
    /\ position > Len(tmpfiles_config)
    /\ tmpfiles_stage' = "done"
    /\ UNCHANGED <<tmpfiles_config, position, id_cache, tmpfiles>>

TmpfilesNext == ReadTmpfiles \/ SkipEntry \/ ProcessEntry \/ CopyEntry \/ EndOfEntries

-----------------------------------------------------------------------------
(* Properties *)

TmpfilesTypeOK ==
    /\ tmpfiles_stage \in {"idle", "process", "done", "failed"}
    /\ position \in 1 .. Len(tmpfiles_config) + 1
    /\ DOMAIN id_cache \subseteq DOMAIN HostIds
    /\ DOMAIN tmpfiles \subseteq Path
    /\ \A p \in DOMAIN tmpfiles : tmpfiles[p].ok_if_missing \in BOOLEAN

\* An id as the system knows it, without the cache.
HostId(kind, id) == ResolveId(<<>>, kind, id)

\* What line n by itself says of a path.
Says(n, p) ==
    LET line == tmpfiles_config[n]
        ok   == OkIfMissing(line)
    IN  IF line.type = "C"
        THEN {FileOf(Props(x.kind, x.mode, x.owner, x.group, x.data), ok) :
                 x \in {y \in Copied(SourceTrees[SourceOf(line)]) : Below[<<Resolved[line.path], y.at>>] = p}}
        ELSE IF Resolved[line.path] = p
        THEN {FileOf(PropsOf(line, HostId("User", line.user), HostId("Group", line.group)), ok)}
        ELSE {}

\* The one thing it says.
Said(n, p) == CHOOSE f \in Says(n, p) : TRUE

\* What the first k lines say of a path.
AsSaid(p, k) ==
    LET about   == {n \in 1 .. k : ~Skipped(tmpfiles_config[n]) /\ Says(n, p) # {}}
        adjust  == {n \in about : tmpfiles_config[n].type \in Adjusts}
        make    == about \ adjust
        later   == {n \in adjust : \A m \in make : n > m}
        made    == Said(Max(make), p)
        last    == Said(Max(later), p).props
        settled == later = {} \/ made.props.kind = "Removed"
    IN  /\ p \in DOMAIN tmpfiles <=> about # {}
        /\ make = {} /\ adjust # {} =>
              tmpfiles[p] = FileOf(last, Said(Min(adjust), p).ok_if_missing)
        /\ make # {} /\ settled => tmpfiles[p] = made
        /\ make # {} /\ ~settled =>
              /\ tmpfiles[p].ok_if_missing = made.ok_if_missing
              /\ tmpfiles[p].props.data = made.props.data
              /\ tmpfiles[p].props.owner = last.owner
              /\ tmpfiles[p].props.group = last.group
              /\ made.props.kind # "Symlink" => tmpfiles[p].props.mode = last.mode
              /\ tmpfiles[p].props.kind = IF made.props.kind = "RegularFileBasic"
                                         THEN "RegularFileSystemd" ELSE made.props.kind

\* "Last item wins (at least per file), including possibly modifying previous entries"
\* (parse_systemd_tmpfiles_output): a path is what the last line that makes it says, with
\* the mode and the owner of the last line after that one which adjusts them; what is
\* removed and the mode of a link are not adjusted, and what no line makes is only
\* adjusted, and may be missing where the first of these lines says so.  Other lines, and
\* ids that were looked up for them, make no difference.
LastLineWins ==
    tmpfiles_stage = "done" => \A p \in Path : AsSaid(p, Len(tmpfiles_config))
=============================================================================
