---------------------------- MODULE FsMapsProofs ----------------------------
(***************************************************************************)
(* For every set of paths and values and every finite set of instructions: *)
(* the recursion that defines BuildMap has one solution, and what it       *)
(* builds is a map of entries and follows the set as FsReading reads it,   *)
(* theorem BuildMapFollows.                                                *)
(*                                                                         *)
(* The order of instructions enters in one place, lemma Sorted: when an    *)
(* instruction comes after a set, the set creates nothing beneath its path *)
(* and says nothing of a later kind of it.  The library's induction over   *)
(* finite sets takes the property as an operator, which the provers cannot *)
(* instantiate; the induction is that of the smallest counterexample,      *)
(* lemma SmallestSet.                                                      *)
(*                                                                         *)
(* The lemmas at the end are about the instructions of a scan and a diff,  *)
(* path by path.                                                           *)
(***************************************************************************)
EXTENDS FsReading, Scan, FiniteSetTheorems, TLAPS

Tags == DOMAIN TagRank

-----------------------------------------------------------------------------
(* Instructions and their order *)

\* The ranks of the kinds of operations, spelt out.
LEMMA TagRanks ==
    /\ Tags = CreateTags \cup MetaTags \cup {"Remove", "Restore", "Comment"}
    /\ TagRank["Remove"] = 0
    /\ TagRank["Restore"] = 1
    /\ TagRank["CreateDirectory"] = 2
    /\ TagRank["CreateFile"] = 3
    /\ TagRank["CreateSymlink"] = 4
    /\ TagRank["CreateFifo"] = 5
    /\ TagRank["CreateBlockDevice"] = 6
    /\ TagRank["CreateCharDevice"] = 7
    /\ TagRank["SetMode"] = 8
    /\ TagRank["SetOwner"] = 9
    /\ TagRank["SetGroup"] = 10
    /\ TagRank["Comment"] = 11
  BY DEF TagRank, Tags, CreateTags, MetaTags

\* Removal sorts before creation and creation before metadata, and no two
\* kinds share a rank.
LEMMA TagOrder ==
    /\ \A t \in Tags : TagRank[t] \in Nat
    /\ \A t, u \in Tags : TagRank[t] = TagRank[u] => t = u
    /\ \A t \in CreateTags, m \in MetaTags :
          /\ TagRank["Remove"] < TagRank[t]
          /\ TagRank[t] < TagRank[m]
          /\ TagRank["Remove"] < TagRank[m]
  BY TagRanks DEF CreateTags, MetaTags

\* What the fields of an instruction are.
LEMMA InstructionFields ==
    ASSUME NEW i \in FsInstruction
    PROVE  /\ i.path \in Path
           /\ i.tag \in Tags
           /\ i.arg \in Arg
           /\ i = Instr(i.path, i.tag, i.arg)
  BY TagRanks DEF FsInstruction, Arg, Instr, CreateTags, MetaTags

\* What the fields of an instruction are.
LEMMA Operands ==
    ASSUME NEW i \in FsInstruction
    PROVE  /\ i.path \in Path
           /\ i.tag \in Tags
           /\ i.tag = "CreateFile" => i.arg \in Contents
           /\ i.tag = "CreateSymlink" => i.arg \in Targets
           /\ i.tag \in {"CreateBlockDevice", "CreateCharDevice"} => i.arg \in DevNos
           /\ i.tag = "SetMode" => i.arg \in Mode
           /\ i.tag \in {"SetOwner", "SetGroup"} => i.arg \in Name
  BY DEF FsInstruction, Tags, TagRank

\* At one path the order of instructions is antisymmetric.
LEMMA OrderAntisymmetric ==
    ASSUME NEW i \in FsInstruction, NEW j \in FsInstruction,
           i.path = j.path, InstrLeq(i, j), InstrLeq(j, i)
    PROVE  i = j
<1>1. i.tag \in Tags /\ j.tag \in Tags /\ i.arg \in Arg /\ j.arg \in Arg /\ i.path \in Path
  BY InstructionFields
<1>2. PathRank[i.path] \in Nat /\ ~(PathRank[i.path] < PathRank[j.path])
  BY <1>1, PathAssumption
<1>3. i.tag = j.tag
  BY <1>1, <1>2, TagOrder DEF InstrLeq
<1>4. ArgRank[i.arg] \in Nat /\ ArgRank[j.arg] \in Nat
  BY <1>1, ValueAssumption
<1>5. ArgRank[i.arg] = ArgRank[j.arg]
  BY <1>1, <1>2, <1>3, <1>4, TagOrder DEF InstrLeq
<1>6. i.arg = j.arg
  BY <1>1, <1>5, ValueAssumption
<1>. QED  BY <1>3, <1>6, InstructionFields

-----------------------------------------------------------------------------
(* The order of the stream *)

\* When i comes after a set, the set creates nothing beneath its path, and what it
\* has at its path is of no later kind.
LEMMA Sorted ==
    ASSUME NEW S \in SUBSET FsInstruction, NEW i \in FsInstruction, \A j \in S : InstrLeq(j, i)
    PROVE  /\ ~CreatedBelow(S, i.path)
           /\ \A j \in S : j.path = i.path => TagRank[j.tag] <= TagRank[i.tag]
<1>2. ASSUME NEW j \in S
      PROVE  /\ i.path \notin StrictAncestors(j.path)
             /\ j.path = i.path => TagRank[j.tag] <= TagRank[i.tag]
  <2>1. j.path \in Path /\ i.path \in Path /\ j.tag \in Tags /\ i.tag \in Tags /\ InstrLeq(j, i)
    BY InstructionFields
  <2>2. PathRank[j.path] \in Nat /\ PathRank[i.path] \in Nat
    BY <2>1, PathAssumption
  <2>3. i.path \notin StrictAncestors(j.path)
    <3>1. SUFFICES ASSUME i.path \in StrictAncestors(j.path) PROVE FALSE
      OBVIOUS
    <3>2. PathRank[i.path] < PathRank[j.path]
      BY <2>1, <3>1, PathAssumption DEF StrictAncestors
    <3>3. i.path # j.path
      BY <2>2, <3>2
    <3>. QED  BY <2>1, <2>2, <3>2, <3>3 DEF InstrLeq
  <2>4. j.path = i.path => TagRank[j.tag] <= TagRank[i.tag]
    BY <2>1, <2>2, TagOrder DEF InstrLeq
  <2>. QED  BY <2>3, <2>4
<1>. QED  BY <1>2 DEF CreatedBelow

\* Hence an instruction that comes last is the last of its kind at its path.
LEMMA LastIsLatest ==
    ASSUME NEW S \in SUBSET FsInstruction, NEW i \in FsInstruction,
           \A j \in S : InstrLeq(j, i), NEW T, T = S \cup {i},
           NEW tags, i.tag \in tags, NEW k \in OnPath(T, i.path, tags), Latest(T, k, tags)
    PROVE  k = i
<1>1. k \in FsInstruction /\ k.path = i.path /\ k \in S \cup {i}
  BY DEF OnPath
<1>2. InstrLeq(i, k)
  BY <1>1 DEF Latest, OnPath
<1>3. CASE k \in S
  BY <1>1, <1>2, <1>3, OrderAntisymmetric
<1>. QED  BY <1>1, <1>3

-----------------------------------------------------------------------------
(* A map follows a set of instructions, path by path *)

\* All that FsReading says of a path.
Follows(instrs, m, p) ==
    /\ EntryFollows(instrs, m, p)
    /\ RemovalRemembered(instrs, m, p)
    /\ MetadataFollows(instrs, m, p)

\* A path other than the instruction's only changes by becoming a directory.
LEMMA OtherPath ==
    ASSUME NEW S, NEW T, NEW before, NEW after, NEW i \in FsInstruction, T = S \cup {i},
           NEW p \in Path, p # i.path, Follows(S, before, p),
           after[p] = IF i.tag \in CreateTags /\ p \in StrictAncestors(i.path) /\ before[p] = NoNode
                    THEN FreshNode(Directory, DEFAULT_DIR_MODE) ELSE before[p]
    PROVE  Follows(T, after, p)
<1>1. \A tags : OnPath(T, p, tags) = OnPath(S, p, tags)
  BY DEF OnPath
<1>2. \A tags : \A j \in OnPath(S, p, tags) : Latest(T, j, tags) <=> Latest(S, j, tags)
  BY <1>1 DEF Latest, OnPath
<1>3. CreatedBelow(T, p) <=> CreatedBelow(S, p) \/ (i.tag \in CreateTags /\ p \in StrictAncestors(i.path))
  BY DEF CreatedBelow
<1>4. CASE after[p] = before[p] /\ (CreatedBelow(T, p) <=> CreatedBelow(S, p))
  BY <1>1, <1>2, <1>4, ZenonT(40) DEF Follows, EntryFollows, RemovalRemembered, MetadataFollows, FieldFollows
<1>5. CASE i.tag \in CreateTags /\ p \in StrictAncestors(i.path) /\ before[p] # NoNode
  BY <1>1, <1>2, <1>3, <1>5 DEF Follows, EntryFollows, RemovalRemembered, MetadataFollows, FieldFollows
<1>6. CASE i.tag \in CreateTags /\ p \in StrictAncestors(i.path) /\ before[p] = NoNode
  <2>1. OnPath(S, p, CreateTags) = {} /\ OnPath(S, p, {"Remove"}) = {} /\ OnPath(S, p, MetaTags) = {}
    BY <1>6 DEF Follows, EntryFollows, OnPath
  <2>2. \A tags : tags \subseteq CreateTags \cup MetaTags \cup {"Remove"} => OnPath(S, p, tags) = {}
    BY <2>1 DEF OnPath
  <2>3. after[p] = FreshNode(Directory, DEFAULT_DIR_MODE) /\ CreatedBelow(T, p)
    BY <1>3, <1>6
  <2>4. EntryFollows(T, after, p)
    BY <1>1, <2>1, <2>3 DEF EntryFollows
  <2>5. RemovalRemembered(T, after, p)
    BY <1>1, <2>1, <2>3 DEF RemovalRemembered, FreshNode
  <2>6. \A t \in MetaTags : OnPath(T, p, {t}) = {}
    BY <1>1, <2>2
  <2>7. /\ after[p].mode = ImpliedMode(after[p].entry)
        /\ after[p].owner = ImpliedName(after[p].entry)
        /\ after[p].group = ImpliedName(after[p].entry)
    BY <2>3 DEF ImpliedMode, ImpliedName, FreshNode, Directory, Unchanged, Entry
  <2>8. MetadataFollows(T, after, p)
    BY <2>6, <2>7 DEF MetadataFollows, FieldFollows, MetaTags
  <2>. QED  BY <2>4, <2>5, <2>8 DEF Follows
<1>. QED  BY <1>3, <1>4, <1>5, <1>6

-----------------------------------------------------------------------------
(* The path of the instruction, one lemma per kind of operation *)

\* What a creating operation asks for is an entry that implies the operation's
\* own defaults.
LEMMA CreatedEntries ==
    ASSUME NEW i \in FsInstruction, i.tag \in CreateTags
    PROVE  /\ CreatedEntry(i) \in FsEntry
           /\ DefaultMode(i.tag) \in Mode
           /\ CreatedEntry(i) # Unchanged
           /\ ImpliedMode(CreatedEntry(i)) = DefaultMode(i.tag)
<1>1. i.arg \in CASE i.tag = "CreateFile" -> Contents
                  [] i.tag = "CreateSymlink" -> Targets
                  [] i.tag \in {"CreateBlockDevice", "CreateCharDevice"} -> DevNos
                  [] OTHER -> {None}
  BY DEF FsInstruction, CreateTags
<1>2. DefaultMode(i.tag) \in Mode
  BY ValueAssumption DEF DefaultMode
<1>3. CASE i.tag = "CreateDirectory"
  BY <1>2, <1>3 DEF CreatedEntry, FsEntry, Directory, Unchanged, Entry, ImpliedMode, DefaultMode
<1>4. CASE i.tag = "CreateFile"
  BY <1>1, <1>2, <1>4 DEF CreatedEntry, FsEntry, Directory, Unchanged, Entry, ImpliedMode, DefaultMode
<1>5. CASE i.tag = "CreateSymlink"
  BY <1>1, <1>2, <1>5 DEF CreatedEntry, FsEntry, Directory, Unchanged, Entry, ImpliedMode, DefaultMode
<1>6. CASE i.tag = "CreateFifo"
  BY <1>2, <1>6 DEF CreatedEntry, FsEntry, Directory, Unchanged, Entry, ImpliedMode, DefaultMode
<1>7. CASE i.tag = "CreateBlockDevice"
  BY <1>1, <1>2, <1>7 DEF CreatedEntry, FsEntry, Directory, Unchanged, Entry, ImpliedMode, DefaultMode
<1>8. CASE i.tag = "CreateCharDevice"
  BY <1>1, <1>2, <1>8 DEF CreatedEntry, FsEntry, Directory, Unchanged, Entry, ImpliedMode, DefaultMode
<1>. QED  BY <1>3, <1>4, <1>5, <1>6, <1>7, <1>8 DEF CreateTags

\* A step at path i.path: the assumptions the lemmas below share.
StepAt(S, T, before, i) ==
    /\ S \in SUBSET FsInstruction
    /\ before \in FsMap
    /\ i \in FsInstruction
    /\ \A j \in S : InstrLeq(j, i)
    /\ T = S \cup {i}
    /\ Follows(S, before, i.path)

\* A removal: whatever was at the path counts as removed.
LEMMA RemovedPath ==
    ASSUME NEW S, NEW T, NEW before, NEW after, NEW i, StepAt(S, T, before, i), i.tag = "Remove",
           after[i.path] = [FreshNode(Removed, DEFAULT_FILE_MODE)
                             EXCEPT !.removed_before_added = TRUE],
           after[i.path] # NoNode
    PROVE  Follows(T, after, i.path)
<1> DEFINE p == i.path
<1>1. \A j \in S : j.path = p => TagRank[j.tag] <= TagRank["Remove"] /\ j.tag \in Tags
  BY Sorted, InstructionFields DEF StepAt
<1>2. OnPath(S, p, CreateTags) = {} /\ OnPath(S, p, MetaTags) = {}
  BY <1>1, TagRanks DEF OnPath, CreateTags, MetaTags
<1>3. OnPath(T, p, CreateTags) = {} /\ OnPath(T, p, MetaTags) = {} /\ i \in OnPath(T, p, {"Remove"})
  BY <1>2 DEF OnPath, StepAt, CreateTags, MetaTags
<1>4. \A m \in MetaTags : OnPath(T, p, {m}) = {}
  BY <1>3 DEF OnPath
<1>5. EntryFollows(T, after, p)
  BY <1>3 DEF EntryFollows, OnPath, FreshNode
<1>6. RemovalRemembered(T, after, p)
  BY <1>3 DEF RemovalRemembered, FreshNode
<1>7. MetadataFollows(T, after, p)
  BY <1>4 DEF MetadataFollows, FieldFollows, ImpliedMode, ImpliedName, FreshNode, Removed,
              Directory, Unchanged, Entry, MetaTags
<1>. QED  BY <1>5, <1>6, <1>7 DEF Follows

\* A creation: it sorts before every change of metadata, so the defaults hold.
LEMMA CreatedPath ==
    ASSUME NEW S, NEW T, NEW before, NEW after, NEW i, StepAt(S, T, before, i), i.tag \in CreateTags,
           after[i.path] # NoNode,
           after[i.path].entry = CreatedEntry(i),
           after[i.path].mode = DefaultMode(i.tag),
           after[i.path].owner = ROOT,
           after[i.path].group = ROOT,
           after[i.path].removed_before_added
               = IF before[i.path] = NoNode THEN FALSE ELSE before[i.path].removed_before_added
    PROVE  Follows(T, after, i.path)
<1> DEFINE p == i.path
<1>1. S \subseteq FsInstruction /\ i.tag \in Tags
      /\ \A j \in S : j.path = p => TagRank[j.tag] <= TagRank[i.tag] /\ j.tag \in Tags
  BY Sorted, InstructionFields DEF StepAt
<1>2. \A m \in MetaTags : OnPath(T, p, {m}) = {}
  BY <1>1, TagRanks DEF OnPath, StepAt, CreateTags, MetaTags
<1>3. OnPath(T, p, {"Remove"}) = OnPath(S, p, {"Remove"})
  BY DEF OnPath, StepAt, CreateTags
<1>4. EntryFollows(T, after, p)
  <2>1. \A k \in OnPath(T, p, CreateTags) : Latest(T, k, CreateTags) => k = i
    BY <1>1, LastIsLatest DEF StepAt
  <2>2. i \in OnPath(T, p, CreateTags)
    BY DEF OnPath, StepAt
  <2>. QED  BY <2>1, <2>2 DEF EntryFollows, OnPath
<1>5. RemovalRemembered(T, after, p)
  BY <1>3 DEF RemovalRemembered, Follows, EntryFollows, StepAt, OnPath
<1>6. MetadataFollows(T, after, p)
  BY <1>2, CreatedEntries DEF MetadataFollows, FieldFollows, ImpliedName, MetaTags, StepAt
<1>. QED  BY <1>4, <1>5, <1>6 DEF Follows

\* Operations that apply_instructions passes over.
LEMMA PassedOverPath ==
    ASSUME NEW S, NEW T, NEW before, NEW after, NEW i, StepAt(S, T, before, i),
           i.tag \in {"Restore", "Comment"}, after[i.path] = before[i.path]
    PROVE  Follows(T, after, i.path)
<1>1. \A tags : tags \subseteq CreateTags \cup MetaTags \cup {"Remove"} =>
                 OnPath(T, i.path, tags) = OnPath(S, i.path, tags)
  BY DEF OnPath, StepAt, CreateTags, MetaTags
<1>2. \A tags : tags \subseteq CreateTags \cup MetaTags \cup {"Remove"} =>
                 \A j \in OnPath(S, i.path, tags) : Latest(T, j, tags) <=> Latest(S, j, tags)
  BY <1>1 DEF Latest, OnPath
<1>3. CreatedBelow(T, i.path) <=> CreatedBelow(S, i.path)
  BY DEF CreatedBelow, StepAt, CreateTags
<1>. QED  BY <1>1, <1>2, <1>3, ZenonT(40)
          DEF Follows, EntryFollows, RemovalRemembered, MetadataFollows, FieldFollows, StepAt, MetaTags

\* What SetMode, SetOwner and SetGroup make of a node.
ChangedFrom(i, old, new) ==
    /\ new.entry = old.entry
    /\ new.removed_before_added = old.removed_before_added
    /\ new.mode  = IF i.tag = "SetMode" THEN i.arg ELSE old.mode
    /\ new.owner = IF i.tag = "SetOwner" THEN i.arg ELSE old.owner
    /\ new.group = IF i.tag = "SetGroup" THEN i.arg ELSE old.group

\* A change of metadata: one field of the node, or of a new Unchanged node.
LEMMA ChangedPath ==
    ASSUME NEW S, NEW T, NEW before, NEW after, NEW i, StepAt(S, T, before, i), i.tag \in MetaTags,
           after[i.path] # NoNode,
           ChangedFrom(i, NodeOr(before, i.path, UnchangedNode), after[i.path])
    PROVE  Follows(T, after, i.path)
<1> DEFINE p == i.path
           old == CreateTags \cup {"Remove"}
           node == NodeOr(before, p, UnchangedNode)
<1>0. ChangedFrom(i, node, after[p]) /\ after[p] # NoNode
  OBVIOUS
<1> HIDE DEF node
<1>1. S \subseteq FsInstruction /\ ~CreatedBelow(S, p) /\ p \in Path
  BY Sorted, InstructionFields DEF StepAt
<1>2. \A tags : i.tag \notin tags => OnPath(T, p, tags) = OnPath(S, p, tags)
  BY DEF OnPath, StepAt
<1>3. \A tags : i.tag \notin tags =>
                 \A j \in OnPath(S, p, tags) : Latest(T, j, tags) <=> Latest(S, j, tags)
  BY <1>2 DEF Latest, OnPath
<1>4. i.tag \notin CreateTags /\ i.tag # "Remove" /\ i.tag \notin old
  BY DEF CreateTags, MetaTags
<1>5. i \in OnPath(T, p, MetaTags) /\ i \in OnPath(T, p, {i.tag})
  BY DEF OnPath, StepAt
<1>6. before[p] = NoNode => OnPath(S, p, CreateTags) = {} /\ OnPath(S, p, {"Remove"}) = {} /\ OnPath(S, p, MetaTags) = {}
  BY DEF Follows, EntryFollows, OnPath, StepAt
<1>7. before[p] # NoNode => OnPath(S, p, CreateTags) # {} \/ OnPath(S, p, {"Remove"}) # {} \/ OnPath(S, p, MetaTags) # {}
  <2>1. SUFFICES ASSUME OnPath(S, p, CreateTags) = {}, OnPath(S, p, {"Remove"}) = {}, OnPath(S, p, MetaTags) = {}
                 PROVE  before[p] = NoNode
    OBVIOUS
  <2>2. OnPath(S, p, CreateTags \cup MetaTags \cup {"Remove"}) = {}
    BY <2>1 DEF OnPath
  <2>. QED  BY <1>1, <2>2 DEF Follows, EntryFollows, StepAt
<1>8. node = IF before[p] = NoNode THEN UnchangedNode ELSE before[p]
  BY DEF NodeOr, node
<1>9. EntryFollows(T, after, p)
  <2>1. \A k \in OnPath(T, p, CreateTags) : Latest(T, k, CreateTags) => after[p].entry = CreatedEntry(k)
    BY <1>0, <1>2, <1>3, <1>4, <1>6, <1>8 DEF ChangedFrom, Follows, EntryFollows, StepAt, OnPath
  <2>2. OnPath(T, p, CreateTags) = {} /\ OnPath(T, p, {"Remove"}) # {} => after[p].entry = Removed
    BY <1>0, <1>2, <1>4, <1>6, <1>8 DEF ChangedFrom, Follows, EntryFollows, StepAt
  <2>3. OnPath(T, p, old) = {} => after[p].entry = Unchanged
    <3>1. SUFFICES ASSUME OnPath(S, p, old) = {} PROVE node.entry = Unchanged
      BY <1>0, <1>2, <1>4 DEF ChangedFrom
    <3>2. OnPath(S, p, CreateTags) = {} /\ OnPath(S, p, {"Remove"}) = {}
      BY <3>1 DEF OnPath
    <3>. QED  BY <1>7, <1>8, <3>1, <3>2 DEF Follows, EntryFollows, StepAt, UnchangedNode
  <2>4. OnPath(T, p, CreateTags \cup MetaTags \cup {"Remove"}) # {}
    BY <1>5 DEF OnPath
  <2>. QED  BY <1>0, <2>1, <2>2, <2>3, <2>4 DEF EntryFollows
<1>10. RemovalRemembered(T, after, p)
  BY <1>0, <1>2, <1>4, <1>6, <1>8 DEF ChangedFrom, RemovalRemembered, Follows, StepAt, UnchangedNode
<1>11. \A t \in MetaTags :
          /\ i.tag = t => /\ OnPath(T, p, {t}) # {}
                          /\ \A k \in OnPath(T, p, {t}) : Latest(T, k, {t}) => k = i
          /\ i.tag # t => /\ OnPath(T, p, {t}) = OnPath(S, p, {t})
                          /\ \A k \in OnPath(S, p, {t}) : Latest(T, k, {t}) <=> Latest(S, k, {t})
                          /\ before[p] = NoNode => OnPath(S, p, {t}) = {}
  <2>1. TAKE t \in MetaTags
  <2>2. ASSUME i.tag = t PROVE \A k \in OnPath(T, p, {t}) : Latest(T, k, {t}) => k = i
    BY <1>1, <2>2, LastIsLatest DEF StepAt
  <2>3. ASSUME before[p] = NoNode PROVE OnPath(S, p, {t}) = {}
    BY <1>6, <2>3 DEF OnPath
  <2>. QED  BY <1>2, <1>3, <1>5, <2>2, <2>3
<1>12. MetadataFollows(T, after, p)
  <2>1. before[p] # NoNode => /\ FieldFollows(S, p, "SetMode", node.mode, ImpliedMode(node.entry))
                          /\ FieldFollows(S, p, "SetOwner", node.owner, ImpliedName(node.entry))
                          /\ FieldFollows(S, p, "SetGroup", node.group, ImpliedName(node.entry))
    BY <1>8 DEF Follows, MetadataFollows, StepAt
  <2>2. before[p] = NoNode => /\ node.mode = ImpliedMode(node.entry)
                          /\ node.owner = ImpliedName(node.entry)
                          /\ node.group = ImpliedName(node.entry)
    BY <1>8 DEF UnchangedNode, ImpliedMode, ImpliedName, Unchanged, Directory, Entry
  <2>3. "SetMode" \in MetaTags /\ "SetOwner" \in MetaTags /\ "SetGroup" \in MetaTags
    BY DEF MetaTags
  <2>4. FieldFollows(T, p, "SetMode", after[p].mode, ImpliedMode(after[p].entry))
    BY <1>0, <1>11, <2>1, <2>2, <2>3 DEF ChangedFrom, FieldFollows
  <2>5. FieldFollows(T, p, "SetOwner", after[p].owner, ImpliedName(after[p].entry))
    BY <1>0, <1>11, <2>1, <2>2, <2>3 DEF ChangedFrom, FieldFollows
  <2>6. FieldFollows(T, p, "SetGroup", after[p].group, ImpliedName(after[p].entry))
    BY <1>0, <1>11, <2>1, <2>2, <2>3 DEF ChangedFrom, FieldFollows
  <2>. QED  BY <2>4, <2>5, <2>6 DEF MetadataFollows
<1>. QED  BY <1>9, <1>10, <1>12 DEF Follows

\* The nodes that operations make are nodes.
LEMMA NodeTypes ==
    /\ \A entry \in FsEntry, mode \in Mode : FreshNode(entry, mode) \in FsNode
    /\ Removed \in FsEntry /\ Directory \in FsEntry /\ Unchanged \in FsEntry
    /\ UnchangedNode \in FsNode
    /\ \A node \in FsNode : node # NoNode
<1>1. Removed \in FsEntry /\ Directory \in FsEntry /\ Unchanged \in FsEntry
  BY DEF Removed, Directory, Unchanged, Entry, FsEntry
<1>. QED  BY <1>1, ValueAssumption, NodeAssumption DEF FreshNode, FsNode, UnchangedNode

-----------------------------------------------------------------------------
(* One instruction more *)

\* One instruction applied, given what it does to its own path.
LEMMA AppliedAtPath ==
    ASSUME NEW S, NEW T, NEW before, NEW after, NEW i, StepAt(S, T, before, i),
           \A p \in Path : Follows(S, before, p),
           \A p \in Path : p # i.path =>
               after[p] = IF i.tag \in CreateTags /\ p \in StrictAncestors(i.path) /\ before[p] = NoNode
                          THEN FreshNode(Directory, DEFAULT_DIR_MODE) ELSE before[p],
           Follows(T, after, i.path)
    PROVE  \A p \in Path : Follows(T, after, p)
<1>1. ASSUME NEW p \in Path, p # i.path PROVE Follows(T, after, p)
  BY <1>1, OtherPath DEF StepAt
<1>. QED  BY <1>1

\* A map that follows a set of instructions, and one that comes after them applied to
\* it: the result is a map and follows them all.
LEMMA AppliedFollows ==
    ASSUME NEW S \in SUBSET FsInstruction, NEW before \in FsMap, NEW i \in FsInstruction,
           \A j \in S : InstrLeq(j, i), \A p \in Path : Follows(S, before, p)
    PROVE  /\ ApplyInstruction(before, i) \in FsMap
           /\ \A p \in Path : Follows(S \cup {i}, ApplyInstruction(before, i), p)
<1> DEFINE p == i.path
           T == S \cup {i}
           after == ApplyInstruction(before, i)
<1>1. p \in Path /\ i.tag \in Tags
  BY InstructionFields
<1>2. StepAt(S, T, before, i)
  BY <1>1 DEF StepAt
<1>3. CASE i.tag = "Remove"
  <2> DEFINE node == [FreshNode(Removed, DEFAULT_FILE_MODE) EXCEPT !.removed_before_added = TRUE]
  <2>1. node \in FsNode /\ node # NoNode
    BY NodeTypes, ValueAssumption DEF FsNode, FreshNode
  <2>2. after = [before EXCEPT ![p] = node]
    BY <1>3 DEF ApplyInstruction, RemoveNode, CreateTags
  <2>3. after \in FsMap /\ after[p] = node /\ \A q \in Path : q # p => after[q] = before[q]
    BY <1>1, <2>1, <2>2 DEF FsMap
  <2>. HIDE DEF after, T
  <2>4. Follows(T, after, p)
    BY <1>2, <1>3, <2>1, <2>3, RemovedPath
  <2>5. i.tag \notin CreateTags
    BY <1>3 DEF CreateTags
  <2>. QED  BY <1>2, <2>3, <2>4, <2>5, AppliedAtPath DEF after, T
<1>4. CASE i.tag \in CreateTags
  <2> DEFINE new == FreshNode(CreatedEntry(i), DefaultMode(i.tag))
             parents == WithParents(before, p)
             node == [new EXCEPT !.removed_before_added = parents[p].removed_before_added]
  <2>1. new \in FsNode /\ new # NoNode
    BY <1>4, CreatedEntries, NodeTypes
  <2>2. FreshNode(Directory, DEFAULT_DIR_MODE) \in FsNode
    BY NodeTypes, ValueAssumption
  <2>3. parents \in [Path -> FsNode \cup {NoNode}] /\ parents[p] \in FsNode
        /\ parents[p] = IF before[p] = NoNode THEN FreshNode(Directory, DEFAULT_DIR_MODE) ELSE before[p]
    BY <1>1, <2>2, PathAssumption, NodeTypes DEF WithParents, FsMap
  <2>4. parents[p].removed_before_added \in BOOLEAN
    BY <2>3 DEF FsNode
  <2>5. node \in FsNode
    BY <2>1, <2>4 DEF FsNode
  <2>6. after = [parents EXCEPT ![p] = node]
    BY <1>4 DEF ApplyInstruction, ReplaceNode, CreateTags
  <2>7. after \in FsMap /\ after[p] = node /\ after[p] # NoNode
    BY <1>1, <2>3, <2>5, <2>6, NodeTypes DEF FsMap
  <2>8. ASSUME NEW q \in Path, q # p
        PROVE  after[q] = IF q \in StrictAncestors(p) /\ before[q] = NoNode
                          THEN FreshNode(Directory, DEFAULT_DIR_MODE) ELSE before[q]
    <3>1. after[q] = parents[q]
      BY <2>3, <2>6, <2>8
    <3>. QED  BY <2>8, <3>1 DEF WithParents, StrictAncestors
  <2>9. /\ after[p].entry = CreatedEntry(i)
        /\ after[p].mode = DefaultMode(i.tag)
        /\ after[p].owner = ROOT
        /\ after[p].group = ROOT
        /\ after[p].removed_before_added
              = IF before[p] = NoNode THEN FALSE ELSE before[p].removed_before_added
    BY <2>3, <2>7 DEF FreshNode
  <2>. HIDE DEF after, T
  <2>10. Follows(T, after, p)
    BY <1>2, <1>4, <2>7, <2>9, CreatedPath
  <2>. QED  BY <1>2, <1>4, <2>7, <2>8, <2>10, AppliedAtPath DEF after, T
<1>5. CASE i.tag \in MetaTags
  <2> DEFINE old == NodeOr(before, p, UnchangedNode)
             new == IF i.tag = "SetMode" THEN [old EXCEPT !.mode = i.arg]
                    ELSE IF i.tag = "SetOwner" THEN [old EXCEPT !.owner = i.arg]
                    ELSE [old EXCEPT !.group = i.arg]
  <2>1. old \in FsNode
    BY <1>1, NodeTypes DEF NodeOr, FsMap
  <2>2. i.tag = "SetMode" => i.arg \in Mode
    BY DEF FsInstruction
  <2>3. i.tag \in {"SetOwner", "SetGroup"} => i.arg \in Name
    BY DEF FsInstruction
  <2>4. after = [before EXCEPT ![p] = new]
    BY <1>5 DEF ApplyInstruction, WithMode, WithOwner, WithGroup, CreateTags, MetaTags
  <2>. HIDE DEF old
  <2>5. new \in FsNode
    BY <1>5, <2>1, <2>2, <2>3 DEF FsNode, MetaTags
  <2>6. ChangedFrom(i, old, new)
    BY <1>5, <2>1 DEF FsNode, ChangedFrom, MetaTags
  <2>. HIDE DEF new
  <2>7. after \in FsMap /\ after[p] = new /\ new # NoNode /\ \A q \in Path : q # p => after[q] = before[q]
    BY <1>1, <2>4, <2>5, NodeTypes DEF FsMap
  <2>. HIDE DEF after, T
  <2>8. Follows(T, after, p)
    BY <1>2, <1>5, <2>6, <2>7, ChangedPath DEF old
  <2>9. i.tag \notin CreateTags
    BY <1>5 DEF CreateTags, MetaTags
  <2>. QED  BY <1>2, <2>7, <2>8, <2>9, AppliedAtPath DEF after, T
<1>6. CASE i.tag \in {"Restore", "Comment"}
  <2>1. after = before
    BY <1>6 DEF ApplyInstruction, CreateTags
  <2>2. i.tag \notin CreateTags
    BY <1>6 DEF CreateTags
  <2>. HIDE DEF after, T
  <2>3. Follows(T, after, p)
    BY <1>2, <1>6, <2>1, PassedOverPath
  <2>. QED  BY <1>2, <2>1, <2>2, <2>3, AppliedAtPath DEF after, T
<1>. QED  BY <1>1, <1>3, <1>4, <1>5, <1>6, TagRanks

-----------------------------------------------------------------------------
(* The fold *)

Greatest(S) == CHOOSE i \in S : \A j \in S : InstrLeq(j, i)

\* The recursion by which BuildMap is defined.
Solves(instrs, f) ==
    f = [S \in SUBSET instrs |->
            IF S = {} THEN EmptyMap ELSE After(f[S \ {Greatest(S)}], Greatest(S))]

\* What solves the recursion of BuildMap over a set, and is the only one to, is BuildMap.
LEMMA BuiltBySolution ==
    ASSUME NEW instrs, NEW f, Solves(instrs, f),
           \A g : Solves(instrs, g) => f = g
    PROVE  BuildMap(instrs) = f[instrs]
<1>1. BuildMap(instrs) = (CHOOSE g : Solves(instrs, g))[instrs]
  BY DEF BuildMap, Solves, Greatest
<1>. QED  BY <1>1

\* A solution applies one instruction after the other.
LEMMA SolvesIs ==
    ASSUME NEW instrs, NEW f
    PROVE  Solves(instrs, f) <=>
             f = [S \in SUBSET instrs |->
                     IF S = {} THEN EmptyMap ELSE ApplyInstruction(f[S \ {Greatest(S)}], Greatest(S))]
<1>1. \A m, i : After(m, i) = ApplyInstruction(m, i)
  BY DEF After
<1>. QED  BY <1>1 DEF Solves

\* A solution at a set of instructions.
LEMMA SolutionAt ==
    ASSUME NEW instrs, NEW f, Solves(instrs, f), NEW S \in SUBSET instrs
    PROVE  f[S] = IF S = {} THEN EmptyMap ELSE ApplyInstruction(f[S \ {Greatest(S)}], Greatest(S))
<1> DEFINE Value(T) == IF T = {} THEN EmptyMap ELSE ApplyInstruction(f[T \ {Greatest(T)}], Greatest(T))
<1>1. f = [T \in SUBSET instrs |-> Value(T)]
  BY SolvesIs
<1>. HIDE DEF Value
<1>2. f[S] = Value(S)
  BY <1>1
<1>. QED  BY <1>2 DEF Value

\* What comes after a set is the last of every part it is in.
LEMMA LastIsGreatest ==
    ASSUME NEW A \in SUBSET FsInstruction, NEW i \in FsInstruction, \A j \in A : InstrLeq(j, i),
           NEW S \in SUBSET (A \cup {i}), i \in S
    PROVE  Greatest(S) = i
<1>1. InstrLeq(i, i)
  <2>1. i.arg \in Arg
    BY InstructionFields
  <2>2. ArgRank[i.arg] \in Nat
    BY <2>1, ValueAssumption
  <2>. QED  BY <2>2 DEF InstrLeq
<1>2. \A j \in S : InstrLeq(j, i)
  BY <1>1
<1>3. Greatest(S) \in S /\ \A j \in S : InstrLeq(j, Greatest(S))
  BY <1>2 DEF Greatest
<1>4. Greatest(S) \in FsInstruction /\ InstrLeq(i, Greatest(S)) /\ InstrLeq(Greatest(S), i)
  BY <1>2, <1>3
<1>5. PathRank[i.path] \in Nat /\ PathRank[Greatest(S).path] \in Nat
  BY <1>4, InstructionFields, PathAssumption
<1>6. i.path = Greatest(S).path
  BY <1>4, <1>5 DEF InstrLeq
<1>. QED  BY <1>4, <1>6, OrderAntisymmetric

\* One instruction more: the solution is extended in one way only.
LEMMA OneMore ==
    ASSUME NEW A \in SUBSET FsInstruction, NEW i \in FsInstruction, i \notin A,
           \A j \in A : InstrLeq(j, i),
           \E f : Solves(A, f),
           \A f, g : Solves(A, f) /\ Solves(A, g) => f = g
    PROVE  /\ \E f : Solves(A \cup {i}, f)
           /\ \A f, g : Solves(A \cup {i}, f) /\ Solves(A \cup {i}, g) => f = g
           /\ BuildMap(A \cup {i}) = ApplyInstruction(BuildMap(A), i)
<1> DEFINE B == A \cup {i}
<1>1. \A S \in SUBSET B : i \in S => Greatest(S) = i /\ S \ {i} \in SUBSET A
  BY LastIsGreatest
<1>2. \A S \in SUBSET B : i \notin S => S \in SUBSET A
  OBVIOUS
<1>3. \A S \in SUBSET A : S \in SUBSET B /\ i \notin S /\ S \ {Greatest(S)} \in SUBSET A
  OBVIOUS
<1>4. \E g : Solves(B, g)
  <2>1. PICK f : Solves(A, f)
    OBVIOUS
  <2> DEFINE g == [S \in SUBSET B |-> IF i \in S THEN ApplyInstruction(f[S \ {i}], i) ELSE f[S]]
             Value(S) == IF S = {} THEN EmptyMap ELSE ApplyInstruction(g[S \ {Greatest(S)}], Greatest(S))
  <2>2. \A S \in SUBSET A : g[S] = f[S]
    BY <1>3
  <2>3. ASSUME NEW S \in SUBSET B PROVE g[S] = Value(S)
    <3>1. CASE i \in S
      <4>1. g[S] = ApplyInstruction(f[S \ {i}], i) /\ Greatest(S) = i /\ g[S \ {i}] = f[S \ {i}]
        BY <1>1, <2>2, <3>1
      <4>. HIDE DEF g
      <4>. QED  BY <3>1, <4>1
    <3>2. CASE i \notin S
      <4>1. S \in SUBSET A /\ S \ {Greatest(S)} \in SUBSET A
        BY <3>2
      <4>2. g[S] = f[S] /\ g[S \ {Greatest(S)}] = f[S \ {Greatest(S)}]
        BY <2>2, <4>1
      <4>3. f[S] = IF S = {} THEN EmptyMap ELSE ApplyInstruction(f[S \ {Greatest(S)}], Greatest(S))
        BY <2>1, <4>1, SolutionAt
      <4>. HIDE DEF g
      <4>. QED  BY <4>2, <4>3
    <3>. QED  BY <3>1, <3>2
  <2>4. g = [S \in SUBSET B |-> g[S]]
    OBVIOUS
  <2>. HIDE DEF g
  <2>5. g = [S \in SUBSET B |-> Value(S)]
    BY <2>3, <2>4
  <2>6. Solves(B, g)
    BY <2>5, SolvesIs
  <2>. QED  BY <2>6
<1>5. ASSUME NEW g, Solves(B, g), NEW f, Solves(A, f)
      PROVE  /\ \A S \in SUBSET A : g[S] = f[S]
             /\ \A S \in SUBSET B : i \in S => g[S] = ApplyInstruction(f[S \ {i}], i)
  <2> DEFINE h == [S \in SUBSET A |-> g[S]]
             Value(S) == IF S = {} THEN EmptyMap ELSE ApplyInstruction(h[S \ {Greatest(S)}], Greatest(S))
  <2>1. ASSUME NEW S \in SUBSET A PROVE h[S] = Value(S)
    <3>1. h[S] = g[S] /\ h[S \ {Greatest(S)}] = g[S \ {Greatest(S)}]
      BY <1>3
    <3>2. S \in SUBSET B
      OBVIOUS
    <3>. HIDE DEF h, B
    <3>3. g[S] = IF S = {} THEN EmptyMap ELSE ApplyInstruction(g[S \ {Greatest(S)}], Greatest(S))
      BY <1>5, <3>2, SolutionAt
    <3>. QED  BY <3>1, <3>3
  <2>2. h = [S \in SUBSET A |-> h[S]]
    OBVIOUS
  <2>3. \A S \in SUBSET A : h[S] = g[S]
    OBVIOUS
  <2>. HIDE DEF h
  <2>4. h = [S \in SUBSET A |-> Value(S)]
    BY <2>1, <2>2
  <2>5. Solves(A, h)
    BY <2>4, SolvesIs
  <2>6. h = f
    BY <1>5, <2>5
  <2>7. ASSUME NEW S \in SUBSET B, i \in S PROVE g[S] = ApplyInstruction(f[S \ {i}], i)
    <3>1. g[S] = ApplyInstruction(g[S \ {Greatest(S)}], Greatest(S))
      BY <1>5, <2>7, SolutionAt
    <3>2. Greatest(S) = i /\ S \ {i} \in SUBSET A
      BY <1>1, <2>7
    <3>3. g[S \ {i}] = f[S \ {i}]
      BY <2>3, <2>6, <3>2
    <3>. QED  BY <3>1, <3>2, <3>3
  <2>. QED  BY <2>3, <2>6, <2>7
<1>6. ASSUME NEW f, NEW g, Solves(B, f), Solves(B, g) PROVE f = g
  <2>1. PICK h : Solves(A, h)
    OBVIOUS
  <2>2. \A S \in SUBSET B : f[S] = g[S]
    <3>1. /\ \A S \in SUBSET A : f[S] = h[S]
          /\ \A S \in SUBSET B : i \in S => f[S] = ApplyInstruction(h[S \ {i}], i)
      BY <1>5, <1>6, <2>1
    <3>2. /\ \A S \in SUBSET A : g[S] = h[S]
          /\ \A S \in SUBSET B : i \in S => g[S] = ApplyInstruction(h[S \ {i}], i)
      BY <1>5, <1>6, <2>1
    <3>. HIDE DEF B
    <3>. QED  BY <1>2, <3>1, <3>2
  <2>3. f = [S \in SUBSET B |-> f[S]] /\ g = [S \in SUBSET B |-> g[S]]
    BY <1>6, SolvesIs
  <2>. HIDE DEF B
  <2>. QED  BY <2>2, <2>3
<1>7. BuildMap(B) = ApplyInstruction(BuildMap(A), i)
  <2>1. PICK f : Solves(A, f)
    OBVIOUS
  <2>2. PICK g : Solves(B, g)
    BY <1>4
  <2>3. BuildMap(A) = f[A]
    BY <2>1, BuiltBySolution
  <2>4. BuildMap(B) = g[B]
    BY <1>6, <2>2, BuiltBySolution
  <2>5. B \ {i} = A /\ i \in B /\ B \in SUBSET B
    OBVIOUS
  <2>6. g[B] = ApplyInstruction(f[B \ {i}], i)
    <3>. HIDE DEF B
    <3>. QED  BY <1>5, <2>1, <2>2, <2>5
  <2>. QED  BY <2>3, <2>4, <2>5, <2>6
<1>. QED  BY <1>4, <1>6, <1>7

\* Each kind of instruction, applied twice, does what it did at first.
LEMMA AppliedTwice ==
    ASSUME NEW m \in FsMap, NEW i \in FsInstruction
    PROVE  ApplyInstruction(ApplyInstruction(m, i), i) = ApplyInstruction(m, i)
<1>1. i.path \in Path /\ i.tag \in Tags
  BY InstructionFields
<1> DEFINE p == i.path
<1>2. CASE i.tag = "Remove"
  <2> DEFINE node == [FreshNode(Removed, DEFAULT_FILE_MODE) EXCEPT !.removed_before_added = TRUE]
  <2>1. \A n : ApplyInstruction(n, i) = [n EXCEPT ![p] = node]
    BY <1>2 DEF ApplyInstruction, RemoveNode, CreateTags
  <2>. HIDE DEF node
  <2>. QED  BY <1>1, <2>1 DEF FsMap
<1>3. CASE i.tag \in CreateTags
  <2> DEFINE new == FreshNode(CreatedEntry(i), DefaultMode(i.tag))
             fresh == FreshNode(Directory, DEFAULT_DIR_MODE)
             w == WithParents(m, p)
             r == ReplaceNode(m, p, new)
             w2 == WithParents(r, p)
  <2>1. new \in FsNode /\ fresh \in FsNode
    BY <1>3, CreatedEntries, NodeTypes, ValueAssumption
  <2>2. \A n : ApplyInstruction(n, i) = ReplaceNode(n, p, new)
    BY <1>3 DEF ApplyInstruction, CreateTags
  <2>3. /\ w \in [Path -> FsNode \cup {NoNode}]
        /\ \A q \in Path : w[q] = IF q \in Ancestors[p] /\ m[q] = NoNode THEN fresh ELSE m[q]
    BY <2>1 DEF WithParents, FsMap
  <2>. HIDE DEF w, new
  <2> DEFINE node == [new EXCEPT !.removed_before_added = w[p].removed_before_added]
  <2>4. r = [w EXCEPT ![p] = node]
    BY DEF ReplaceNode, w
  <2>5. w[p] \in FsNode
    BY <1>1, <2>1, <2>3, PathAssumption
  <2>6. node \in FsNode /\ node.removed_before_added = w[p].removed_before_added
    BY <2>1, <2>5 DEF FsNode
  <2>7. [new EXCEPT !.removed_before_added = node.removed_before_added] = node
    BY <2>6
  <2>. HIDE DEF node, r, fresh
  <2>8. r \in [Path -> FsNode \cup {NoNode}] /\ r[p] = node /\ \A q \in Path : q # p => r[q] = w[q]
    BY <1>1, <2>3, <2>4, <2>6
  <2>9. \A q \in Ancestors[p] : r[q] # NoNode
    <3>1. fresh # NoNode /\ node # NoNode
      BY <2>1, <2>6, NodeAssumption
    <3>2. Ancestors[p] \subseteq Path
      BY <1>1, PathAssumption
    <3>. QED  BY <2>3, <2>8, <3>1, <3>2
  <2>10. w2 = [q \in Path |-> r[q]]
    BY <2>9 DEF WithParents
  <2>11. w2 = r
    BY <2>8, <2>10
  <2>12. ReplaceNode(r, p, new) = [r EXCEPT ![p] = node]
    BY <2>7, <2>8, <2>11 DEF ReplaceNode
  <2>13. ReplaceNode(r, p, new) = r
    BY <2>8, <2>12
  <2>. QED  BY <2>2, <2>13 DEF r
<1>4. CASE i.tag = "SetMode"
  <2> DEFINE old == NodeOr(m, p, UnchangedNode)
             n == [old EXCEPT !.mode = i.arg]
             r == [m EXCEPT ![p] = n]
  <2>1. old \in FsNode /\ i.arg \in Mode
    BY <1>1, <1>4, NodeTypes DEF NodeOr, FsMap, FsInstruction
  <2>2. \A x : ApplyInstruction(x, i) = [x EXCEPT ![p] = [NodeOr(x, p, UnchangedNode) EXCEPT !.mode = i.arg]]
    BY <1>4 DEF ApplyInstruction, CreateTags, WithMode
  <2>. HIDE DEF old
  <2>3. n \in FsNode /\ [n EXCEPT !.mode = i.arg] = n
    BY <2>1 DEF FsNode
  <2>4. ApplyInstruction(m, i) = r
    BY <2>2 DEF old
  <2>. HIDE DEF n
  <2>5. r \in FsMap /\ r[p] = n /\ n # NoNode
    BY <1>1, <2>3, NodeTypes DEF FsMap
  <2>. HIDE DEF r
  <2>6. ApplyInstruction(r, i) = [r EXCEPT ![p] = n]
    BY <2>2, <2>3, <2>5 DEF NodeOr
  <2>. QED  BY <2>4, <2>5, <2>6 DEF FsMap
<1>5. CASE i.tag = "SetOwner"
  <2> DEFINE old == NodeOr(m, p, UnchangedNode)
             n == [old EXCEPT !.owner = i.arg]
             r == [m EXCEPT ![p] = n]
  <2>1. old \in FsNode /\ i.arg \in Name
    BY <1>1, <1>5, NodeTypes DEF NodeOr, FsMap, FsInstruction
  <2>2. \A x : ApplyInstruction(x, i) = [x EXCEPT ![p] = [NodeOr(x, p, UnchangedNode) EXCEPT !.owner = i.arg]]
    BY <1>5 DEF ApplyInstruction, CreateTags, WithOwner
  <2>. HIDE DEF old
  <2>3. n \in FsNode /\ [n EXCEPT !.owner = i.arg] = n
    BY <2>1 DEF FsNode
  <2>4. ApplyInstruction(m, i) = r
    BY <2>2 DEF old
  <2>. HIDE DEF n
  <2>5. r \in FsMap /\ r[p] = n /\ n # NoNode
    BY <1>1, <2>3, NodeTypes DEF FsMap
  <2>. HIDE DEF r
  <2>6. ApplyInstruction(r, i) = [r EXCEPT ![p] = n]
    BY <2>2, <2>3, <2>5 DEF NodeOr
  <2>. QED  BY <2>4, <2>5, <2>6 DEF FsMap
<1>6. CASE i.tag = "SetGroup"
  <2> DEFINE old == NodeOr(m, p, UnchangedNode)
             n == [old EXCEPT !.group = i.arg]
             r == [m EXCEPT ![p] = n]
  <2>1. old \in FsNode /\ i.arg \in Name
    BY <1>1, <1>6, NodeTypes DEF NodeOr, FsMap, FsInstruction
  <2>2. \A x : ApplyInstruction(x, i) = [x EXCEPT ![p] = [NodeOr(x, p, UnchangedNode) EXCEPT !.group = i.arg]]
    BY <1>6 DEF ApplyInstruction, CreateTags, WithGroup
  <2>. HIDE DEF old
  <2>3. n \in FsNode /\ [n EXCEPT !.group = i.arg] = n
    BY <2>1 DEF FsNode
  <2>4. ApplyInstruction(m, i) = r
    BY <2>2 DEF old
  <2>. HIDE DEF n
  <2>5. r \in FsMap /\ r[p] = n /\ n # NoNode
    BY <1>1, <2>3, NodeTypes DEF FsMap
  <2>. HIDE DEF r
  <2>6. ApplyInstruction(r, i) = [r EXCEPT ![p] = n]
    BY <2>2, <2>3, <2>5 DEF NodeOr
  <2>. QED  BY <2>4, <2>5, <2>6 DEF FsMap
<1>7. CASE i.tag \in {"Restore", "Comment"}
  BY <1>7 DEF ApplyInstruction, CreateTags
<1>. QED  BY <1>1, <1>2, <1>3, <1>4, <1>5, <1>6, <1>7, TagRanks DEF MetaTags

\* No instruction: there is one solution, and it gives the empty map.
LEMMA NoneSolves ==
    /\ \E f : Solves({}, f)
    /\ \A f, g : Solves({}, f) /\ Solves({}, g) => f = g
    /\ BuildMap({}) = EmptyMap
<1> DEFINE start == [S \in SUBSET {} |-> EmptyMap]
<1>1. ASSUME NEW f, Solves({}, f) PROVE f = start
  <2>1. f = [S \in SUBSET {} |-> f[S]]
    BY <1>1, SolvesIs
  <2>2. \A S \in SUBSET {} : f[S] = EmptyMap
    BY <1>1, SolutionAt
  <2>. QED  BY <2>1, <2>2
<1>2. Solves({}, start)
  <2> DEFINE Value(S) == IF S = {} THEN EmptyMap
                         ELSE ApplyInstruction(start[S \ {Greatest(S)}], Greatest(S))
  <2>1. \A S \in SUBSET {} : EmptyMap = Value(S)
    OBVIOUS
  <2>2. start = [S \in SUBSET {} |-> Value(S)]
    BY <2>1
  <2>. QED  BY <2>2, SolvesIs
<1>3. start[{}] = EmptyMap
  OBVIOUS
<1>. HIDE DEF start
<1>4. BuildMap({}) = EmptyMap
  BY <1>1, <1>2, <1>3, BuiltBySolution
<1>. QED  BY <1>1, <1>2, <1>4

\* It follows the empty set.
LEMMA EmptyFollows ==
    BuildMap({}) \in FsMap /\ \A p \in Path : Follows({}, BuildMap({}), p)
<1>1. \A p, tags : OnPath({}, p, tags) = {} /\ ~CreatedBelow({}, p)
  BY DEF OnPath, CreatedBelow
<1>2. BuildMap({}) \in FsMap /\ \A p \in Path : BuildMap({})[p] = NoNode
  BY NoneSolves DEF EmptyMap, FsMap
<1>. QED  BY <1>1, <1>2 DEF Follows, EntryFollows, RemovalRemembered, MetadataFollows

-----------------------------------------------------------------------------
(* Induction over finite sets of instructions *)

\* Of any finite sets there is one that no other is part of.
LEMMA SmallestSet ==
    ASSUME NEW W, NEW bad, bad \subseteq FiniteSubsetsOf(W), bad # {}
    PROVE  \E S \in bad : \A R \in bad : R \subseteq S => R = S
<1>1. IsWellFoundedOn(StrictSubsetOrdering(W), FiniteSubsetsOf(W))
  BY FS_StrictSubsetOrderingWellFounded
<1>2. PICK S \in bad : \A R \in bad : ~(<<R, S>> \in StrictSubsetOrdering(W))
  BY <1>1, WFMin
<1>3. ASSUME NEW R \in bad, R \subseteq S PROVE R = S
  BY <1>2, <1>3 DEF StrictSubsetOrdering, FiniteSubsetsOf
<1>. QED  BY <1>3

\* Instructions are ordered totally, and transitively.
LEMMA OrderTotal ==
    /\ \A i, j \in FsInstruction : InstrLeq(i, j) \/ InstrLeq(j, i)
    /\ \A i, j, k \in FsInstruction : InstrLeq(i, j) /\ InstrLeq(j, k) => InstrLeq(i, k)
<1>1. \A i \in FsInstruction :
        /\ i.path \in Path /\ PathRank[i.path] \in Nat /\ TagRank[i.tag] \in Nat /\ i.tag \in Tags
        /\ ArgRank[i.arg] \in Nat
  BY InstructionFields, PathAssumption, TagOrder, ValueAssumption
<1>2. ASSUME NEW i \in FsInstruction, NEW j \in FsInstruction
      PROVE  InstrLeq(i, j) \/ InstrLeq(j, i)
  <2>1. PathRank[i.path] = PathRank[j.path] => i.path = j.path
    BY <1>1, PathAssumption
  <2>2. TagRank[i.tag] = TagRank[j.tag] => i.tag = j.tag
    BY <1>1, TagOrder
  <2>. QED  BY <1>1, <2>1, <2>2 DEF InstrLeq
<1>3. ASSUME NEW i \in FsInstruction, NEW j \in FsInstruction, NEW k \in FsInstruction,
             InstrLeq(i, j), InstrLeq(j, k)
      PROVE  InstrLeq(i, k)
  BY <1>1, <1>3 DEF InstrLeq
<1>. QED  BY <1>2, <1>3

\* A finite set of instructions has a last one.
LEMMA HasGreatest ==
    ASSUME NEW S \in SUBSET FsInstruction, IsFiniteSet(S), S # {}
    PROVE  Greatest(S) \in S /\ \A j \in S : InstrLeq(j, Greatest(S))
<1> DEFINE Has(R) == \E i \in R : \A j \in R : InstrLeq(j, i)
           bad == {R \in FiniteSubsetsOf(FsInstruction) : R # {} /\ ~Has(R)}
<1>1. bad = {}
  <2>1. SUFFICES ASSUME bad # {} PROVE FALSE
    OBVIOUS
  <2>2. PICK R \in bad : \A Q \in bad : Q \subseteq R => Q = R
    <3>1. bad \subseteq FiniteSubsetsOf(FsInstruction)
      OBVIOUS
    <3>. HIDE DEF bad
    <3>. QED  BY <2>1, <3>1, SmallestSet
  <2>3. R \subseteq FsInstruction /\ IsFiniteSet(R)
    BY DEF FiniteSubsetsOf
  <2>4. PICK i \in R : TRUE
    OBVIOUS
  <2> DEFINE Q == R \ {i}
  <2>5. IsFiniteSet(Q) /\ Q \in FiniteSubsetsOf(FsInstruction) /\ Q # R
    BY <2>3, FS_Subset DEF FiniteSubsetsOf
  <2>6. CASE Q = {}
    <3>1. \A j \in R : j = i
      BY <2>6
    <3>2. InstrLeq(i, i)
      BY <2>3, OrderTotal
    <3>. QED  BY <3>1, <3>2
  <2>7. CASE Q # {}
    <3>1. Has(Q)
      BY <2>2, <2>5, <2>7
    <3>2. PICK k \in Q : \A j \in Q : InstrLeq(j, k)
      BY <3>1
    <3>3. \A j \in R : j = i \/ j \in Q
      OBVIOUS
    <3>4. CASE InstrLeq(i, k)
      BY <3>2, <3>3, <3>4
    <3>5. CASE InstrLeq(k, i)
      <4>1. \A j \in Q : InstrLeq(j, i)
        BY <2>3, <3>2, <3>5, OrderTotal
      <4>2. InstrLeq(i, i)
        BY <2>3, OrderTotal
      <4>. QED  BY <3>3, <4>1, <4>2
    <3>. QED  BY <2>3, <3>2, <3>4, <3>5, OrderTotal
  <2>. QED  BY <2>6, <2>7
<1>2. Has(S)
  BY <1>1 DEF FiniteSubsetsOf
<1>. QED  BY <1>2 DEF Greatest

\* The recursion that defines BuildMap has one solution on every finite set.
LEMMA OneSolution ==
    ASSUME NEW S \in SUBSET FsInstruction, IsFiniteSet(S)
    PROVE  /\ \E f : Solves(S, f)
           /\ \A f, g : Solves(S, f) /\ Solves(S, g) => f = g
<1> DEFINE One(R) == (\E f : Solves(R, f)) /\ \A f, g : Solves(R, f) /\ Solves(R, g) => f = g
           bad == {R \in FiniteSubsetsOf(FsInstruction) : ~One(R)}
<1>1. bad = {}
  <2>1. SUFFICES ASSUME bad # {} PROVE FALSE
    OBVIOUS
  <2>2. PICK R \in bad : \A Q \in bad : Q \subseteq R => Q = R
    <3>1. bad \subseteq FiniteSubsetsOf(FsInstruction)
      OBVIOUS
    <3>. HIDE DEF bad
    <3>. QED  BY <2>1, <3>1, SmallestSet
  <2>3. R \subseteq FsInstruction /\ IsFiniteSet(R)
    BY DEF FiniteSubsetsOf
  <2>4. R # {}
    BY NoneSolves
  <2> DEFINE i == Greatest(R)
             Q == R \ {i}
  <2>5. i \in R /\ \A j \in R : InstrLeq(j, i)
    BY <2>3, <2>4, HasGreatest
  <2>. HIDE DEF i
  <2>6. Q \in FiniteSubsetsOf(FsInstruction) /\ Q # R /\ Q \subseteq R /\ R = Q \cup {i}
    BY <2>3, <2>5, FS_Subset DEF FiniteSubsetsOf
  <2>7. One(Q)
    BY <2>2, <2>6
  <2>8. i \in FsInstruction /\ i \notin Q /\ Q \in SUBSET FsInstruction /\ \A j \in Q : InstrLeq(j, i)
    BY <2>3, <2>5
  <2>. HIDE DEF Q
  <2>9. One(Q \cup {i})
    BY <2>7, <2>8, OneMore
  <2>. QED  BY <2>6, <2>9
<1>2. One(S)
  BY <1>1 DEF FiniteSubsetsOf
<1>. QED  BY <1>2

\* An instruction that comes after a finite set is applied to what the set builds.
LEMMA BuildMapStep ==
    ASSUME NEW S \in SUBSET FsInstruction, IsFiniteSet(S), NEW i \in FsInstruction, i \notin S,
           \A j \in S : InstrLeq(j, i)
    PROVE  BuildMap(S \cup {i}) = ApplyInstruction(BuildMap(S), i)
  BY OneSolution, OneMore

\* Whatever instructions there are, the map that apply_instructions builds of them is a
\* map, and every path is in it what the instructions say of it.
THEOREM BuildMapFollows ==
    ASSUME NEW S \in SUBSET FsInstruction, IsFiniteSet(S)
    PROVE  /\ BuildMap(S) \in FsMap
           /\ \A p \in Path : Follows(S, BuildMap(S), p)
<1> DEFINE Good(R) == BuildMap(R) \in FsMap /\ \A p \in Path : Follows(R, BuildMap(R), p)
           bad == {R \in FiniteSubsetsOf(FsInstruction) : ~Good(R)}
<1>1. bad = {}
  <2>1. SUFFICES ASSUME bad # {} PROVE FALSE
    OBVIOUS
  <2>2. PICK R \in bad : \A Q \in bad : Q \subseteq R => Q = R
    <3>1. bad \subseteq FiniteSubsetsOf(FsInstruction)
      OBVIOUS
    <3>. HIDE DEF bad
    <3>. QED  BY <2>1, <3>1, SmallestSet
  <2>3. R \subseteq FsInstruction /\ IsFiniteSet(R)
    BY DEF FiniteSubsetsOf
  <2>4. R # {}
    BY EmptyFollows
  <2> DEFINE i == Greatest(R)
             Q == R \ {i}
  <2>5. i \in R /\ \A j \in R : InstrLeq(j, i)
    BY <2>3, <2>4, HasGreatest
  <2>. HIDE DEF i
  <2>6. Q \in FiniteSubsetsOf(FsInstruction) /\ IsFiniteSet(Q) /\ Q # R /\ Q \subseteq R /\ R = Q \cup {i}
    BY <2>3, <2>5, FS_Subset DEF FiniteSubsetsOf
  <2>7. Good(Q)
    BY <2>2, <2>6
  <2>8. i \in FsInstruction /\ i \notin Q /\ Q \in SUBSET FsInstruction /\ \A j \in Q : InstrLeq(j, i)
    BY <2>3, <2>5
  <2>. HIDE DEF Q
  <2>9. BuildMap(R) = ApplyInstruction(BuildMap(Q), i)
    BY <2>6, <2>8, BuildMapStep
  <2>10. Good(R)
    BY <2>6, <2>7, <2>8, <2>9, AppliedFollows
  <2>. QED  BY <2>10
<1>2. Good(S)
  BY <1>1 DEF FiniteSubsetsOf
<1>. QED  BY <1>2

-----------------------------------------------------------------------------
(* What a map says of a path *)

\* The instructions behind an entry.
LEMMA EntryFrom ==
    ASSUME NEW S \in SUBSET FsInstruction, IsFiniteSet(S), NEW m, NEW p \in Path, Follows(S, m, p)
    PROVE  \/ /\ m[p] = NoNode
              /\ OnPath(S, p, CreateTags \cup MetaTags \cup {"Remove"}) = {} /\ ~CreatedBelow(S, p)
           \/ /\ m[p] # NoNode
              /\ \E k \in OnPath(S, p, CreateTags) : Latest(S, k, CreateTags) /\ m[p].entry = CreatedEntry(k)
           \/ /\ m[p] # NoNode /\ m[p].entry = Removed
              /\ OnPath(S, p, CreateTags) = {} /\ OnPath(S, p, {"Remove"}) # {}
           \/ /\ m[p] # NoNode /\ m[p].entry = Unchanged
              /\ OnPath(S, p, CreateTags \cup {"Remove"}) = {} /\ OnPath(S, p, MetaTags) # {}
           \/ /\ m[p] # NoNode /\ m[p] = FreshNode(Directory, DEFAULT_DIR_MODE)
              /\ OnPath(S, p, CreateTags \cup MetaTags \cup {"Remove"}) = {} /\ CreatedBelow(S, p)
<1>. DEFINE C == OnPath(S, p, CreateTags)
<1>1. EntryFollows(S, m, p)
  BY DEF Follows
<1>2. CASE C # {}
  <2>1. IsFiniteSet(C) /\ C \in SUBSET FsInstruction
    BY FS_Subset DEF OnPath
  <2>. DEFINE k == Greatest(C)
  <2>2. k \in C /\ \A j \in C : InstrLeq(j, k)
    BY <1>2, <2>1, HasGreatest
  <2>3. k.path = p
    BY <2>2 DEF OnPath
  <2>. HIDE DEF k
  <2>4. Latest(S, k, CreateTags)
    BY <2>2, <2>3 DEF Latest
  <2>. QED  BY <1>1, <2>2, <2>4 DEF EntryFollows
<1>3. CASE C = {} /\ OnPath(S, p, {"Remove"}) # {}
  BY <1>1, <1>3 DEF EntryFollows
<1>4. CASE OnPath(S, p, CreateTags \cup {"Remove"}) = {} /\ OnPath(S, p, MetaTags) # {}
  BY <1>1, <1>4 DEF EntryFollows
<1>5. CASE OnPath(S, p, CreateTags \cup MetaTags \cup {"Remove"}) = {}
  <2>1. FreshNode(Directory, DEFAULT_DIR_MODE) # NoNode
    BY CreatedEntries, NodeTypes, ValueAssumption
  <2>. QED  BY <1>1, <1>5, <2>1 DEF EntryFollows
<1>. QED  BY <1>2, <1>3, <1>4, <1>5 DEF OnPath

\* The node of a path, from the instructions at that path.
LEMMA NodeRead ==
    ASSUME NEW S \in SUBSET FsInstruction, NEW m, NEW p \in Path, Follows(S, m, p),
           NEW I, I = {i \in S : i.path = p}
    PROVE  /\ \A k \in I :
                 /\ k.tag \in CreateTags
                 /\ \A j \in I : j.tag \in CreateTags => j = k \/ TagRank[j.tag] < TagRank[k.tag]
                 => m[p] # NoNode /\ m[p].entry = CreatedEntry(k)
           /\ (\A i \in I : i.tag \notin CreateTags) /\ (\E i \in I : i.tag = "Remove") =>
                 m[p] # NoNode /\ m[p].entry = Removed
           /\ (\A i \in I : i.tag \notin CreateTags \cup {"Remove"}) /\ (\E i \in I : i.tag \in MetaTags) =>
                 m[p] # NoNode /\ m[p].entry = Unchanged
           /\ (\A i \in I : i.tag \notin CreateTags \cup MetaTags \cup {"Remove"}) =>
                 m[p] = IF CreatedBelow(S, p) THEN FreshNode(Directory, DEFAULT_DIR_MODE) ELSE NoNode
           /\ m[p] # NoNode => (m[p].removed_before_added <=> \E i \in I : i.tag = "Remove")
<1>1. \A tags : OnPath(S, p, tags) = {i \in I : i.tag \in tags}
  BY DEF OnPath
<1>2. EntryFollows(S, m, p) /\ RemovalRemembered(S, m, p)
  BY DEF Follows
<1>3. ASSUME NEW k \in I, k.tag \in CreateTags,
             \A j \in I : j.tag \in CreateTags => j = k \/ TagRank[j.tag] < TagRank[k.tag]
      PROVE  m[p] # NoNode /\ m[p].entry = CreatedEntry(k)
  <2>1. k \in FsInstruction /\ k.path = p /\ \A j \in I : j \in FsInstruction /\ j.path = p
    OBVIOUS
  <2>2. Latest(S, k, CreateTags)
    <3>1. ASSUME NEW j \in I, j.tag \in CreateTags PROVE InstrLeq(j, k)
      <4>1. CASE j = k
        BY <2>1, <4>1, OrderTotal
      <4>2. CASE TagRank[j.tag] < TagRank[k.tag]
        BY <2>1, <4>2 DEF InstrLeq
      <4>. QED  BY <1>3, <3>1, <4>1, <4>2
    <3>. QED  BY <1>1, <2>1, <3>1 DEF Latest
  <2>. QED  BY <1>1, <1>2, <1>3, <2>2 DEF EntryFollows
<1>4. (\A i \in I : i.tag \notin CreateTags) /\ (\E i \in I : i.tag = "Remove") =>
                 m[p] # NoNode /\ m[p].entry = Removed
  BY <1>1, <1>2 DEF EntryFollows
<1>5. (\A i \in I : i.tag \notin CreateTags \cup {"Remove"}) /\ (\E i \in I : i.tag \in MetaTags) =>
                 m[p] # NoNode /\ m[p].entry = Unchanged
  BY <1>1, <1>2 DEF EntryFollows
<1>6. (\A i \in I : i.tag \notin CreateTags \cup MetaTags \cup {"Remove"}) =>
                 m[p] = IF CreatedBelow(S, p) THEN FreshNode(Directory, DEFAULT_DIR_MODE) ELSE NoNode
  BY <1>1, <1>2 DEF EntryFollows
<1>7. m[p] # NoNode => (m[p].removed_before_added <=> \E i \in I : i.tag = "Remove")
  BY <1>1, <1>2 DEF RemovalRemembered
<1>. QED  BY <1>3, <1>4, <1>5, <1>6, <1>7

\* A field of the node, when the instructions at the path agree on it.
LEMMA FieldRead ==
    ASSUME NEW S \in SUBSET FsInstruction, NEW p \in Path,
           NEW I, I = {i \in S : i.path = p}, NEW tag, NEW value, NEW implied,
           FieldFollows(S, p, tag, value, implied),
           \A i, j \in I : i.tag = tag /\ j.tag = tag => i.arg = j.arg
    PROVE  /\ \A i \in I : i.tag = tag => value = i.arg
           /\ (\A i \in I : i.tag # tag) => value = implied
<1>1. OnPath(S, p, {tag}) = {i \in I : i.tag = tag}
  BY DEF OnPath
<1>2. ASSUME NEW i \in I, i.tag = tag PROVE value = i.arg
  <2>1. ASSUME NEW j \in OnPath(S, p, {tag}) PROVE InstrLeq(j, i)
    <3>1. j = i
      BY <1>1, <1>2, <2>1, InstructionFields
    <3>. QED  BY <1>2, <3>1, OrderTotal
  <2>2. Latest(S, i, {tag})
    BY <1>2, <2>1 DEF Latest
  <2>. QED  BY <1>1, <1>2, <2>2 DEF FieldFollows
<1>. QED  BY <1>1, <1>2 DEF FieldFollows

\* The fields of a node.
LEMMA NodeFields ==
    ASSUME NEW x \in FsNode
    PROVE  /\ x.entry \in FsEntry
           /\ x.mode \in Mode \cup {None}
           /\ x.owner \in Name \cup {None} /\ x.group \in Name \cup {None}
           /\ x.removed_before_added \in BOOLEAN
           /\ x # NoNode
  BY NodeAssumption DEF FsNode

-----------------------------------------------------------------------------
(* The scan *)

Database == [Path -> PkgEntry \cup {None}]

\* Following a link, a call ends at a path or nowhere.
LEMMA ResolveType ==
    ASSUME NEW d \in DiskState, NEW p \in Path
    PROVE  Resolve(d, p) \in Path \cup {None}
  BY DEF Resolve

\* The fields of an inode.
LEMMA InodeFields ==
    ASSUME NEW x \in Inode
    PROVE  /\ x.kind \in { "Directory", "Fifo", "Socket", "File", "Symlink", "BlockDevice",
                           "CharDevice" }
           /\ x.mode \in Mode /\ x.owner \in Name /\ x.group \in Name
           /\ x.kind \in {"Directory", "Fifo", "Socket"} => x.data = None
           /\ x.kind = "File" => x.data \in Contents
           /\ x.kind = "Symlink" => x.data \in Targets
           /\ x.kind \in {"BlockDevice", "CharDevice"} => x.data \in DevNos
  BY DEF Inode

\* What the package database has of a path.
LEMMA PkgFields ==
    ASSUME NEW x \in PkgEntry
    PROVE  /\ x.kind \in {"RegularFile", "Symlink", "Directory", "Other", "Unknown"}
           /\ x.mode \in Mode \cup {None}
           /\ x.owner \in Name \cup {None} /\ x.group \in Name \cup {None}
           /\ x.kind = "RegularFile" => x.data \in Contents
           /\ x.kind = "Symlink" => x.data \in Targets /\ x.mode = None
           /\ x.kind \in {"Directory", "Other", "Unknown"} => x.data = None
<1>. DEFINE meta == [mode: Mode \cup {None}, owner: Name \cup {None}, group: Name \cup {None}]
            With(kind, data, m) == [ kind |-> kind, data |-> data, mode |-> m.mode,
                                     owner |-> m.owner, group |-> m.group ]
<1>1. \/ \E c \in Contents, m \in meta : x = With("RegularFile", c, m)
      \/ \E t \in Targets, m \in meta : m.mode = None /\ x = With("Symlink", t, m)
      \/ \E k \in {"Directory", "Other", "Unknown"}, m \in meta : x = With(k, None, m)
  BY DEF PkgEntry
<1>. QED  BY <1>1

\* An instruction with the right operand is an instruction.
LEMMA Typed ==
    ASSUME NEW p \in Path
    PROVE  /\ Instr(p, "Remove", None) \in FsInstruction
           /\ Instr(p, "Restore", None) \in FsInstruction
           /\ Instr(p, "Comment", None) \in FsInstruction
           /\ Instr(p, "CreateDirectory", None) \in FsInstruction
           /\ Instr(p, "CreateFifo", None) \in FsInstruction
           /\ \A c \in Contents : Instr(p, "CreateFile", c) \in FsInstruction
           /\ \A t \in Targets : Instr(p, "CreateSymlink", t) \in FsInstruction
           /\ \A d \in DevNos : /\ Instr(p, "CreateBlockDevice", d) \in FsInstruction
                                /\ Instr(p, "CreateCharDevice", d) \in FsInstruction
           /\ \A m \in Mode : Instr(p, "SetMode", m) \in FsInstruction
           /\ \A n \in Name : /\ Instr(p, "SetOwner", n) \in FsInstruction
                              /\ Instr(p, "SetGroup", n) \in FsInstruction
  BY DEF FsInstruction, Instr

\* What a path reads as.
LEMMA ReadTyped ==
    ASSUME NEW d \in DiskState, NEW p \in Path
    PROVE  ReadContents(d, p) \in Contents \cup {None}
<1>. DEFINE q == Resolve(d, p)
<1>1. q \in Path \cup {None}
  BY ResolveType
<1>2. q # None /\ d[q] # NoNode => d[q] \in Inode
  BY <1>1 DEF DiskState
<1>. QED  BY <1>1, <1>2, InodeFields DEF ReadContents

\* The creation that would recreate what is on disk.
Recreation(d, p) ==
    CASE d[p].kind = "File"        -> Instr(p, "CreateFile", d[p].data)
      [] d[p].kind = "Directory"   -> Instr(p, "CreateDirectory", d[p].data)
      [] d[p].kind = "Symlink"     -> Instr(p, "CreateSymlink", d[p].data)
      [] d[p].kind = "Fifo"        -> Instr(p, "CreateFifo", d[p].data)
      [] d[p].kind = "BlockDevice" -> Instr(p, "CreateBlockDevice", d[p].data)
      [] d[p].kind = "CharDevice"  -> Instr(p, "CreateCharDevice", d[p].data)

\* What is on disk as instructions.
LEMMA FromFsIs ==
    ASSUME NEW d \in DiskState, NEW p \in Path, d[p] # NoNode
    PROVE  FromFs(d, p) =
              IF d[p].kind = "Socket" THEN {}
              ELSE {Recreation(d, p)}
                   \cup (IF d[p].kind = "Symlink" THEN {} ELSE {Instr(p, "SetMode", d[p].mode)})
                   \cup {Instr(p, "SetOwner", d[p].owner), Instr(p, "SetGroup", d[p].group)}
<1>1. d[p] \in Inode
  BY DEF DiskState
<1>. QED  BY <1>1, InodeFields DEF FromFs, Recreation

\* It is a creation at the path.
LEMMA RecreationTyped ==
    ASSUME NEW d \in DiskState, NEW p \in Path, d[p] # NoNode, d[p].kind # "Socket"
    PROVE  /\ Recreation(d, p) \in FsInstruction
           /\ Recreation(d, p).path = p
           /\ Recreation(d, p).tag \in CreateTags
<1>1. d[p] \in Inode
  BY DEF DiskState
<1>. DEFINE x == d[p]
<1>2. /\ x.kind \in { "Directory", "Fifo", "File", "Symlink", "BlockDevice", "CharDevice" }
      /\ x.kind \in {"Directory", "Fifo"} => x.data = None
      /\ x.kind = "File" => x.data \in Contents
      /\ x.kind = "Symlink" => x.data \in Targets
      /\ x.kind \in {"BlockDevice", "CharDevice"} => x.data \in DevNos
  BY <1>1, InodeFields
<1>3. \A t, a : Instr(p, t, a).path = p /\ Instr(p, t, a).tag = t
  BY DEF Instr
<1>. HIDE DEF x
<1>. QED  BY <1>2, <1>3, Typed DEF Recreation, CreateTags, x

\* The instructions that the scan can come up with for a path.
Reports(d, p) ==
    { Instr(p, "Remove", None), Instr(p, "CreateFile", ReadContents(d, p)),
      Instr(p, "CreateSymlink", d[p].data), Instr(p, "SetMode", d[p].mode),
      Instr(p, "SetOwner", d[p].owner), Instr(p, "SetGroup", d[p].group), Recreation(d, p) }

\* They are seven at most.
LEMMA ReportsFinite == \A d, p : IsFiniteSet(Reports(d, p))
<1>1. ASSUME NEW a, NEW b, NEW c, NEW e, NEW f, NEW g, NEW h
      PROVE  IsFiniteSet({a, b, c, e, f, g, h})
  <2>1. IsFiniteSet({a})
    BY FS_Singleton
  <2>2. IsFiniteSet({a, b})
    <3>1. {a, b} = {a} \cup {b}
      OBVIOUS
    <3>. QED  BY <2>1, <3>1, FS_AddElement
  <2>3. IsFiniteSet({a, b, c})
    <3>1. {a, b, c} = {a, b} \cup {c}
      OBVIOUS
    <3>. QED  BY <2>2, <3>1, FS_AddElement
  <2>4. IsFiniteSet({a, b, c, e})
    <3>1. {a, b, c, e} = {a, b, c} \cup {e}
      OBVIOUS
    <3>. QED  BY <2>3, <3>1, FS_AddElement
  <2>5. IsFiniteSet({a, b, c, e, f})
    <3>1. {a, b, c, e, f} = {a, b, c, e} \cup {f}
      OBVIOUS
    <3>. QED  BY <2>4, <3>1, FS_AddElement
  <2>6. IsFiniteSet({a, b, c, e, f, g})
    <3>1. {a, b, c, e, f, g} = {a, b, c, e, f} \cup {g}
      OBVIOUS
    <3>. QED  BY <2>5, <3>1, FS_AddElement
  <2>7. {a, b, c, e, f, g, h} = {a, b, c, e, f, g} \cup {h}
    OBVIOUS
  <2>. QED  BY <2>6, <2>7, FS_AddElement
<1>. QED  BY <1>1 DEF Reports

\* What the scan says of a path's metadata.
LEMMA WrongMetadataTyped ==
    ASSUME NEW d \in DiskState, NEW p \in Path, d[p] # NoNode, NEW pkg \in PkgEntry
    PROVE  /\ WrongMetadata(d, p, pkg) \subseteq Reports(d, p)
           /\ \A i \in WrongMetadata(d, p, pkg) :
                 i \in FsInstruction /\ i.path = p /\ i.tag \in MetaTags
<1>1. d[p].mode \in Mode /\ d[p].owner \in Name /\ d[p].group \in Name
  BY InodeFields DEF DiskState
<1>2. \A i \in WrongMetadata(d, p, pkg) :
        i \in {Instr(p, "SetMode", d[p].mode), Instr(p, "SetOwner", d[p].owner),
               Instr(p, "SetGroup", d[p].group)}
  BY DEF WrongMetadata, WrongField
<1>3. \A t, a : Instr(p, t, a).path = p /\ Instr(p, t, a).tag = t
  BY DEF Instr
<1>4. WrongMetadata(d, p, pkg) \subseteq Reports(d, p)
  BY <1>2 DEF Reports
<1>. QED  BY <1>1, <1>2, <1>3, <1>4, Typed DEF MetaTags

\* check_file and from_fs, of a path that exists and is not ignored.
LEMMA PathTyped ==
    ASSUME NEW d \in DiskState, NEW db \in Database, NEW ig, ~ScanFails(d, db, ig), NEW p \in Path,
           NEW i \in PathInstructions(d, db, ig, p)
    PROVE  /\ i \in FsInstruction /\ i.path = p /\ i \in Reports(d, p)
           /\ ~Ignored(ig, p)
<1>1. \A t, a : Instr(p, t, a).path = p /\ Instr(p, t, a).tag = t
  BY DEF Instr
<1>2. ~Ignored(ig, p)
  BY DEF PathInstructions
<1>3. CASE d[p] = NoNode
  <2>1. i = Instr(p, "Remove", None)
    BY <1>2, <1>3 DEF PathInstructions
  <2>. QED  BY <1>1, <1>2, <2>1, Typed DEF Reports
<1>4. CASE d[p] # NoNode
  <2>1. d[p] \in Inode
    BY <1>4 DEF DiskState
  <2>2. FromFs(d, p) \subseteq Reports(d, p)
    BY <1>4, FromFsIs DEF Reports
  <2>3. ASSUME NEW j \in FromFs(d, p) PROVE j \in FsInstruction /\ j.path = p
    <3>1. d[p].kind # "Socket"
      BY <1>4, <2>3, FromFsIs
    <3>2. \/ j = Recreation(d, p)
          \/ j = Instr(p, "SetMode", d[p].mode)
          \/ j = Instr(p, "SetOwner", d[p].owner)
          \/ j = Instr(p, "SetGroup", d[p].group)
      BY <1>4, <2>3, <3>1, FromFsIs
    <3>3. d[p].mode \in Mode /\ d[p].owner \in Name /\ d[p].group \in Name
      BY <2>1, InodeFields
    <3>. QED  BY <1>1, <1>4, <3>1, <3>2, <3>3, Typed, RecreationTyped
  <2>4. CASE db[p] = None
    <3>1. i \in FromFs(d, p)
      BY <1>2, <1>4, <2>4 DEF PathInstructions
    <3>. QED  BY <1>2, <2>2, <2>3, <3>1
  <2>5. CASE db[p] # None
    <3>1. db[p] \in PkgEntry /\ i \in PackagedInstructions(d, p, db[p])
      BY <1>2, <1>4, <2>5 DEF PathInstructions, Database
    <3>2. \/ i \in WrongMetadata(d, p, db[p])
          \/ i \in FromFs(d, p)
          \/ i = Instr(p, "Remove", None)
          \/ db[p].kind = "RegularFile" /\ i \in ContentsIssue(d, p, db[p])
          \/ d[p].kind = "Symlink" /\ i = Instr(p, "CreateSymlink", d[p].data)
      <4>1. db[p].kind \in {"RegularFile", "Symlink", "Directory", "Other", "Unknown"}
        BY <3>1, PkgFields
      <4>. QED  BY <3>1, <4>1 DEF PackagedInstructions, TypeConflict
    <3>3. CASE i \in WrongMetadata(d, p, db[p])
      BY <1>2, <1>4, <3>1, <3>3, WrongMetadataTyped
    <3>4. CASE i \in FromFs(d, p)
      BY <1>2, <2>2, <2>3, <3>4
    <3>5. CASE i = Instr(p, "Remove", None)
      BY <1>1, <1>2, <3>5, Typed DEF Reports
    <3>6. CASE db[p].kind = "RegularFile" /\ i \in ContentsIssue(d, p, db[p])
      <4>1. i = Instr(p, "CreateFile", ReadContents(d, p))
        BY <3>6 DEF ContentsIssue
      <4>2. ReadContents(d, p) # None
        <5>1. CASE d[p].kind = "File"
          <6>1. Resolve(d, p) = p /\ d[p].data \in Contents /\ p \in Path
            BY <2>1, <5>1, InodeFields DEF Resolve
          <6>2. ReadContents(d, p) \in {d[p].data, None}
            BY <6>1 DEF ReadContents
          <6>3. p # None => ReadContents(d, p) = d[p].data
            BY <1>4, <5>1, <6>1 DEF ReadContents
          <6>. QED  BY <6>1, <6>3, ValueAssumption, NowhereAssumption
        <5>2. CASE d[p].kind # "File"
          BY <1>2, <1>4, <2>5, <3>6, <5>2 DEF ScanFails
        <5>. QED  BY <5>1, <5>2
      <4>. QED  BY <1>1, <1>2, <4>1, <4>2, ReadTyped, Typed DEF Reports
    <3>7. CASE d[p].kind = "Symlink" /\ i = Instr(p, "CreateSymlink", d[p].data)
      <4>1. d[p].data \in Targets
        BY <2>1, <3>7, InodeFields
      <4>. QED  BY <1>1, <1>2, <3>7, <4>1, Typed DEF Reports
    <3>. QED  BY <3>2, <3>3, <3>4, <3>5, <3>6, <3>7
  <2>. QED  BY <2>4, <2>5
<1>. QED  BY <1>3, <1>4

\* A scan that succeeds yields instructions, each at its path.
LEMMA ScanTyped ==
    ASSUME NEW d \in DiskState, NEW db \in Database, NEW ig, ~ScanFails(d, db, ig)
    PROVE  /\ ScanInstructions(d, db, ig) \in SUBSET FsInstruction
           /\ \A i \in FsInstruction :
                 i \in ScanInstructions(d, db, ig) <=> i \in PathInstructions(d, db, ig, i.path)
<1>. DEFINE At(p) == PathInstructions(d, db, ig, p)
<1>1. ScanInstructions(d, db, ig) = UNION {At(p) : p \in Path}
  BY DEF ScanInstructions
<1>2. ASSUME NEW p \in Path PROVE \A i \in At(p) : i \in FsInstruction /\ i.path = p
  BY PathTyped
<1>. HIDE DEF At
<1>3. \A i \in FsInstruction : i.path \in Path
  BY Operands
<1>. QED  BY <1>1, <1>2, <1>3 DEF At

\* They are finitely many.
LEMMA ScanFinite ==
    ASSUME IsFiniteSet(Path),
           NEW d \in DiskState, NEW db \in Database, NEW ig, ~ScanFails(d, db, ig)
    PROVE  IsFiniteSet(ScanInstructions(d, db, ig))
<1>. DEFINE At(p) == PathInstructions(d, db, ig, p)
            T == {At(p) : p \in Path}
            f == [p \in Path |-> At(p)]
<1>1. ScanInstructions(d, db, ig) = UNION T
  BY DEF ScanInstructions
<1>2. ASSUME NEW p \in Path PROVE At(p) \subseteq Reports(d, p)
  BY PathTyped
<1>. HIDE DEF At
<1>3. f \in Surjection(Path, T)
  BY DEF Surjection
<1>4. IsFiniteSet(T)
  BY <1>3, FS_Surjection
<1>5. \A S \in T : IsFiniteSet(S)
  BY <1>2, ReportsFinite, FS_Subset
<1>. QED  BY <1>1, <1>4, <1>5, FS_UNION

\* The instructions of the scan at a path.
LEMMA ScanAt ==
    ASSUME NEW d \in DiskState, NEW db \in Database, NEW ig, ~ScanFails(d, db, ig), NEW p \in Path
    PROVE  PathInstructions(d, db, ig, p) = {i \in ScanInstructions(d, db, ig) : i.path = p}
<1>1. \A i \in PathInstructions(d, db, ig, p) : i \in FsInstruction /\ i.path = p
  BY PathTyped
<1>. QED  BY <1>1, ScanTyped

-----------------------------------------------------------------------------
(* The instructions of diff *)

\* The creation of an entry.
LEMMA BaseTyped ==
    ASSUME NEW p \in Path, NEW entry \in FsEntry
    PROVE  BaseInstruction(p, entry) \subseteq FsInstruction
<1>1. /\ entry.kind \in {"Removed", "Unchanged", "Directory", "Fifo"} => entry.data = None
      /\ entry.kind = "File" => entry.data \in Contents
      /\ entry.kind = "Symlink" => entry.data \in Targets
      /\ entry.kind \in {"BlockDevice", "CharDevice"} => entry.data \in DevNos
      /\ entry.kind \in {"Removed", "Unchanged", "Directory", "Fifo", "File", "Symlink",
                         "BlockDevice", "CharDevice"}
  BY DEF FsEntry
<1>. QED  BY <1>1, Typed DEF BaseInstruction

\* The base instruction of an entry is at most one, and a removal or a maker.
LEMMA BaseOne ==
    ASSUME NEW p, NEW entry \in FsEntry
    PROVE  /\ \A i, j \in BaseInstruction(p, entry) : i = j
           /\ \A i \in BaseInstruction(p, entry) :
                 /\ i.path = p
                 /\ i.tag \in CreateTags \cup {"Remove"}
                 /\ i.tag = "Remove" => i = Instr(p, "Remove", None)
<1>1. entry.kind \in {"Removed", "Unchanged", "Directory", "File", "Symlink", "Fifo",
                      "BlockDevice", "CharDevice"}
      /\ (entry.kind = "Removed" => entry.data = None)
  BY DEF FsEntry
<1>. QED  BY <1>1 DEF BaseInstruction, Instr, CreateTags

\* Of one path and of its metadata, at most one instruction of each kind.
LEMMA MetadataOne ==
    ASSUME NEW p, NEW before, NEW after
    PROVE  /\ \A i \in MetadataDiff(p, before, after) :
                 i.path = p /\ i.tag \in MetaTags \cup {"Comment"}
           /\ \A i, j \in MetadataDiff(p, before, after) : i.tag = j.tag => i = j
  BY DEF MetadataDiff, FieldDiff, Instr, MetaTags

=============================================================================
