------------------------------- MODULE FsMaps -------------------------------
(***************************************************************************)
(* What FsEntries (konfigkoll_core/src/state.rs) does with one instruction *)
(* and with a sorted stream of them, as operators on a map from paths to   *)
(* nodes.                                                                  *)
(***************************************************************************)
EXTENDS FsTypes

FsMap == [Path -> FsNode \cup {NoNode}]

EmptyMap == [p \in Path |-> NoNode]

\* A mutant: only the path itself gets a node.
WithoutParents(m, p) ==
    [m EXCEPT ![p] = IF m[p] = NoNode THEN FreshNode(Directory, DEFAULT_DIR_MODE) ELSE @]

\* add_missing_parents: every path above p, and p itself, gets a node.
WithParents(m, p) ==
    [q \in Path |-> IF q \in Ancestors[p] /\ m[q] = NoNode
                    THEN FreshNode(Directory, DEFAULT_DIR_MODE)
                    ELSE m[q]]

\* A mutant: the whole node is overwritten.
ReplaceWholeNode(m, p, node) == [WithParents(m, p) EXCEPT ![p] = node]

\* replace_node: everything is overwritten except removed_before_added.
ReplaceNode(m, p, node) ==
    LET parents == WithParents(m, p)
    IN [parents EXCEPT ![p] =
            [node EXCEPT !.removed_before_added = parents[p].removed_before_added]]

RemoveNode(m, p) ==
    [m EXCEPT ![p] = [FreshNode(Removed, DEFAULT_FILE_MODE)
                        EXCEPT !.removed_before_added = TRUE]]

\* SetMode, SetOwner and SetGroup change one field of a node that exists; a
\* path without a node gets one that says nothing but that field.
UnchangedNode ==
    [ entry |-> Unchanged, mode |-> None, owner |-> None, group |-> None,
      removed_before_added |-> FALSE ]

NodeOr(m, p, node) == IF m[p] = NoNode THEN node ELSE m[p]

\* A mutant: the node is inserted anew, so what it said before is lost.
WithOnlyGroup(m, p, group) == [m EXCEPT ![p] = [UnchangedNode EXCEPT !.group = group]]

\* A mutant: the arm was copied and its field not adapted.
WithOwnerAsMode(m, p, owner) == [m EXCEPT ![p] = [NodeOr(m, p, UnchangedNode) EXCEPT !.mode = owner]]

WithMode(m, p, mode)   == [m EXCEPT ![p] = [NodeOr(m, p, UnchangedNode) EXCEPT !.mode = mode]]
WithOwner(m, p, owner) == [m EXCEPT ![p] = [NodeOr(m, p, UnchangedNode) EXCEPT !.owner = owner]]
WithGroup(m, p, group) == [m EXCEPT ![p] = [NodeOr(m, p, UnchangedNode) EXCEPT !.group = group]]

\* The entry and mode a creating operation asks replace_node for.
CreatedEntry(i) ==
    CASE i.tag = "CreateDirectory"   -> Directory
      [] i.tag = "CreateFile"        -> Entry("File", i.arg)
      [] i.tag = "CreateSymlink"     -> Entry("Symlink", i.arg)
      [] i.tag = "CreateFifo"        -> Entry("Fifo", None)
      [] i.tag = "CreateBlockDevice" -> Entry("BlockDevice", i.arg)
      [] i.tag = "CreateCharDevice"  -> Entry("CharDevice", i.arg)

DefaultMode(tag) == IF tag = "CreateDirectory" THEN DEFAULT_DIR_MODE ELSE DEFAULT_FILE_MODE

ApplyInstruction(m, i) ==
    CASE i.tag = "Remove"     -> RemoveNode(m, i.path)
      [] i.tag \in CreateTags -> ReplaceNode(m, i.path, FreshNode(CreatedEntry(i), DefaultMode(i.tag)))
      [] i.tag = "SetMode"    -> WithMode(m, i.path, i.arg)
      [] i.tag = "SetOwner"   -> WithOwner(m, i.path, i.arg)
      [] i.tag = "SetGroup"   -> WithGroup(m, i.path, i.arg)
      [] OTHER                -> m      \* Comment, and Restore (an error is logged)

\* The same, of a map that is computed but once.
After(m, i) == CHOOSE n \in {ApplyInstruction(x, i) : x \in {m}} : TRUE

\* A mutant: the stream is folded in whatever order it comes.
UnsortedMap(instrs) ==
    LET Any(S) == CHOOSE i \in S : TRUE
        fold[S \in SUBSET instrs] ==
            IF S = {} THEN EmptyMap ELSE After(fold[S \ {Any(S)}], Any(S))
    IN fold[instrs]

\* The map that a sorted stream of the instructions in a set folds to: its last
\* instruction is applied to what the others fold to.
BuildMap(instrs) ==
    LET Last(S) == CHOOSE i \in S : \A j \in S : InstrLeq(j, i)
        fold[S \in SUBSET instrs] ==
            IF S = {} THEN EmptyMap ELSE After(fold[S \ {Last(S)}], Last(S))
    IN fold[instrs]

=============================================================================
