--------------------------------- MODULE Trie ---------------------------------
(***************************************************************************)
(* The trie of src/bustub/src/include/primer/p0_trie.h.                    *)
(*                                                                         *)
(* A TrieNode is named by its path from root_, the sequence of key_char_   *)
(* values on the way down, so children_ is implicit: the children of p are *)
(* the nodes Append(p, c).  nodes maps each node to the value_ of a        *)
(* TrieNodeWithValue, or to NoValue for a plain TrieNode; is_end_ is true  *)
(* exactly for the TrieNodeWithValue nodes (their constructor sets it and  *)
(* nothing clears it).  A value is typed, so that GetValue<T>'s           *)
(* dynamic_cast can fail.  Insert, Remove and GetValue each run under      *)
(* latch_ (write, write, read) from their first node access to their      *)
(* return, so each is one step.                                            *)
(*                                                                         *)
(* Remove walks back from key.end() - 1 and decrements key_char once per   *)
(* popped node, also past key.begin(); the char it then reads is the byte *)
(* before the string's buffer.  For the short strings used as keys that    *)
(* byte is the high byte of the length (libstdc++) or the size byte        *)
(* (libc++), never a key character: BeforeBegin stands for it.             *)
(***************************************************************************)
EXTENDS Naturals, Sequences, FiniteSets, TLC

S == INSTANCE SequencesExt

CONSTANTS Chars, Keys, Types, Payloads, NoValue, BeforeBegin

ASSUME BeforeBegin \notin Chars

Values == [type : Types, val : Payloads]

VARIABLES nodes, done

vars == <<nodes, done>>

Result(ok, v) == [success |-> ok, value |-> v]

\* Trie() (lines 287-291): root_ is a plain TrieNode('\0').
Init ==
    /\ nodes = (<<>> :> NoValue)
    /\ done = [op |-> "none", key |-> <<>>, arg |-> NoValue, out |-> Result(FALSE, NoValue)]

\* TrieNode::IsEndNode and HasChildren (lines 92-105).
IsEndNode(t, p) == t[p] # NoValue

HasChildren(t, p) == \E c \in Chars : Append(p, c) \in DOMAIN t

\* TrieNode::RemoveChildNode (lines 174-178): erasing the unique_ptr
\* destroys the child's whole subtree.
RemoveChildNode(t, p, c) ==
    IF Append(p, c) \in DOMAIN t
    THEN [q \in {q \in DOMAIN t : ~S!IsPrefix(Append(p, c), q)} |-> t[q]]
    ELSE t

\* The first i characters of k.
Prefix(k, i) == SubSeq(k, 1, i)

\* Mutation of InsertOf: the loop adds no node for a missing prefix.
InsertSkipsPrefixes(t, k, v) ==
    IF k = <<>> THEN [t |-> t, out |-> FALSE]
    ELSE IF k \in DOMAIN t /\ IsEndNode(t, k)
         THEN [t |-> t, out |-> FALSE]
         ELSE [t |-> [q \in DOMAIN t \cup {k} |-> IF q = k THEN v ELSE t[q]], out |-> TRUE]

\* Mutation of InsertOf: the last node is converted even when it already
\* is a TrieNodeWithValue.
InsertOverwrites(t, k, v) ==
    IF k = <<>> THEN [t |-> t, out |-> FALSE]
    ELSE LET t1 == t @@ [q \in {Prefix(k, i) : i \in 1 .. Len(k) - 1} |-> NoValue]
         IN  [t |-> [q \in DOMAIN t1 \cup {k} |-> IF q = k THEN v ELSE t1[q]], out |-> TRUE]

\* Trie::Insert (lines 320-357).  The loop adds a plain TrieNode for every
\* missing prefix but the last character (InsertChildNode); then an
\* existing end node makes it return false, and otherwise the last node,
\* found or newly added, is replaced by a TrieNodeWithValue moved from it,
\* which keeps its children_.
InsertOf(t, k, v) ==
    IF k = <<>> THEN [t |-> t, out |-> FALSE]
    ELSE LET t1 == t @@ [q \in {Prefix(k, i) : i \in 1 .. Len(k) - 1} |-> NoValue]
         IN  IF k \in DOMAIN t1 /\ IsEndNode(t1, k)
             THEN [t |-> t1, out |-> FALSE]
             ELSE [t |-> [q \in DOMAIN t1 \cup {k} |-> IF q = k THEN v ELSE t1[q]], out |-> TRUE]

\* The first loop of Trie::Remove (lines 385-395) finds every node of k.
Found(t, k) == \A i \in 1 .. Len(k) : Prefix(k, i) \in DOMAIN t

\* The second loop of Trie::Remove (lines 397-408), from its j-th pop on.
\* The j-th node popped is the prefix of length Len(k) - j; child_node is
\* looked up with key_char at k[Len(k) - j + 1], key_char is decremented,
\* and the child removed is the one named by the decremented key_char.
RECURSIVE Unwind(_, _, _)
Unwind(t, k, j) ==
    IF j > Len(k) THEN t
    ELSE LET parent == Prefix(k, Len(k) - j)
             child == Append(parent, k[Len(k) - j + 1])
             key_char == IF Len(k) - j >= 1 THEN k[Len(k) - j] ELSE BeforeBegin
         IN  Unwind(IF child \in DOMAIN t /\ HasChildren(t, child) THEN t
                    ELSE RemoveChildNode(t, parent, key_char),
                    k, j + 1)

\* Trie::Remove (lines 376-413): false for the empty key or a missing node,
\* true otherwise, whatever the unwinding did.
RemoveOf(t, k) ==
    IF k = <<>> \/ ~Found(t, k) THEN [t |-> t, out |-> FALSE]
    ELSE [t |-> Unwind(t, k, 1), out |-> TRUE]

Insert(k, v) ==
    LET r == InsertOf(nodes, k, v) IN
    /\ nodes' = r.t
    /\ done' = [op |-> "insert", key |-> k, arg |-> v, out |-> Result(r.out, NoValue)]

Remove(k) ==
    LET r == RemoveOf(nodes, k) IN
    /\ nodes' = r.t
    /\ done' = [op |-> "remove", key |-> k, arg |-> NoValue, out |-> Result(r.out, NoValue)]

\* Trie::GetValue<T> (lines 434-465): the walk fails on a missing node, and
\* the dynamic_cast to TrieNodeWithValue<T> fails on a plain node or a
\* value of another type; a failure returns T's default, NoValue here.
GetValue(k, T) ==
    LET ok == k # <<>> /\ Found(nodes, k) /\ IsEndNode(nodes, k) /\ nodes[k].type = T IN
    /\ done' = [op |-> "get", key |-> k, arg |-> T,
                out |-> IF ok THEN Result(TRUE, nodes[k]) ELSE Result(FALSE, NoValue)]
    /\ UNCHANGED nodes

Next ==
    \E k \in Keys :
        \/ \E v \in Values : Insert(k, v)
        \/ Remove(k)
        \/ \E T \in Types : GetValue(k, T)

Spec == Init /\ [][Next]_vars

-----------------------------------------------------------------------------
\* The map the trie stands for: a key's value if its node is an end node.
Contents == [k \in Keys |-> IF k \in DOMAIN nodes THEN nodes[k] ELSE NoValue]

Abs == INSTANCE TrieMap WITH map <- Contents

\* Nodes are named by keys, every prefix of a node is a node, and root_
\* never holds a value.
TypeOK ==
    /\ <<>> \in DOMAIN nodes
    /\ DOMAIN nodes \subseteq Keys
    /\ \A p \in DOMAIN nodes : \A i \in 0 .. Len(p) : Prefix(p, i) \in DOMAIN nodes
    /\ \A p \in DOMAIN nodes : nodes[p] \in Values \cup {NoValue}
    /\ nodes[<<>>] = NoValue

\* Every Insert and GetValue call, and every Remove that returns false,
\* behaves as TrieMap says, whatever earlier Remove calls left behind in
\* the trie: Insert's conversion of an existing node (line 352) keeps the
\* keys below it, and a node left behind by Remove is never mistaken for a
\* key.
KeepsPromiseExceptRemoval ==
    [][(done'.op = "remove" /\ done'.out.success) \/ Abs!Next]_vars

\* The trie implements TrieMap: in particular a Remove that returns true
\* (line 412) has erased the key and nothing else.
ImplementsTrieMap == Abs!Spec
=============================================================================
