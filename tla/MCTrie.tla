-------------------------------- MODULE MCTrie --------------------------------
(***************************************************************************)
(* Keys of one or two characters over two characters, two value types.   *)
(* Two-character keys give a node both a child and a value, a sibling     *)
(* under one parent, and keys with a repeated character.                  *)
(***************************************************************************)
EXTENDS Trie

CONSTANTS a, b, Int, Str

MCChars == {a, b}

MCKeys == {<<>>} \cup {<<c>> : c \in MCChars} \cup {<<c, d>> : c, d \in MCChars}

MCTypes == {Int, Str}

MCPayloads == {1}

\* Characters are only compared with each other, and so are types.
Symmetry == Permutations(MCChars) \cup Permutations(MCTypes)
=============================================================================
