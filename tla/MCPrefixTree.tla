---------------------------- MODULE MCPrefixTree ----------------------------
(* Three sequences, blocks of two tokens and prompts of zero to three      *)
(* blocks, with and without a ragged tail: shared roots, diverging second  *)
(* blocks, one prompt the prefix of another, and prompts shorter than one  *)
(* block all occur.                                                        *)
EXTENDS PrefixTree

CONSTANTS a, b

MCInputs == {<<a>>, <<a, a>>, <<a, a, b>>, <<a, a, a, b>>, <<a, a, b, a>>,
             <<a, a, b, a, b, b>>, <<b, a, a, a>>}
=============================================================================
