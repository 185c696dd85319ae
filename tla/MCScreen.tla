------------------------------ MODULE MCScreen ------------------------------
(* Instances of the screen for TLC.                                        *)
EXTENDS ScreenProperties

CONSTANTS r1, r2

Open(language) == Fence("3 ticks rust", "tick", 3, language)
Shut == Fence("3 ticks", "tick", 3, "none")

\* Cut after the first code line, a block is open; at the end, the second block is.
OrdinaryText ==
    <<Source("heading", "a"), Source("item", "b"), Source("nested", "c"), Source("item", "d"),
      Source("quote", "e"), Source("quote", "f"),
      Open("known"), Source("code", "g"), Shut,
      Source("text", "h"), Source("link", "i"),
      Open("known"), Source("code", "j"), Source("code", "k")>>

\* A block between tildes, one that is too long to be highlighted, one of an unknown
\* language with a line of backticks in it, and one that is not closed: cut at the
\* eighth line the finished first block loses its colours, and at the end none does.
OddText ==
    <<Source("text", "l"),
      Fence("3 tildes rust", "tilde", 3, "known"), Source("code", "m"), Fence("3 tildes", "tilde", 3, "none"),
      Open("known"), Source("code", "n"), Source("code", "o"), Source("code", "p"), Shut,
      Fence("4 ticks odd", "tick", 4, "unknown"), Shut, Fence("4 ticks", "tick", 4, "none"),
      Open("known"), Source("code", "q")>>

MCDocuments == {OrdinaryText, OddText}
=============================================================================
