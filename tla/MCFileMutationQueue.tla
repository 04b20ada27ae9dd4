------------------------- MODULE MCFileMutationQueue -------------------------
(* Instances of FileMutationQueue for TLC. *)
EXTENDS FileMutationQueue, TLC

CONSTANTS a, b, c, d, f, g, p, q, r

\* Paths p and q name file f, one through a directory link or a link to a file that
\* stays; r names g.  Three calls mutate f and one g.
FourCalls == a :> p @@ b :> q @@ c :> p @@ d :> r
TwoFiles  == p :> f @@ q :> f @@ r :> g

\* Two calls name one link to a file that need not exist.
LinkCalls == a :> p @@ b :> p
LinkFile  == p :> f
=============================================================================
