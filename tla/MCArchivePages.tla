---------------------------- MODULE MCArchivePages ----------------------------
\* Two pages exist.  Two runs update the first, one creates a page under the slug
\* of the second and links to the first.  Five slugs are enough for three requests.
EXTENDS ArchivePages, TLC

CONSTANTS r1, r2, r3

MCSlugs == 1 .. 5
MCTarget == r1 :> 1 @@ r2 :> 1 @@ r3 :> 2
MCAction == r1 :> "update" @@ r2 :> "update" @@ r3 :> "create"
MCLinks == r1 :> {} @@ r2 :> {} @@ r3 :> {1}
MCLive == {1, 2}
CallSymmetry == Permutations(Calls)
===============================================================================
