----------------------------- MODULE MCCapture ------------------------------
(* Small instances of Capture for TLC: f in a directory d, and g.          *)
EXTENDS Capture, TLC

CONSTANTS root, d, f, g, a, b

MCParent == f :> d @@ g :> root @@ d :> root
MCDepth  == root :> 0 @@ d :> 1 @@ g :> 1 @@ f :> 2

\* d holds the paths of inside; f and g have contents x and y; committed is
\* the tree of the index and of the forms of the ref in refs.
TargetWith(inside, x, y, committed, refs) ==
  root :> [value |-> {d, g}, stamp |-> 0]
  @@ d :> [value |-> inside, stamp |-> 0]
  @@ f :> [value |-> x, stamp |-> 0]
  @@ g :> [value |-> y, stamp |-> 0]
  @@ Git :> [value |-> {}, stamp |-> 0]
  @@ Config :> [value |-> TRUE, stamp |-> 0]
  @@ [o \in {HEAD, Packed} |-> [value |-> IF o \in refs THEN committed ELSE Nothing,
                                stamp |-> 0]]
  @@ Index :> [value |-> committed, stamp |-> 0]

\* Both files committed, and perhaps edited since; or g alone committed, d empty
\* and the ref packed.
MCTargets ==
  {TargetWith({f}, a, y, f :> a @@ g :> a, {HEAD}) : y \in {a, b}}
  \cup {TargetWith({}, a, a, g :> a, {Packed})}
=============================================================================
