----------------------------- MODULE StagePicture -----------------------------
(***************************************************************************)
(* The picture that the web UI draws of the stages list_stages returned    *)
(* (dagLayout.js): one step is the depth of one stage, or one node put     *)
(* into its column. It leaves what StageGraph describes alone.             *)
(***************************************************************************)
EXTENDS StageGraph

VARIABLES
  drawing, \* "no", the loop that runs ("depths", "nodes"), or "drawn"
  depth,   \* stageDepths' dict
  levels   \* graphLayout's sparse array: the columns that have been used

picture == <<drawing, depth, levels>>

InGraph(n) == ToSet(Dependencies(n)) \cap Stage
Externals == (UNION {DependsOn[n] : n \in Stage}) \ Stage

Shift == IF Externals = {} THEN 0 ELSE 1
Edges == {e \in Name \X Stage : e[1] \in DependsOn[e[2]]}

Placed == UNION {ToSet(levels[c]) : c \in DOMAIN levels}

-----------------------------------------------------------------------------
PictureInit ==
  /\ Init
  /\ drawing = "no"
  /\ depth = [n \in {} |-> 0] /\ levels = [c \in {} |-> <<>>]

(* WorkflowGraph lays out the list it was given.                           *)
Draw ==
  /\ at = "ordered" /\ drawing = "no"
  /\ drawing' = "depths"
  /\ UNCHANGED <<vars, depth, levels>>

Depths(n) == {depth[m] : m \in InGraph(n)}

(* Mutant of DepthAfter: the shortest path.                                *)
ShallowDepthAfter(n) == IF InGraph(n) = {} THEN 0 ELSE 1 + Min(Depths(n))

DepthAfter(n) == IF InGraph(n) = {} THEN 0 ELSE 1 + Max(Depths(n))

(* The loop over all stages calls depthOf. The list is sorted, so what it  *)
(* calls for the dependencies looks their depths up, and does not go on.   *)
DepthOf(n) ==
  /\ drawing = "depths"
  /\ First(order, Stage \ DOMAIN depth, n)
  /\ depth' = [m \in DOMAIN depth \cup {n} |->
                 IF m = n THEN DepthAfter(n) ELSE depth[m]]
  /\ UNCHANGED <<vars, drawing, levels>>

DepthsReturned ==
  /\ drawing = "depths"
  /\ Stage \subseteq DOMAIN depth
  /\ drawing' = "nodes"
  /\ UNCHANGED <<vars, depth, levels>>

(* (levels[c] ??= []).push(n)                                              *)
Push(c, n) ==
  /\ levels' = [d \in DOMAIN levels \cup {c} |->
                  IF d # c THEN levels[d]
                  ELSE Append(IF c \in DOMAIN levels THEN levels[c] ELSE <<>>, n)]
  /\ UNCHANGED <<vars, drawing, depth>>

(* Their names are sorted, which tells no two orders of them apart here.   *)
PlaceExternal(n) ==
  /\ drawing = "nodes"
  /\ n \in Externals \ Placed
  /\ Push(0, n)

PlaceStage(n) ==
  /\ drawing = "nodes"
  /\ Externals \subseteq Placed
  /\ First(order, Stage \ Placed, n)
  /\ Push(depth[n] + Shift, n)

(* A column that was not used becomes an empty one.                        *)
FillColumns ==
  /\ drawing = "nodes"
  /\ Externals \cup Stage \subseteq Placed
  /\ levels' = [c \in UNION {0..d : d \in DOMAIN levels} |->
                  IF c \in DOMAIN levels THEN levels[c] ELSE <<>>]
  /\ drawing' = "drawn"
  /\ UNCHANGED <<vars, depth>>

(* An order is drawn or narrowed: the two are computed by calls of their   *)
(* own, which share nothing.                                               *)
PictureNext ==
  \/ Next /\ drawing = "no" /\ UNCHANGED picture
  \/ Draw
  \/ \E n \in Name : DepthOf(n) \/ PlaceExternal(n) \/ PlaceStage(n)
  \/ DepthsReturned \/ FillColumns

PictureSpec == PictureInit /\ [][PictureNext]_<<vars, picture>>

-----------------------------------------------------------------------------
(* The node of n is in column c.                                           *)
In(n, c) == c \in DOMAIN levels /\ n \in ToSet(levels[c])

(* The picture has every stage and every external resource once and no     *)
(* empty column, and every edge goes to the right. A stage is in the first *)
(* column the external resources leave, or right after a stage it depends  *)
(* on: where "stages become dispatchable together exactly when they share  *)
(* a depth", if those of each depth settle together.                       *)
PictureIsSound ==
  drawing = "drawn" =>
    /\ \A c \in DOMAIN levels : levels[c] # <<>>
    /\ \A n \in Stage \cup Externals :
         \E c \in DOMAIN levels : \E i \in DOMAIN levels[c] :
           \A d \in DOMAIN levels : \A j \in DOMAIN levels[d] :
             levels[d][j] = n <=> <<d, j>> = <<c, i>>
    /\ \A e \in Edges : \A c, d \in DOMAIN levels : In(e[1], c) /\ In(e[2], d) => c < d
    /\ \A n \in Stage : \A c \in DOMAIN levels :
         In(n, c) => \/ InGraph(n) = {} /\ c = Shift
                     \/ \E m \in InGraph(n) : In(m, c - 1)
=============================================================================
