--------------------------- MODULE ContentUpdates ---------------------------
(***************************************************************************)
(* What wl_surface.commit promises, whatever holds an update back: the     *)
(* updates of a surface are applied in the order of their commits, each    *)
(* whole, and the content on the surface is the one the newest applied     *)
(* update with an attach brought.  Updates may wait, two neighbours may be *)
(* folded into one, waiting updates may be dropped with their surface.     *)
(* Several surfaces may step at once: a parent's update takes its          *)
(* children's along.                                                       *)
(***************************************************************************)
EXTENDS Naturals, Sequences

CONSTANT Surfaces

VARIABLES
    made,    \* how many updates each surface was given
    shown,   \* [n, from]: the last update applied, and the one whose attach shows
    waiting  \* updates not applied yet, in order; from = 0 attaches nothing

cuVars == <<made, shown, waiting>>

(* The state f with the update u on top: an update without an attach       *)
(* leaves the content alone.                                               *)
Over(f, u) == [n |-> u.n, from |-> IF u.from = 0 THEN f.from ELSE u.from]

Blank == [n |-> 0, from |-> 0]

CUInit ==
    /\ made = [s \in Surfaces |-> 0]
    /\ shown = [s \in Surfaces |-> Blank]
    /\ waiting = [s \in Surfaces |-> <<>>]

(* wl_surface.commit: the new update is applied if nothing waits, joins    *)
(* the waiting ones, or is folded into the newest of them.                 *)
Fresh(s, u) == u.n = made[s] + 1 /\ u.from \in {0, u.n}

CommitNow(s, u) ==
    /\ Fresh(s, u) /\ waiting[s] = <<>>
    /\ made'[s] = u.n /\ shown'[s] = Over(shown[s], u) /\ waiting'[s] = <<>>

CommitWaits(s, u) ==
    /\ Fresh(s, u)
    /\ made'[s] = u.n /\ shown'[s] = shown[s] /\ waiting'[s] = Append(waiting[s], u)

CommitFolds(s, u) ==
    /\ Fresh(s, u) /\ waiting[s] # <<>>
    /\ LET w == waiting[s] IN
       /\ made'[s] = u.n /\ shown'[s] = shown[s]
       /\ waiting'[s] = [w EXCEPT ![Len(w)] = Over(@, u)]

(* The oldest waiting update is applied. *)
Apply(s) ==
    /\ waiting[s] # <<>>
    /\ made'[s] = made[s]
    /\ shown'[s] = Over(shown[s], Head(waiting[s]))
    /\ waiting'[s] = Tail(waiting[s])

(* The newest waiting update, or all of them, will never be applied. *)
Drop(s) ==
    /\ waiting[s] # <<>>
    /\ made'[s] = made[s] /\ shown'[s] = shown[s]
    /\ waiting'[s] \in {<<>>, SubSeq(waiting[s], 1, Len(waiting[s]) - 1)}

Rests(s) == made'[s] = made[s] /\ shown'[s] = shown[s] /\ waiting'[s] = waiting[s]

SurfaceStep(s) ==
    \/ \E from \in {0, made[s] + 1} :
          LET u == [n |-> made[s] + 1, from |-> from] IN
          CommitNow(s, u) \/ CommitWaits(s, u) \/ CommitFolds(s, u)
    \/ Apply(s)
    \/ Drop(s)

CUNext == \A s \in Surfaces : SurfaceStep(s) \/ Rests(s)

CUSpec == CUInit /\ [][CUNext]_cuVars
=============================================================================
