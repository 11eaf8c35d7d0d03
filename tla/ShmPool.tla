-------------------------------- MODULE ShmPool --------------------------------
(***************************************************************************)
(* wlcommon's ShmDoubleBuffer as the shell's clients use it: created at    *)
(* the first redraw, resized by a configure, drawn into at each redraw.    *)
(* The compositor keeps a committed buffer for as long as it likes and     *)
(* then sends a release, which the client sees when it dispatches.         *)
(***************************************************************************)
EXTENDS Integers, SequencesExt

CONSTANTS
  MAX_BUFFERS,  (* 4 in the code                                             *)
  Buffer,       (* identities of buffers (memfd, mapping, wl_buffer)         *)
  Size          (* the sizes a surface is configured to                      *)

ASSUME PoolAssumption == MAX_BUFFERS \in Nat /\ MAX_BUFFERS >= 2

VARIABLES
  created,   (* the client has its pool                                      *)
  size,      (* the pool's w and h; before, those of the client              *)
  buffers,   (* the pool's buffers in order: id, released flag, size         *)
  held,      (* committed buffers that the compositor may read               *)
  releases   (* releases sent and not dispatched                             *)

vars == <<created, size, buffers, held, releases>>

Entry == [id : Buffer, released : BOOLEAN, size : Size]
InPool == {buffers[k].id : k \in DOMAIN buffers}

(* Nobody refers to the identity any more.                                  *)
Fresh(b) == b \notin InPool \union held \union releases

Init ==
  /\ created = FALSE
  /\ size \in Size
  /\ buffers = <<>>
  /\ held = {}
  /\ releases = {}

-------------------------------------------------------------------------------
(* Two allocations, the second only after the first has succeeded: the      *)
(* sequences of new entries they may leave (memfd_create or mmap may fail). *)
Allocations(sz) ==
  LET entry(b) == [id |-> b, released |-> TRUE, size |-> sz] IN
  {<<>>} \union {<<entry(b)>> : b \in {x \in Buffer : Fresh(x)}}
    \union {<<entry(p[1]), entry(p[2])>> :
              p \in {x \in Buffer \X Buffer : Fresh(x[1]) /\ Fresh(x[2]) /\ x[1] # x[2]}}

(* ShmDoubleBuffer::new; on failure there is no pool.                       *)
New ==
  /\ ~created
  /\ \E new \in Allocations(size) :
       IF Len(new) = 2 THEN created' = TRUE /\ buffers' = new
       ELSE UNCHANGED <<created, buffers>>
  /\ UNCHANGED <<size, held, releases>>

(* Mutant of Resize: buffers the compositor has not released are kept.      *)
ResizeKeeps(sz) ==
  /\ created
  /\ sz # size
  /\ size' = sz
  /\ \E new \in Allocations(sz) :
       buffers' = SelectSeq(buffers, LAMBDA e : ~e.released) \o new
  /\ UNCHANGED <<created, held, releases>>

(* resize drops all buffers, those in flight too, then allocates two.       *)
Resize(sz) ==
  /\ sz # size
  /\ size' = sz
  /\ IF created THEN \E new \in Allocations(sz) : buffers' = new ELSE UNCHANGED buffers
  /\ UNCHANGED <<created, held, releases>>

-------------------------------------------------------------------------------
(* draw takes the first buffer marked released and the client commits it.   *)
DrawFree ==
  /\ created
  /\ \E k \in DOMAIN buffers :
       /\ buffers[k].released
       /\ \A j \in 1..(k - 1) : ~buffers[j].released
       /\ buffers' = [buffers EXCEPT ![k].released = FALSE]
       /\ held' = held \union {buffers[k].id}
  /\ UNCHANGED <<created, size, releases>>

(* Mutant of DrawGrow: the bound is compared with the wrong relation.       *)
DrawGrowPast ==
  /\ created
  /\ \A k \in DOMAIN buffers : ~buffers[k].released
  /\ Len(buffers) <= MAX_BUFFERS
  /\ \E b \in Buffer :
       /\ Fresh(b)
       /\ buffers' = Append(buffers, [id |-> b, released |-> FALSE, size |-> size])
       /\ held' = held \union {b}
  /\ UNCHANGED <<created, size, releases>>

(* All in flight: one more buffer.                                          *)
DrawGrow ==
  /\ created
  /\ \A k \in DOMAIN buffers : ~buffers[k].released
  /\ Len(buffers) < MAX_BUFFERS
  /\ \E b \in Buffer :
       /\ Fresh(b)
       /\ buffers' = Append(buffers, [id |-> b, released |-> FALSE, size |-> size])
       /\ held' = held \union {b}
  /\ UNCHANGED <<created, size, releases>>

-------------------------------------------------------------------------------
(* The compositor is done with a buffer; it may be one of a dropped pool.   *)
Release(b) ==
  /\ b \in held
  /\ held' = held \ {b}
  /\ releases' = releases \union {b}
  /\ UNCHANGED <<created, size, buffers>>

(* Mutant of MarkReleased: the release frees a position, not a buffer.      *)
MarkReleasedFirst(b) ==
  /\ b \in releases
  /\ releases' = releases \ {b}
  /\ buffers' = IF buffers = <<>> THEN <<>> ELSE [buffers EXCEPT ![1].released = TRUE]
  /\ UNCHANGED <<created, size, held>>

(* mark_released sets the flag that belongs to the buffer, which the pool   *)
(* may have dropped.                                                        *)
MarkReleased(b) ==
  /\ b \in releases
  /\ releases' = releases \ {b}
  /\ buffers' = [k \in DOMAIN buffers |->
                   IF buffers[k].id = b THEN [buffers[k] EXCEPT !.released = TRUE]
                   ELSE buffers[k]]
  /\ UNCHANGED <<created, size, held>>

Next ==
  \/ New
  \/ \E sz \in Size : Resize(sz)
  \/ DrawFree
  \/ DrawGrow
  \/ \E b \in Buffer : Release(b) \/ MarkReleased(b)

Spec == Init /\ [][Next]_vars

-------------------------------------------------------------------------------
(* Type correctness of every variable, and the bound on the pool.           *)
TypeOK ==
  /\ created \in BOOLEAN
  /\ size \in Size
  /\ buffers \in Seq(Entry) /\ Len(buffers) <= MAX_BUFFERS
  /\ held \subseteq Buffer
  /\ releases \subseteq Buffer

(* The pool never paints over what the compositor may be reading, and never *)
(* gives up a redraw for a buffer that is free: a buffer is marked released *)
(* exactly when it is neither held nor on its way back, however draws,      *)
(* resizes and late releases interleave.                                    *)
FlagsAreTrue ==
  \A k \in DOMAIN buffers :
    buffers[k].released <=> buffers[k].id \notin held \union releases

(* The pool's buffers are all different and all of the pool's size, so what *)
(* a redraw commits fits the last configure it saw.                         *)
PoolIsUniform ==
  /\ \A j, k \in DOMAIN buffers : buffers[j].id = buffers[k].id => j = k
  /\ \A k \in DOMAIN buffers : buffers[k].size = size
===============================================================================
