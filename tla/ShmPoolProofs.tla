----------------------------- MODULE ShmPoolProofs -----------------------------
(***************************************************************************)
(* For any bound, any sizes and any number of buffers: the pool's flags    *)
(* tell what the compositor holds, and the pool stays uniform.             *)
(*                                                                         *)
(* The two properties and the typing are inductive together once it is     *)
(* known that a buffer is not held and on its way back at the same time,   *)
(* and that there are no buffers before there is a pool.                   *)
(***************************************************************************)
EXTENDS ShmPool, TLAPS

HeldOrReturning == held \intersect releases = {}

NoPoolYet == ~created => buffers = <<>>

Inv == TypeOK /\ FlagsAreTrue /\ PoolIsUniform /\ HeldOrReturning /\ NoPoolYet

(* The invariant holds at the start.                                        *)
LEMMA InvInit == Init => Inv
<1> SUFFICES ASSUME Init PROVE Inv
  OBVIOUS
<1>1. TypeOK
  <2>1. buffers \in Seq(Entry) /\ Len(buffers) = 0
    BY DEF Init
  <2>2. Len(buffers) <= MAX_BUFFERS
    BY <2>1, PoolAssumption
  <2>3. created \in BOOLEAN
    BY Zenon DEF Init
  <2>4. size \in Size /\ held \subseteq Buffer /\ releases \subseteq Buffer
    BY DEF Init
  <2> QED
    BY <2>1, <2>2, <2>3, <2>4 DEF TypeOK
<1>2. FlagsAreTrue /\ PoolIsUniform /\ HeldOrReturning /\ NoPoolYet
  BY DEF Init, FlagsAreTrue, PoolIsUniform, HeldOrReturning, NoPoolYet
<1> QED BY <1>1, <1>2 DEF Inv

(* What two allocations, successful or not, add to a pool.                  *)
LEMMA AllocationsProperties ==
  ASSUME NEW sz \in Size, NEW new \in Allocations(sz)
  PROVE  /\ new \in Seq(Entry) /\ Len(new) \in 0..2
         /\ \A k \in DOMAIN new : Fresh(new[k].id) /\ new[k].released /\ new[k].size = sz
         /\ \A j, k \in DOMAIN new : new[j].id = new[k].id => j = k
<1> DEFINE entry(b) == [id |-> b, released |-> TRUE, size |-> sz]
<1>1. CASE new = <<>>
  BY <1>1
<1>2. ASSUME NEW b \in Buffer, Fresh(b), new = <<entry(b)>>
      PROVE  /\ new \in Seq(Entry) /\ Len(new) \in 0..2
             /\ \A k \in DOMAIN new : Fresh(new[k].id) /\ new[k].released /\ new[k].size = sz
             /\ \A j, k \in DOMAIN new : new[j].id = new[k].id => j = k
  BY <1>2 DEF Entry
<1>3. ASSUME NEW b \in Buffer, NEW c \in Buffer, Fresh(b), Fresh(c), b # c,
             new = <<entry(b), entry(c)>>
      PROVE  /\ new \in Seq(Entry) /\ Len(new) \in 0..2
             /\ \A k \in DOMAIN new : Fresh(new[k].id) /\ new[k].released /\ new[k].size = sz
             /\ \A j, k \in DOMAIN new : new[j].id = new[k].id => j = k
  BY <1>3 DEF Entry
<1> QED BY <1>1, <1>2, <1>3 DEF Allocations

(* A pool made of fresh buffers only.                                       *)
LEMMA InvReplace ==
  ASSUME Inv, NEW sz \in Size, NEW new \in Allocations(sz),
         size' = sz, buffers' = new, created' = TRUE, UNCHANGED <<held, releases>>
  PROVE  Inv'
<1>1. TypeOK'
  BY AllocationsProperties, PoolAssumption DEF Inv, TypeOK
<1>2. FlagsAreTrue' /\ PoolIsUniform' /\ HeldOrReturning' /\ NoPoolYet'
  BY AllocationsProperties
  DEF Inv, FlagsAreTrue, PoolIsUniform, HeldOrReturning, NoPoolYet, Fresh
<1> QED BY <1>1, <1>2 DEF Inv

(* A new pool satisfies the invariant.                                      *)
LEMMA InvNew ==
  ASSUME Inv, New
  PROVE  Inv'
<1>1. PICK new \in Allocations(size) :
        IF Len(new) = 2 THEN created' = TRUE /\ buffers' = new
        ELSE UNCHANGED <<created, buffers>>
  BY DEF New
<1>2. CASE Len(new) = 2
  BY <1>1, <1>2, InvReplace DEF New, Inv, TypeOK
<1>3. CASE Len(new) # 2
  BY <1>1, <1>3 DEF New, Inv, TypeOK, FlagsAreTrue, PoolIsUniform, HeldOrReturning, NoPoolYet
<1> QED BY <1>2, <1>3

(* A resize keeps the invariant.                                            *)
LEMMA InvResize ==
  ASSUME Inv, NEW sz \in Size, Resize(sz)
  PROVE  Inv'
<1>1. CASE created
  <2>1. PICK new \in Allocations(sz) : buffers' = new
    BY <1>1 DEF Resize
  <2> QED
    BY <1>1, <2>1, InvReplace DEF Resize
<1>2. CASE ~created
  <2>1. buffers = <<>> /\ size' = sz /\ UNCHANGED <<created, buffers, held, releases>>
    BY <1>2 DEF Resize, Inv, NoPoolYet
  <2> QED
    BY <1>2, <2>1 DEF Inv, TypeOK, FlagsAreTrue, PoolIsUniform, HeldOrReturning, NoPoolYet
<1> QED BY <1>1, <1>2

(* Drawing into a free buffer keeps the invariant.                          *)
LEMMA InvDrawFree ==
  ASSUME Inv, DrawFree
  PROVE  Inv'
<1>1. PICK k \in DOMAIN buffers :
        /\ buffers[k].released
        /\ buffers' = [buffers EXCEPT ![k].released = FALSE]
        /\ held' = held \union {buffers[k].id}
        /\ UNCHANGED <<created, size, releases>>
  BY DEF DrawFree
<1> k \in 1..Len(buffers) /\ buffers[k] \in Entry
  BY DEF Inv, TypeOK
<1>a. /\ Len(buffers) \in Nat /\ DOMAIN buffers = 1..Len(buffers)
      /\ \A j \in 1..Len(buffers) : buffers[j] \in Entry
  BY DEF Inv, TypeOK
<1>b. buffers' = [j \in 1..Len(buffers) |->
                    IF j = k THEN [buffers[k] EXCEPT !.released = FALSE] ELSE buffers[j]]
  BY <1>1, <1>a
<1>c. /\ buffers'[k] \in Entry /\ ~buffers'[k].released
      /\ buffers'[k].id = buffers[k].id /\ buffers'[k].size = buffers[k].size
  BY <1>b DEF Entry
<1>d. \A j \in (1..Len(buffers)) \ {k} : buffers'[j] = buffers[j]
  BY <1>b
<1>e. buffers' \in Seq(Entry) /\ Len(buffers') = Len(buffers)
  <2>1. \A j \in 1..Len(buffers) : buffers'[j] \in Entry
    BY <1>a, <1>c, <1>d
  <2>2. buffers' \in [1..Len(buffers) -> Entry]
    BY <1>b, <2>1
  <2>3. \A n \in Nat : \A f \in [1..n -> Entry] : f \in Seq(Entry) /\ Len(f) = n
    OBVIOUS
  <2> QED BY ONLY <1>a, <2>2, <2>3
<1>2. /\ buffers' \in Seq(Entry) /\ Len(buffers') = Len(buffers)
      /\ ~buffers'[k].released
      /\ \A j \in DOMAIN buffers : /\ buffers'[j].id = buffers[j].id
                                  /\ buffers'[j].size = buffers[j].size
                                  /\ j # k => buffers'[j].released = buffers[j].released
  BY <1>a, <1>c, <1>d, <1>e
<1>3. DOMAIN buffers' = DOMAIN buffers
  BY <1>2 DEF Inv, TypeOK
<1>4. TypeOK'
  BY <1>1, <1>2 DEF Inv, TypeOK, Entry
<1>5. FlagsAreTrue'
  BY <1>1, <1>2, <1>3 DEF Inv, FlagsAreTrue, PoolIsUniform
<1>6. PoolIsUniform' /\ HeldOrReturning' /\ NoPoolYet'
  BY <1>1, <1>2, <1>3 DEF Inv, FlagsAreTrue, PoolIsUniform, HeldOrReturning, NoPoolYet
<1> QED BY <1>4, <1>5, <1>6 DEF Inv

(* Drawing into an added buffer keeps the invariant.                        *)
LEMMA InvDrawGrow ==
  ASSUME Inv, DrawGrow
  PROVE  Inv'
<1>1. PICK b \in Buffer :
        /\ Fresh(b)
        /\ buffers' = Append(buffers, [id |-> b, released |-> FALSE, size |-> size])
        /\ held' = held \union {b}
        /\ created /\ Len(buffers) < MAX_BUFFERS
        /\ UNCHANGED <<created, size, releases>>
  BY DEF DrawGrow
<1> DEFINE e == [id |-> b, released |-> FALSE, size |-> size]
<1>2. /\ e \in Entry /\ buffers' \in Seq(Entry) /\ Len(buffers') = Len(buffers) + 1
      /\ \A j \in DOMAIN buffers : buffers'[j] = buffers[j]
      /\ buffers'[Len(buffers) + 1] = e
      /\ DOMAIN buffers' = DOMAIN buffers \union {Len(buffers) + 1}
  BY <1>1 DEF Inv, TypeOK, Entry
<1>3. \A j \in DOMAIN buffers : buffers[j].id # b
  BY <1>1 DEF Fresh, InPool
<1>4. TypeOK'
  BY <1>1, <1>2, PoolAssumption DEF Inv, TypeOK
<1>5. FlagsAreTrue'
  BY <1>1, <1>2, <1>3 DEF Inv, FlagsAreTrue
<1>6. PoolIsUniform'
  BY <1>1, <1>2, <1>3 DEF Inv, PoolIsUniform
<1>7. HeldOrReturning' /\ NoPoolYet'
  BY <1>1 DEF Inv, HeldOrReturning, NoPoolYet, Fresh
<1> QED BY <1>4, <1>5, <1>6, <1>7 DEF Inv

(* The compositor's release keeps the invariant.                            *)
LEMMA InvRelease ==
  ASSUME Inv, NEW b \in Buffer, Release(b)
  PROVE  Inv'
  BY DEF Inv, TypeOK, FlagsAreTrue, PoolIsUniform, HeldOrReturning, NoPoolYet, Release

(* Reading a release event keeps the invariant.                             *)
LEMMA InvMarkReleased ==
  ASSUME Inv, NEW b \in Buffer, MarkReleased(b)
  PROVE  Inv'
<1>1. /\ buffers' \in Seq(Entry) /\ Len(buffers') = Len(buffers)
      /\ DOMAIN buffers' = DOMAIN buffers
      /\ \A j \in DOMAIN buffers :
           /\ buffers'[j].id = buffers[j].id
           /\ buffers'[j].size = buffers[j].size
           /\ buffers'[j].released <=> buffers[j].id = b \/ buffers[j].released
  <2>1. /\ Len(buffers) \in Nat /\ DOMAIN buffers = 1..Len(buffers)
        /\ \A j \in 1..Len(buffers) : buffers[j] \in Entry
    BY DEF Inv, TypeOK
  <2>2. buffers' = [j \in 1..Len(buffers) |->
                      IF buffers[j].id = b THEN [buffers[j] EXCEPT !.released = TRUE]
                      ELSE buffers[j]]
    BY <2>1 DEF MarkReleased
  <2>3. \A e \in Entry : LET f == [e EXCEPT !.released = TRUE] IN
          f \in Entry /\ f.id = e.id /\ f.size = e.size /\ f.released
    BY DEF Entry
  <2>4. \A j \in 1..Len(buffers) :
           /\ buffers'[j] \in Entry
           /\ buffers'[j].id = buffers[j].id
           /\ buffers'[j].size = buffers[j].size
           /\ buffers'[j].released <=> buffers[j].id = b \/ buffers[j].released
    <3> TAKE j \in 1..Len(buffers)
    <3>1. CASE buffers[j].id = b
      <4>1. buffers'[j] = [buffers[j] EXCEPT !.released = TRUE]
        BY <2>2, <3>1
      <4> QED BY <2>1, <2>3, <3>1, <4>1
    <3>2. CASE buffers[j].id # b
      BY <2>1, <2>2, <3>2
    <3> QED BY <3>1, <3>2
  <2>5. buffers' \in Seq(Entry) /\ Len(buffers') = Len(buffers)
    BY <2>1, <2>2, <2>4
  <2> QED BY <2>1, <2>4, <2>5
<1>2. TypeOK'
  BY <1>1 DEF Inv, TypeOK, MarkReleased
<1>3. FlagsAreTrue'
  BY <1>1 DEF Inv, FlagsAreTrue, HeldOrReturning, MarkReleased
<1>4. PoolIsUniform' /\ HeldOrReturning' /\ NoPoolYet'
  BY <1>1 DEF Inv, TypeOK, PoolIsUniform, HeldOrReturning, NoPoolYet, MarkReleased
<1> QED BY <1>2, <1>3, <1>4 DEF Inv

(* Every step keeps the invariant.                                          *)
LEMMA InvNext == Inv /\ [Next]_vars => Inv'
<1> SUFFICES ASSUME Inv, [Next]_vars PROVE Inv'
  OBVIOUS
<1>1. CASE UNCHANGED vars
  BY <1>1 DEF vars, Inv, TypeOK, FlagsAreTrue, PoolIsUniform, HeldOrReturning, NoPoolYet
<1>2. CASE Next
  BY <1>2, InvNew, InvResize, InvDrawFree, InvDrawGrow, InvRelease, InvMarkReleased DEF Next
<1> QED BY <1>1, <1>2

(* A redraw paints only buffers that the compositor is done with, finds     *)
(* every one of them, and commits a buffer of the size last configured.     *)
THEOREM PoolCorrect == Spec => [](TypeOK /\ FlagsAreTrue /\ PoolIsUniform)
<1>1. Inv => TypeOK /\ FlagsAreTrue /\ PoolIsUniform BY DEF Inv
<1> QED BY <1>1, InvInit, InvNext, PTL DEF Spec

(* Every variable keeps its type, whatever the handlers and threads do.     *)
THEOREM TypeCorrect == Spec => []TypeOK
  BY PoolCorrect, PTL

(* The buffers of a pool are distinct and of its size, across resizes and   *)
(* growth (ShmPool::resize, ShmPool::find_free_or_grow).                    *)
THEOREM PoolIsUniformCorrect == Spec => []PoolIsUniform
  BY PoolCorrect, PTL

===============================================================================
