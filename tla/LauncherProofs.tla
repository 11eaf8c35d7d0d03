-------------------------- MODULE LauncherProofs --------------------------
(***************************************************************************)
(* For any number of launchers and files: a flock never outlives the       *)
(* launcher that took it, and no two launchers run on one file.            *)
(*                                                                         *)
(* The invariant says who owns what.  NoLeakedLock reads it from the file  *)
(* to the process; RunnersOwn, which no run checks by itself, reads it     *)
(* from the process to the file, and OnePerFile follows because holder is  *)
(* a function.                                                             *)
(*                                                                         *)
(* Below: the launcher's window.  What the scan keeps, by induction over   *)
(* the entries read; that every list of it holds them all; that the        *)
(* matches can be ordered; and that Enter launches what a frame shows.     *)
(***************************************************************************)
EXTENDS Programs, FiniteSetTheorems, FunctionTheorems, WellFoundedInduction, TLAPS

(* A launcher that runs, or is on its way out, has its file's flock.        *)
RunnersOwn == \A p \in Proc : pc[p] \in {"running", "unlinked"} => holder[fd[p]] = p

Inv == TypeOK /\ NoLeakedLock /\ RunnersOwn

(* No launcher runs at the start.                                           *)
LEMMA InvInit == Init => Inv
  BY ProcAssumption, InodeAssumption
  DEF Init, Inv, TypeOK, Place, NoLeakedLock, RunnersOwn

(* Closing p's descriptor keeps the typing and touches only p's flocks.     *)
LEMMA CloseProperties ==
  ASSUME Inv, NEW p \in Proc, Close(p)
  PROVE  /\ fd' \in [Proc -> Inode \union {NoInode}]
         /\ holder' \in [Inode -> Proc \union {NoProc}]
         /\ fd'[p] = NoInode
         /\ \A q \in Proc \ {p} : fd'[q] = fd[q]
         /\ \A i \in Inode : holder'[i] = IF holder[i] = p THEN NoProc ELSE holder[i]
  BY DEF Inv, TypeOK, Close

(* Every way in which a launcher ends keeps the invariant.                  *)
LEMMA InvClose ==
  ASSUME Inv, NEW p \in Proc, Close(p), pc' = [pc EXCEPT ![p] = "absent"], UNCHANGED path
  PROVE  Inv'
<1>1. TypeOK'
  BY CloseProperties DEF Inv, TypeOK, Place
<1>2. NoLeakedLock'
  <2> SUFFICES ASSUME NEW i \in Inode, holder'[i] # NoProc
               PROVE  fd'[holder'[i]] = i /\ pc'[holder'[i]] \in {"running", "unlinked"}
    BY DEF NoLeakedLock
  <2>1. holder'[i] = holder[i] /\ holder[i] \in Proc \ {p}
    BY CloseProperties DEF Inv, TypeOK
  <2> QED
    BY <2>1, CloseProperties DEF Inv, TypeOK, NoLeakedLock
<1>3. RunnersOwn'
  <2> SUFFICES ASSUME NEW q \in Proc
               PROVE  pc'[q] \in {"running", "unlinked"} => holder'[fd'[q]] = q
    BY DEF RunnersOwn
  <2>1. CASE q = p
    BY <2>1, CloseProperties DEF Inv, TypeOK
  <2>2. CASE q # p
    BY <2>2, CloseProperties DEF Inv, TypeOK, RunnersOwn
  <2> QED BY <2>1, <2>2
<1> QED BY <1>1, <1>2, <1>3 DEF Inv

(* Opening or creating the lock file keeps the invariant.                   *)
LEMMA InvOpen ==
  ASSUME Inv, NEW p \in Proc, Open(p)
  PROVE  Inv'
<1> PICK i \in Inode : path' = i /\ fd' = [fd EXCEPT ![p] = i]
  BY DEF Open
<1>1. TypeOK'
  BY InodeAssumption DEF Inv, TypeOK, Place, Open
<1>2. NoLeakedLock'
  BY ProcAssumption DEF Inv, TypeOK, NoLeakedLock, Open
<1>3. RunnersOwn'
  BY DEF Inv, TypeOK, RunnersOwn, Open
<1> QED BY <1>1, <1>2, <1>3 DEF Inv

(* Taking the flock, or failing to, keeps the invariant.                    *)
LEMMA InvFlock ==
  ASSUME Inv, NEW p \in Proc, Flock(p)
  PROVE  Inv'
<1>1. CASE holder[fd[p]] = NoProc
  <2> fd[p] \in Inode
    BY InodeAssumption DEF Inv, TypeOK, Flock
  <2>a. /\ holder' = [holder EXCEPT ![fd[p]] = p]
        /\ pc' = [pc EXCEPT ![p] = "running"]
        /\ pc[p] = "opened"
        /\ UNCHANGED <<path, fd>>
    BY <1>1 DEF Flock
  <2>1. TypeOK'
    BY <2>a DEF Inv, TypeOK, Place
  <2>2. NoLeakedLock'
    BY <2>a, ProcAssumption DEF Inv, TypeOK, NoLeakedLock
  <2>3. RunnersOwn'
    BY <2>a, <1>1, ProcAssumption DEF Inv, TypeOK, RunnersOwn
  <2> QED BY <2>1, <2>2, <2>3 DEF Inv
<1>2. CASE holder[fd[p]] # NoProc
  BY <1>2, InvClose DEF Flock
<1> QED BY <1>1, <1>2

(* Removing the name changes nobody's file.                                 *)
LEMMA InvUnlink ==
  ASSUME Inv, NEW p \in Proc, Unlink(p)
  PROVE  Inv'
<1>1. TypeOK'
  BY DEF Inv, TypeOK, Place, Unlink
<1>2. NoLeakedLock'
  BY DEF Inv, TypeOK, NoLeakedLock, Unlink
<1>3. RunnersOwn'
  BY DEF Inv, TypeOK, RunnersOwn, Unlink
<1> QED BY <1>1, <1>2, <1>3 DEF Inv

(* A launcher that ends without the lock keeps the invariant.               *)
LEMMA InvLockless ==
  ASSUME Inv, NEW p \in Proc, OpenFails(p) \/ ExitLockless(p)
  PROVE  Inv'
<1>1. TypeOK'
  BY DEF Inv, TypeOK, Place, OpenFails, ExitLockless
<1>2. NoLeakedLock'
  <2> SUFFICES ASSUME NEW i \in Inode, holder[i] # NoProc
               PROVE  fd[holder[i]] = i /\ pc'[holder[i]] \in {"running", "unlinked"}
    BY DEF NoLeakedLock, OpenFails, ExitLockless
  <2>1. holder[i] \in Proc /\ holder[i] # p
    BY DEF Inv, TypeOK, NoLeakedLock, OpenFails, ExitLockless
  <2> QED
    BY <2>1 DEF Inv, TypeOK, NoLeakedLock, OpenFails, ExitLockless
<1>3. RunnersOwn'
  BY DEF Inv, TypeOK, RunnersOwn, OpenFails, ExitLockless
<1> QED BY <1>1, <1>2, <1>3 DEF Inv

(* Every step keeps the invariant.                                          *)
LEMMA InvNext == Inv /\ [Next]_vars => Inv'
<1> SUFFICES ASSUME Inv, [Next]_vars PROVE Inv'
  OBVIOUS
<1>1. CASE UNCHANGED vars
  BY <1>1 DEF vars, Inv, TypeOK, NoLeakedLock, RunnersOwn
<1>2. ASSUME NEW p \in Proc,
             \/ Open(p) \/ OpenFails(p) \/ Flock(p)
             \/ Unlink(p) \/ Exit(p) \/ ExitLockless(p) \/ Kill(p)
      PROVE  Inv'
  <2>1. CASE Open(p) BY <2>1, InvOpen
  <2>2. CASE Flock(p) BY <2>2, InvFlock
  <2>3. CASE Unlink(p) BY <2>3, InvUnlink
  <2>4. CASE Exit(p) BY <2>4, InvClose DEF Exit
  <2>5. CASE Kill(p) BY <2>5, InvClose DEF Kill
  <2>6. CASE OpenFails(p) \/ ExitLockless(p) BY <2>6, InvLockless
  <2> QED BY <1>2, <2>1, <2>2, <2>3, <2>4, <2>5, <2>6
<1> QED BY <1>1, <1>2 DEF Next

(* Two launchers with one file are both its holder.                         *)
LEMMA InvImpliesOnePerFile == Inv => OnePerFile
  BY DEF Inv, RunnersOwn, OnePerFile

(* No flock outlives its launcher: acquire_lock is never kept out by what a *)
(* crashed or finished launcher left behind.                                *)
THEOREM NoLeakedLockCorrect == Spec => []NoLeakedLock
<1>1. Inv => NoLeakedLock BY DEF Inv
<1> QED BY <1>1, InvInit, InvNext, PTL DEF Spec

(* The exclusivity that acquire_lock and LockGuard give: one launcher per   *)
(* file, though not one launcher.                                           *)
THEOREM OnePerFileCorrect == Spec => [](TypeOK /\ OnePerFile)
<1>1. Inv => TypeOK /\ OnePerFile BY InvImpliesOnePerFile DEF Inv
<1> QED BY <1>1, InvInit, InvNext, PTL DEF Spec

(* Every variable keeps its type, whatever the handlers and threads do.     *)
THEOREM TypeCorrect == Spec => []TypeOK
  BY OnePerFileCorrect, PTL

-------------------------------------------------------------------------------
(* Numbers, and sets in an order.                                           *)

(* A set of natural numbers has a least one.                                *)
LEMMA LeastNumber ==
  ASSUME NEW A \in SUBSET Nat, A # {}
  PROVE  \E n \in A : \A m \in A : n <= m
<1> DEFINE R == OpToRel(<, Nat)
<1>1. IsWellFoundedOn(R, Nat)
  BY NatLessThanWellFounded, Zenon
<1>2. ASSUME NEW n \in Nat, NEW m \in Nat PROVE <<m, n>> \in R <=> m < n
  BY DEF OpToRel
<1> HIDE DEF R
<1>3. \E n \in A : \A m \in A : ~(<<m, n>> \in R)
  BY <1>1, WFMin, Zenon
<1>4. PICK n \in A : \A m \in A : ~(<<m, n>> \in R)
  BY <1>3
<1>5. ASSUME NEW m \in A PROVE n <= m
  <2>1. ~(m < n)
    BY <1>2, <1>4
  <2>2. m \in Nat /\ n \in Nat
    OBVIOUS
  <2>3. QED
    BY <2>1, <2>2
<1>6. QED
  BY <1>5

(* Induction, for a set instead of a predicate.                             *)
LEMMA SetInduction ==
  ASSUME NEW A \in SUBSET Nat, 0 \in A, \A n \in A : n + 1 \in A
  PROVE  A = Nat
<1> SUFFICES ASSUME Nat \ A # {} PROVE FALSE
  OBVIOUS
<1>1. PICK n \in Nat \ A : \A m \in Nat \ A : n <= m
  BY LeastNumber
<1>2. n - 1 \in Nat /\ ~(n <= n - 1)
  BY <1>1
<1>3. QED
  BY <1>1, <1>2

StrictOrder(R, A) ==
  /\ \A a \in A : <<a, a>> \notin R
  /\ \A a, b, c \in A : <<a, b>> \in R /\ <<b, c>> \in R => <<a, c>> \in R
  /\ \A a, b \in A : a = b \/ <<a, b>> \in R \/ <<b, a>> \in R

(* A finite set has a last element.                                         *)
LEMMA LastExists ==
  ASSUME NEW A, IsFiniteSet(A), A # {}, NEW R, StrictOrder(R, A)
  PROVE  \E l \in A : \A a \in A \ {l} : <<a, l>> \in R
<1> DEFINE Last(B, l) == \A a \in B \ {l} : <<a, l>> \in R
           N == {n \in Nat : \A B \in SUBSET A :
                   Cardinality(B) = n /\ B # {} => \E l \in B : Last(B, l)}
<1>1. \A B \in SUBSET A : IsFiniteSet(B) /\ Cardinality(B) \in Nat
  BY FS_Subset, FS_CardinalityType
<1>2. 0 \in N
  BY <1>1, FS_EmptySet
<1>3. ASSUME NEW n \in N PROVE n + 1 \in N
  <2>1. n \in Nat /\ n + 1 \in Nat
    OBVIOUS
  <2>2. ASSUME NEW B \in SUBSET A, Cardinality(B) = n + 1 PROVE \E l \in B : Last(B, l)
    <3>1. B # {}
      <4>1. n + 1 # 0
        BY <2>1
      <4>2. QED
        BY <2>2, <4>1, FS_EmptySet
    <3>2. PICK x \in B : TRUE
      BY <3>1
    <3> DEFINE C == B \ {x}
    <3>3. C \in SUBSET A /\ Cardinality(C) = n
      <4>1. Cardinality(C) = Cardinality(B) - 1
        BY <1>1, FS_RemoveElement
      <4>2. QED
        BY <2>1, <2>2, <4>1
    <3>4. CASE C = {}
      <4>1. \A a \in B : a = x
        BY <3>4
      <4>2. QED
        BY <4>1
    <3>5. CASE C # {}
      <4>1. PICK l \in C : Last(C, l)
        BY <3>3, <3>5
      <4>2. CASE <<l, x>> \in R
        <5>1. ASSUME NEW a \in B \ {x} PROVE <<a, x>> \in R
          <6>1. CASE a = l
            BY <4>2, <6>1
          <6>2. CASE a # l
            <7>1. <<a, l>> \in R
              BY <4>1, <6>2
            <7>2. a \in A /\ l \in A /\ x \in A
              OBVIOUS
            <7>3. QED
              BY <4>2, <7>1, <7>2 DEF StrictOrder
          <6>3. QED
            BY <6>1, <6>2
        <5>2. QED
          BY <5>1
      <4>3. CASE <<x, l>> \in R
        <5>1. \A a \in B \ {l} : a = x \/ a \in C \ {l}
          OBVIOUS
        <5>2. QED
          BY <4>1, <4>3, <5>1
      <4>4. l # x /\ l \in A /\ x \in A
        OBVIOUS
      <4>5. QED
        BY <4>2, <4>3, <4>4 DEF StrictOrder
    <3>6. QED
      BY <3>4, <3>5
  <2>3. QED
    BY <2>1, <2>2
<1> HIDE DEF N
<1>4. N \in SUBSET Nat
  BY DEF N
<1>5. N = Nat
  BY <1>2, <1>3, <1>4, SetInduction
<1>6. Cardinality(A) \in N
  BY <1>1, <1>5
<1>7. QED
  BY <1>6 DEF N

Increases(order, R) == \A j, k \in DOMAIN order : j < k => <<order[j], order[k]>> \in R

(* A finite set can be put in its order.                                    *)
LEMMA OrderExists ==
  ASSUME NEW A, IsFiniteSet(A), NEW R, StrictOrder(R, A)
  PROVE  \E order \in [1..Cardinality(A) -> A] : Increases(order, R)
<1> DEFINE N == {n \in Nat : \A B \in SUBSET A :
                   Cardinality(B) = n => \E order \in [1..n -> B] : Increases(order, R)}
<1>1. \A B \in SUBSET A : IsFiniteSet(B) /\ Cardinality(B) \in Nat
  BY FS_Subset, FS_CardinalityType
<1>2. 0 \in N
  <2>1. ASSUME NEW B \in SUBSET A PROVE \E order \in [1..0 -> B] : Increases(order, R)
    <3>1. 1..0 = {}
      OBVIOUS
    <3>2. [b \in {} |-> b] \in [1..0 -> B] /\ Increases([b \in {} |-> b], R)
      BY <3>1 DEF Increases
    <3>3. QED
      BY <3>2
  <2>2. QED
    BY <2>1
<1>3. ASSUME NEW n \in N PROVE n + 1 \in N
  <2>1. n \in Nat /\ n + 1 \in Nat
    OBVIOUS
  <2>2. ASSUME NEW B \in SUBSET A, Cardinality(B) = n + 1
        PROVE  \E order \in [1..(n + 1) -> B] : Increases(order, R)
    <3>1. B # {}
      <4>1. n + 1 # 0
        BY <2>1
      <4>2. QED
        BY <2>2, <4>1, FS_EmptySet
    <3>2. PICK l \in B : \A a \in B \ {l} : <<a, l>> \in R
      <4>1. StrictOrder(R, B)
        BY DEF StrictOrder
      <4>2. QED
        BY <1>1, <3>1, <4>1, LastExists
    <3> DEFINE C == B \ {l}
    <3>3. C \in SUBSET A /\ Cardinality(C) = n
      <4>1. Cardinality(C) = Cardinality(B) - 1
        BY <1>1, FS_RemoveElement
      <4>2. QED
        BY <2>1, <2>2, <4>1
    <3>4. PICK before \in [1..n -> C] : Increases(before, R)
      BY <3>3
    <3> DEFINE order == [k \in 1..(n + 1) |-> IF k = n + 1 THEN l ELSE before[k]]
    <3>5. \A k \in 1..(n + 1) : k # n + 1 => k \in 1..n
      BY <2>1
    <3>6. order \in [1..(n + 1) -> B]
      BY <3>5
    <3>7. ASSUME NEW j \in 1..(n + 1), NEW k \in 1..(n + 1), j < k
          PROVE  <<order[j], order[k]>> \in R
      <4>1. j # n + 1 /\ j \in 1..n
        BY <2>1, <3>7
      <4>2. order[j] = before[j] /\ before[j] \in C
        BY <4>1
      <4>3. CASE k = n + 1
        BY <3>2, <4>2, <4>3
      <4>4. CASE k # n + 1
        <5>1. order[k] = before[k] /\ k \in 1..n
          BY <3>5, <4>4
        <5>2. <<before[j], before[k]>> \in R
          BY <3>4, <3>7, <4>1, <5>1 DEF Increases
        <5>3. QED
          BY <4>2, <5>1, <5>2
      <4>5. QED
        BY <4>3, <4>4
    <3>8. Increases(order, R)
      BY <3>7 DEF Increases
    <3>9. QED
      BY <3>6, <3>8
  <2>3. QED
    BY <2>1, <2>2
<1> HIDE DEF N
<1>4. N \in SUBSET Nat
  BY DEF N
<1>5. Cardinality(A) \in N
  BY <1>1, <1>2, <1>3, <1>4, SetInduction
<1>6. QED
  BY <1>5 DEF N

(* A list of a set's elements that has as many of them holds them all.      *)
LEMMA ListIsOnto ==
  ASSUME NEW A, IsFiniteSet(A), NEW list \in [1..Cardinality(A) -> A],
         \A j, k \in 1..Cardinality(A) : j # k => list[j] # list[k]
  PROVE  {list[k] : k \in 1..Cardinality(A)} = A
<1>1. Cardinality(A) \in Nat
  BY FS_CardinalityType
<1>2. IsFiniteSet(1..Cardinality(A)) /\ Cardinality(1..Cardinality(A)) = Cardinality(A)
  BY <1>1, FS_Interval
<1>3. list \in Injection(1..Cardinality(A), A)
  BY DEF Injection, IsInjective
<1>4. list \in Surjection(1..Cardinality(A), A)
  BY <1>2, <1>3, FS_Injection
<1>5. QED
  BY <1>4 DEF Surjection

-------------------------------------------------------------------------------
(* The scan.                                                                *)

(* What FoldLeft computes: a table of the entries kept of each set of files.*)
Table(g, D) ==
  g = [s \in SUBSET D |->
        IF s = {} THEN {} ELSE L!Insert(g[s \ {L!Max(s)}], files[L!Max(s)])]

(* The fold of the scan reads such a table.                                 *)
LEMMA FoldIsTable ==
  L!FoldLeft(L!Insert, {}, files) = (CHOOSE g : Table(g, DOMAIN files))[DOMAIN files]
  BY DEF L!FoldLeft, L!MapThenFoldSet, Table

(* The greatest of the numbers up to n, where n is one of them.             *)
LEMMA MaxShape ==
  ASSUME NEW n \in Nat, NEW s \in SUBSET (1..n), n \in s
  PROVE  L!Max(s) = n
<1>1. \A x \in s : x \in Int /\ x <= n
  OBVIOUS
<1>2. \A x \in s : (\A y \in s : x >= y) <=> x = n
  BY <1>1
<1>3. QED
  BY <1>2 DEF L!Max

(* There is such a table of the first n files.                              *)
LEMMA TableExists ==
  ASSUME NEW n \in Nat
  PROVE  \E g : Table(g, 1..n)
<1> DEFINE N == {m \in Nat : \E g : Table(g, 1..m)}
<1>1. 0 \in N
  <2>1. 1..0 = {} /\ SUBSET {} = {{}}
    OBVIOUS
  <2>2. Table([s \in {{}} |-> {}], 1..0)
    BY <2>1 DEF Table
  <2>3. QED
    BY <2>2
<1>2. ASSUME NEW m \in N PROVE m + 1 \in N
  <2>1. PICK g : Table(g, 1..m)
    OBVIOUS
  <2>2. m \in Nat /\ m + 1 \in Nat
    OBVIOUS
  <2> DEFINE D == 1..m
             E == 1..(m + 1)
             body(h, s) == IF s = {} THEN {} ELSE L!Insert(h[s \ {L!Max(s)}], files[L!Max(s)])
             new == [s \in SUBSET E |-> IF s \in SUBSET D THEN g[s]
                                        ELSE L!Insert(g[s \ {m + 1}], files[m + 1])]
  <2>3. \A s \in SUBSET E : s \notin SUBSET D => m + 1 \in s /\ s \ {m + 1} \in SUBSET D
    BY <2>2
  <2>4. SUBSET D \subseteq SUBSET E
    BY <2>2
  <2>5. ASSUME NEW s \in SUBSET E PROVE new[s] = body(new, s)
    <3>1. CASE s \in SUBSET D
      <4>1. s \ {L!Max(s)} \in SUBSET D
        BY <3>1
      <4>2. new[s] = g[s] /\ new[s \ {L!Max(s)}] = g[s \ {L!Max(s)}]
        BY <2>4, <3>1, <4>1
      <4>3. g[s] = body(g, s)
        BY <2>1, <3>1 DEF Table
      <4>4. QED
        BY <4>2, <4>3
    <3>2. CASE s \notin SUBSET D
      <4>1. m + 1 \in s /\ s \ {m + 1} \in SUBSET D /\ L!Max(s) = m + 1
        BY <2>2, <2>3, <3>2, MaxShape
      <4>2. new[s] = L!Insert(g[s \ {m + 1}], files[m + 1])
        BY <3>2
      <4>3. new[s \ {m + 1}] = g[s \ {m + 1}]
        BY <2>4, <4>1
      <4>4. QED
        BY <4>1, <4>2, <4>3
    <3>3. QED
      BY <3>1, <3>2
  <2>6. new = [s \in SUBSET E |-> body(new, s)]
    <3>1. new = [s \in SUBSET E |-> new[s]]
      OBVIOUS
    <3> HIDE DEF new
    <3>2. QED
      BY <2>5, <3>1
  <2>7. Table(new, 1..(m + 1))
    BY <2>6 DEF Table
  <2>8. QED
    BY <2>2, <2>7
<1> HIDE DEF N
<1>3. N \in SUBSET Nat
  BY DEF N
<1>4. n \in N
  BY <1>1, <1>2, <1>3, SetInduction
<1>5. QED
  BY <1>4 DEF N

(* The entries kept of the first m files, one after the other.              *)
LEMMA TableSteps ==
  ASSUME NEW n \in Nat, NEW g, Table(g, 1..n)
  PROVE  /\ g[1..0] = {}
         /\ \A m \in 1..n : g[1..m] = L!Insert(g[1..(m - 1)], files[m])
<1>1. g[1..0] = {}
  <2>1. 1..0 = {} /\ 1..0 \in SUBSET (1..n)
    OBVIOUS
  <2>2. QED
    BY <2>1 DEF Table
<1>2. ASSUME NEW m \in 1..n PROVE g[1..m] = L!Insert(g[1..(m - 1)], files[m])
  <2>1. m \in Nat /\ m \in 1..m /\ 1..m \in SUBSET (1..n) /\ (1..m) \ {m} = 1..(m - 1)
    OBVIOUS
  <2>2. L!Max(1..m) = m
    BY <2>1, MaxShape
  <2>3. g[1..m] = IF 1..m = {} THEN {} ELSE L!Insert(g[(1..m) \ {L!Max(1..m)}], files[L!Max(1..m)])
    BY <2>1 DEF Table
  <2>4. QED
    BY <2>1, <2>2, <2>3
<1>3. QED
  BY <1>1, <1>2

(* Which of two files of one name is preferred, and which of the first m    *)
(* files are preferred to all others of their name.                         *)
Wins(j, k) == IF files[j].home = files[k].home THEN j < k ELSE files[j].home = TRUE

Winners(m) ==
  {j \in 1..m : /\ L!VisibleIn(files[j])
                /\ \A k \in (1..m) \ {j} :
                     L!VisibleIn(files[k]) /\ files[k].name = files[j].name => Wins(j, k)}

(* Every visible name has a winner.                                         *)
Covered(m) ==
  \A k \in 1..m : L!VisibleIn(files[k]) => \E j \in Winners(m) : files[j].name = files[k].name

Won(m) == {files[j] : j \in Winners(m)}

(* One turn of the loop: an entry that is hidden, or no better than the one *)
(* of its name, changes nothing; any other one replaces it.                 *)
LEMMA InsertStep ==
  ASSUME NEW m \in Nat, \A k \in 1..(m + 1) : files[k].home \in BOOLEAN, Covered(m)
  PROVE  L!Insert(Won(m), files[m + 1]) = Won(m + 1) /\ Covered(m + 1)
<1> DEFINE e == files[m + 1]
           old == {o \in Won(m) : o.name = e.name}
           Better == L!VisibleIn(e) /\ \A o \in old : L!MoreSpecific(e, o)
<1>1. /\ 1..(m + 1) = 1..m \union {m + 1} /\ m + 1 \notin 1..m
      /\ \A k \in 1..m : k < m + 1 /\ ~(m + 1 < k)
  OBVIOUS
<1>2. \A k \in 1..(m + 1) : files[k].home = TRUE \/ files[k].home = FALSE
  OBVIOUS
<1>3. \A j \in Winners(m) : j \in 1..m /\ j \in 1..(m + 1) /\ L!VisibleIn(files[j])
  BY <1>1 DEF Winners
<1>4. CASE Better
  <2>1. ASSUME NEW k \in 1..m, L!VisibleIn(files[k]), files[k].name = e.name
        PROVE  e.home = TRUE /\ files[k].home = FALSE
    <3>1. PICK j \in Winners(m) : files[j].name = files[k].name
      BY <2>1 DEF Covered
    <3>2. files[j] \in old
      BY <2>1, <3>1 DEF Won
    <3>3. e.home = TRUE /\ files[j].home = FALSE
      BY <1>2, <1>3, <1>4, <3>2 DEF L!MoreSpecific
    <3>4. CASE k = j
      BY <3>3, <3>4
    <3>5. CASE k # j
      <4>1. Wins(j, k)
        BY <2>1, <3>1, <3>5 DEF Winners
      <4>2. files[k].home # TRUE
        BY <3>3, <4>1 DEF Wins
      <4>3. QED
        BY <1>1, <1>2, <3>3, <4>2
    <3>6. QED
      BY <3>4, <3>5
  <2>2. m + 1 \in Winners(m + 1)
    <3>1. L!VisibleIn(e)
      BY <1>4
    <3>2. ASSUME NEW k \in (1..(m + 1)) \ {m + 1}, L!VisibleIn(files[k]), files[k].name = e.name
          PROVE  Wins(m + 1, k)
      BY <1>1, <2>1, <3>2 DEF Wins
    <3>3. QED
      BY <1>1, <3>1, <3>2 DEF Winners
  <2>3. Winners(m + 1) = {j \in Winners(m) : files[j].name # e.name} \union {m + 1}
    <3>1. ASSUME NEW j \in Winners(m + 1), j # m + 1
          PROVE  j \in Winners(m) /\ files[j].name # e.name
      <4>1. j \in 1..m /\ L!VisibleIn(files[j])
        BY <1>1, <3>1 DEF Winners
      <4>2. j \in Winners(m)
        BY <1>1, <3>1, <4>1 DEF Winners
      <4>3. ASSUME files[j].name = e.name PROVE FALSE
        <5>1. Wins(j, m + 1)
          BY <1>1, <1>4, <3>1, <4>3 DEF Winners
        <5>2. e.home = TRUE /\ files[j].home = FALSE
          BY <2>1, <4>1, <4>3
        <5>3. QED
          BY <5>1, <5>2 DEF Wins
      <4>4. QED
        BY <4>2, <4>3
    <3>2. ASSUME NEW j \in Winners(m), files[j].name # e.name
          PROVE  j \in Winners(m + 1)
      BY <1>1, <3>2 DEF Winners
    <3>3. QED
      BY <2>2, <3>1, <3>2
  <2>4. L!Insert(Won(m), e) = (Won(m) \ old) \union {e}
    BY <1>4 DEF L!Insert
  <2>5. Won(m + 1) = (Won(m) \ old) \union {e}
    BY <2>3 DEF Won
  <2>6. Covered(m + 1)
    <3>1. ASSUME NEW k \in 1..(m + 1), L!VisibleIn(files[k])
          PROVE  \E j \in Winners(m + 1) : files[j].name = files[k].name
      <4>1. CASE files[k].name = e.name
        BY <2>2, <4>1
      <4>2. CASE files[k].name # e.name
        <5>1. k \in 1..m
          BY <1>1, <4>2
        <5>2. PICK j \in Winners(m) : files[j].name = files[k].name
          BY <3>1, <5>1 DEF Covered
        <5>3. QED
          BY <2>3, <4>2, <5>2
      <4>3. QED
        BY <4>1, <4>2
    <3>2. QED
      BY <3>1 DEF Covered
  <2>7. QED
    BY <2>4, <2>5, <2>6
<1>5. CASE ~Better
  <2>1. m + 1 \notin Winners(m + 1)
    <3>1. CASE ~L!VisibleIn(e)
      BY <3>1 DEF Winners
    <3>2. CASE L!VisibleIn(e)
      <4>1. PICK j \in Winners(m) : files[j].name = e.name /\ ~L!MoreSpecific(e, files[j])
        BY <1>5, <3>2 DEF Won
      <4>2. ~(e.home = TRUE /\ files[j].home = FALSE)
        BY <4>1 DEF L!MoreSpecific
      <4>3. ~Wins(m + 1, j)
        BY <1>1, <1>2, <1>3, <4>2 DEF Wins
      <4>4. QED
        BY <1>1, <1>3, <4>1, <4>3 DEF Winners
    <3>3. QED
      BY <3>1, <3>2
  <2>2. ASSUME NEW j \in Winners(m), L!VisibleIn(e), files[j].name = e.name
        PROVE  Wins(j, m + 1)
    <3>1. PICK i \in Winners(m) : files[i].name = e.name /\ ~L!MoreSpecific(e, files[i])
      BY <1>5, <2>2 DEF Won
    <3>2. i = j
      <4>1. CASE i # j
        <5>1. Wins(i, j) /\ Wins(j, i)
          BY <1>3, <2>2, <3>1, <4>1 DEF Winners
        <5>2. i \in Nat /\ j \in Nat /\ ~(i < j /\ j < i)
          BY <1>3
        <5>3. files[i].home = files[j].home => i < j /\ j < i
          BY <5>1 DEF Wins
        <5>4. files[i].home # files[j].home => files[i].home = TRUE /\ files[j].home = TRUE
          BY <5>1 DEF Wins
        <5>5. QED
          BY <5>2, <5>3, <5>4
      <4>2. QED
        BY <4>1
    <3>3. ~(e.home = TRUE /\ files[j].home = FALSE)
      BY <3>1, <3>2 DEF L!MoreSpecific
    <3>4. QED
      BY <1>1, <1>2, <1>3, <3>3 DEF Wins
  <2>3. Winners(m + 1) = Winners(m)
    <3>1. Winners(m + 1) \subseteq Winners(m)
      BY <1>1, <2>1 DEF Winners
    <3>2. ASSUME NEW j \in Winners(m) PROVE j \in Winners(m + 1)
      BY <1>1, <2>2 DEF Winners
    <3>3. QED
      BY <3>1, <3>2
  <2>4. L!Insert(Won(m), e) = Won(m)
    BY <1>5 DEF L!Insert
  <2>5. Covered(m + 1)
    <3>1. ASSUME NEW k \in 1..(m + 1), L!VisibleIn(files[k])
          PROVE  \E j \in Winners(m) : files[j].name = files[k].name
      <4>1. CASE k \in 1..m
        BY <3>1, <4>1 DEF Covered
      <4>2. CASE k = m + 1
        BY <1>5, <3>1, <4>2 DEF Won
      <4>3. QED
        BY <1>1, <4>1, <4>2
    <3>2. QED
      BY <2>3, <3>1 DEF Covered
  <2>6. QED
    BY <2>3, <2>4, <2>5 DEF Won
<1>6. QED
  BY <1>4, <1>5

(* The loop keeps the winners.                                              *)
LEMMA KeptAreWinners ==
  ASSUME files \in Seq(Entry)
  PROVE  L!FoldLeft(L!Insert, {}, files) = Won(Len(files))
<1> DEFINE n == Len(files)
<1>1. n \in Nat /\ DOMAIN files = 1..n /\ \A k \in 1..n : files[k] \in Entry
  OBVIOUS
<1>2. \A k \in 1..n : files[k].home \in BOOLEAN
  BY <1>1, EntryAssumption
<1> HIDE DEF n
<1>3. PICK g : Table(g, 1..n) /\ L!FoldLeft(L!Insert, {}, files) = g[1..n]
  <2>1. \E g : Table(g, 1..n)
    BY <1>1, TableExists
  <2>2. PICK g : g = CHOOSE h : Table(h, 1..n)
    OBVIOUS
  <2>3. Table(g, 1..n)
    BY <2>1, <2>2
  <2>4. QED
    BY <1>1, <2>2, <2>3, FoldIsTable
<1>4. g[1..0] = {} /\ \A m \in 1..n : g[1..m] = L!Insert(g[1..(m - 1)], files[m])
  BY <1>1, <1>3, TableSteps
<1> DEFINE N == {m \in Nat : m <= n => g[1..m] = Won(m) /\ Covered(m)}
<1>5. 0 \in N
  <2>1. 1..0 = {}
    OBVIOUS
  <2>2. Won(0) = {} /\ Covered(0)
    BY <2>1 DEF Won, Winners, Covered
  <2>3. QED
    BY <1>4, <2>2
<1>6. ASSUME NEW m \in N PROVE m + 1 \in N
  <2>1. SUFFICES ASSUME m + 1 <= n PROVE g[1..(m + 1)] = Won(m + 1) /\ Covered(m + 1)
    OBVIOUS
  <2>2. /\ m \in Nat /\ m <= n /\ m + 1 \in 1..n /\ (m + 1) - 1 = m
        /\ \A k \in 1..(m + 1) : k \in 1..n
    BY <1>1, <2>1
  <2>3. g[1..m] = Won(m) /\ Covered(m)
    BY <2>2
  <2>4. g[1..(m + 1)] = L!Insert(g[1..m], files[m + 1])
    BY <1>4, <2>2
  <2>5. \A k \in 1..(m + 1) : files[k].home \in BOOLEAN
    BY <1>2, <2>2
  <2>6. QED
    BY <2>2, <2>3, <2>4, <2>5, InsertStep
<1> HIDE DEF N
<1>7. N \in SUBSET Nat
  BY DEF N
<1>8. n \in N
  BY <1>1, <1>5, <1>6, <1>7, SetInduction
<1>9. g[1..n] = Won(n)
  BY <1>1, <1>8 DEF N
<1>10. QED
  BY <1>3, <1>9 DEF n

(* The cardinality the launcher speaks of is the one of the theorems.       *)
LEMMA CardinalityOfL == \A A : L!Cardinality(A) = Cardinality(A)
  BY DEF L!Cardinality, Cardinality

(* Two winners have different names.                                        *)
LEMMA WonShape ==
  ASSUME files \in Seq(Entry)
  PROVE  /\ Won(Len(files)) \subseteq Entry /\ IsFiniteSet(Won(Len(files)))
         /\ \A a, b \in Won(Len(files)) : a.name = b.name => a = b
<1> DEFINE n == Len(files)
<1>1. n \in Nat /\ \A k \in 1..n : files[k] \in Entry /\ files[k].home \in BOOLEAN
  BY EntryAssumption
<1> HIDE DEF n
<1>2. Winners(n) \subseteq 1..n
  BY DEF Winners
<1>3. Won(n) \subseteq Entry
  BY <1>1, <1>2 DEF Won
<1>4. IsFiniteSet(Won(n))
  <2>1. IsFiniteSet(Winners(n))
    BY <1>1, <1>2, FS_Interval, FS_Subset
  <2>2. [j \in Winners(n) |-> files[j]] \in Surjection(Winners(n), Won(n))
    BY DEF Surjection, Won
  <2>3. QED
    BY <2>1, <2>2, FS_Surjection
<1>5. ASSUME NEW i \in Winners(n), NEW j \in Winners(n), files[i].name = files[j].name
      PROVE  i = j
  <2>1. SUFFICES ASSUME i # j PROVE FALSE
    OBVIOUS
  <2>2. Wins(i, j) /\ Wins(j, i)
    BY <1>2, <1>5, <2>1 DEF Winners
  <2>3. i \in Nat /\ j \in Nat /\ ~(i < j /\ j < i)
    BY <1>2
  <2>4. files[i].home = files[j].home => i < j /\ j < i
    BY <2>2 DEF Wins
  <2>5. files[i].home # files[j].home => files[i].home = TRUE /\ files[j].home = TRUE
    BY <2>2 DEF Wins
  <2>6. QED
    BY <2>3, <2>4, <2>5
<1>6. \A a, b \in Won(n) : a.name = b.name => a = b
  BY <1>5 DEF Won
<1>7. QED
  BY <1>3, <1>4, <1>6 DEF n

(* Every list of the scan has all winners, with the names in order.         *)
LEMMA ScanShape ==
  ASSUME files \in Seq(Entry), NEW scan \in L!Scan
  PROVE  /\ scan \in Seq(Entry)
         /\ {scan[k] : k \in DOMAIN scan} = Won(Len(files))
         /\ \A j, k \in DOMAIN scan :
              j < k => scan[j].name # scan[k].name /\ scan[j].key <= scan[k].key
<1>1. PICK A : A = Won(Len(files))
  OBVIOUS
<1>2. /\ A \subseteq Entry /\ IsFiniteSet(A) /\ Cardinality(A) \in Nat
      /\ \A a, b \in A : a.name = b.name => a = b
  BY <1>1, WonShape, FS_CardinalityType
<1>3. L!Kept = A
  BY <1>1, KeptAreWinners DEF L!Kept
<1>4. /\ scan \in L!SetToSeqs(A)
      /\ \A j, k \in DOMAIN scan : j < k => scan[j].key <= scan[k].key
  BY <1>3 DEF L!Scan
<1>5. /\ scan \in [1..Cardinality(A) -> A]
      /\ \A j, k \in 1..Cardinality(A) : j # k => scan[j] # scan[k]
  BY <1>4, CardinalityOfL DEF L!SetToSeqs
<1>6. {scan[k] : k \in 1..Cardinality(A)} = A /\ DOMAIN scan = 1..Cardinality(A)
  BY <1>2, <1>5, ListIsOnto
<1>7. scan \in Seq(Entry)
  BY <1>2, <1>5
<1>8. ASSUME NEW j \in DOMAIN scan, NEW k \in DOMAIN scan, j < k
      PROVE  scan[j].name # scan[k].name
  <2>1. j # k /\ scan[j] \in A /\ scan[k] \in A
    BY <1>2, <1>5, <1>6, <1>8
  <2>2. QED
    BY <1>2, <1>5, <1>6, <2>1
<1>9. QED
  BY <1>1, <1>4, <1>6, <1>7, <1>8

(* So the scanned list is as OverridesWin says.                             *)
LEMMA ScanOverrides ==
  ASSUME files \in Seq(Entry), apps \in L!Scan
  PROVE  apps \in Seq(Entry) /\ L!OverridesWin
<1>1. /\ apps \in Seq(Entry)
      /\ {apps[k] : k \in DOMAIN apps} = Won(Len(files))
      /\ \A j, k \in DOMAIN apps :
           j < k => apps[j].name # apps[k].name /\ apps[j].key <= apps[k].key
  BY ScanShape
<1>2. PICK visible : visible = {k \in DOMAIN files : L!VisibleIn(files[k])}
  OBVIOUS
<1>3. DOMAIN files = 1..Len(files) /\ \A k \in DOMAIN files : files[k].home \in BOOLEAN
  BY EntryAssumption
<1>4. Winners(Len(files))
        = {j \in visible : \A k \in visible \ {j} : files[k].name = files[j].name =>
             IF files[j].home = files[k].home THEN j < k ELSE files[j].home}
  <2>1. \A j, k \in visible :
          Wins(j, k) <=> IF files[j].home = files[k].home THEN j < k ELSE files[j].home
    BY <1>2, <1>3 DEF Wins
  <2>2. QED
    BY <1>2, <1>3, <2>1 DEF Winners
<1>5. QED
  BY <1>1, <1>2, <1>4 DEF L!OverridesWin, L!ToSet, Won

-------------------------------------------------------------------------------
(* The launcher's window.                                                   *)

(* How well a query matches an entry of the list, and which of two comes    *)
(* before the other.                                                        *)
Points(q, k) == IF q = "" THEN 1 ELSE Score[q][apps[k].name]
Before(q, j, k) == Points(q, j) > Points(q, k) \/ (Points(q, j) = Points(q, k) /\ j < k)
Matches(q) == {k \in DOMAIN apps : Points(q, k) > 0}
Ranked(q) ==
  CHOOSE order \in [1..L!Cardinality(Matches(q)) -> Matches(q)] :
    \A j, k \in DOMAIN order : j < k => Before(q, order[j], order[k])

(* The matches can be put in their order.                                   *)
LEMMA RankedShape ==
  ASSUME apps \in Seq(Entry), NEW q \in Query
  PROVE  /\ Cardinality(Matches(q)) \in Nat
         /\ Ranked(q) \in [1..Cardinality(Matches(q)) -> Matches(q)]
<1>1. /\ DOMAIN apps = 1..Len(apps) /\ Len(apps) \in Nat
      /\ \A k \in DOMAIN apps : apps[k] \in Entry
  OBVIOUS
<1>2. PICK points : points = [k \in DOMAIN apps |-> Points(q, k)]
  OBVIOUS
<1>3. \A k \in DOMAIN apps : points[k] = Points(q, k) /\ points[k] \in Nat
  <2>1. CASE q = ""
    BY <1>2, <2>1 DEF Points
  <2>2. CASE q # ""
    BY <1>1, <1>2, <2>2, ScoreAssumption DEF Points
  <2>3. QED
    BY <2>1, <2>2
<1>4. PICK A : A = Matches(q)
  OBVIOUS
<1>5. A \subseteq 1..Len(apps) /\ \A k \in A : k \in Nat /\ points[k] \in Nat
  BY <1>1, <1>3, <1>4 DEF Matches
<1>6. IsFiniteSet(A) /\ Cardinality(A) \in Nat
  <2>1. IsFiniteSet(1..Len(apps))
    BY <1>1, FS_Interval
  <2>2. IsFiniteSet(A)
    BY <1>5, <2>1, FS_Subset
  <2>3. QED
    BY <2>2, FS_CardinalityType
<1>7. PICK R : R = {r \in A \X A : \/ points[r[1]] > points[r[2]]
                                   \/ points[r[1]] = points[r[2]] /\ r[1] < r[2]}
  OBVIOUS
<1>8. \A a, b \in A :
        <<a, b>> \in R <=> points[a] > points[b] \/ (points[a] = points[b] /\ a < b)
  BY <1>7
<1>9. StrictOrder(R, A)
  <2>1. \A a \in A : <<a, a>> \notin R
    BY <1>5, <1>8
  <2>2. ASSUME NEW a \in A, NEW b \in A, NEW c \in A, <<a, b>> \in R, <<b, c>> \in R
        PROVE  <<a, c>> \in R
    BY <1>5, <1>8, <2>2
  <2>3. ASSUME NEW a \in A, NEW b \in A PROVE a = b \/ <<a, b>> \in R \/ <<b, a>> \in R
    BY <1>5, <1>8
  <2>4. QED
    BY <2>1, <2>2, <2>3 DEF StrictOrder
<1>10. PICK order \in [1..Cardinality(A) -> A] : Increases(order, R)
  BY <1>6, <1>9, OrderExists
<1>11. \A j, k \in DOMAIN order : j < k => Before(q, order[j], order[k])
  <2>1. ASSUME NEW j \in DOMAIN order, NEW k \in DOMAIN order, j < k
        PROVE  Before(q, order[j], order[k])
    <3>1. <<order[j], order[k]>> \in R /\ order[j] \in A /\ order[k] \in A
      BY <1>10, <2>1 DEF Increases
    <3>2. \A a \in A : points[a] = Points(q, a)
      BY <1>3, <1>4 DEF Matches
    <3>3. QED
      BY <1>8, <3>1, <3>2 DEF Before
  <2>2. QED
    BY <2>1
<1>12. QED
  BY <1>4, <1>6, <1>10, <1>11, CardinalityOfL DEF Ranked

(* At most Limit entries of the list, and none of an empty one.             *)
LEMMA ResultsShape ==
  ASSUME apps \in Seq(Entry), NEW q \in Query
  PROVE  /\ L!Results(q) \in Seq(Entry) /\ Len(L!Results(q)) \in 0..Limit
         /\ DOMAIN L!Results(q) = 1..Len(L!Results(q))
         /\ apps = <<>> => L!Results(q) = <<>>
<1>1. DOMAIN apps = 1..Len(apps) /\ \A k \in DOMAIN apps : apps[k] \in Entry
  OBVIOUS
<1>2. PICK ranked : ranked = Ranked(q)
  OBVIOUS
<1>3. L!Results(q) = [k \in 1..(IF Len(ranked) < Limit THEN Len(ranked) ELSE Limit) |->
                        apps[ranked[k]]]
  <2>1. L!Results(q)
          = [k \in 1..(IF Len(Ranked(q)) < Limit THEN Len(Ranked(q)) ELSE Limit) |->
              apps[Ranked(q)[k]]]
    BY DEF L!Results, Ranked, Matches, Before, Points
  <2>2. QED
    BY <1>2, <2>1
<1>4. PICK size : size = Cardinality(Matches(q))
  OBVIOUS
<1>5. size \in Nat /\ ranked \in [1..size -> Matches(q)] /\ Len(ranked) = size
  BY <1>2, <1>4, RankedShape
<1>6. PICK n \in 0..Limit : L!Results(q) = [k \in 1..n |-> apps[ranked[k]]] /\ n <= size
  <2>1. CASE size < Limit
    BY <1>3, <1>5, <2>1, LimitAssumption
  <2>2. CASE ~(size < Limit)
    BY <1>3, <1>5, <2>2, LimitAssumption
  <2>3. QED
    BY <2>1, <2>2
<1>7. n \in Nat /\ \A k \in 1..n : k \in 1..size
  BY <1>5, <1>6, LimitAssumption
<1>8. \A k \in 1..n : apps[ranked[k]] \in Entry
  BY <1>1, <1>5, <1>7 DEF Matches
<1>9. L!Results(q) \in Seq(Entry) /\ Len(L!Results(q)) = n /\ DOMAIN L!Results(q) = 1..n
  BY <1>6, <1>7, <1>8
<1>10. ASSUME apps = <<>> PROVE n = 0
  <2>1. Matches(q) = {}
    BY <1>10 DEF Matches
  <2>2. size = 0
    BY <1>4, <2>1, FS_EmptySet
  <2>3. QED
    BY <1>6, <1>7, <2>2
<1>11. apps = <<>> => L!Results(q) = <<>>
  BY <1>9, <1>10
<1>12. QED
  BY <1>6, <1>9, <1>11

(* What is highlighted is an entry, and there is one whenever the selection *)
(* is within the results.                                                   *)
LEMMA HighlightedShape ==
  ASSUME apps \in Seq(Entry), NEW q \in Query, NEW k \in 0..(Limit - 1)
  PROVE  /\ L!Highlighted(q, k) \subseteq Entry
         /\ L!Highlighted(q, k) # {} <=> k < Len(L!Results(q))
         /\ apps = <<>> => L!Highlighted(q, k) = {}
<1>1. PICK results : results = L!Results(q)
  OBVIOUS
<1>2. /\ results \in Seq(Entry) /\ Len(results) \in Nat /\ DOMAIN results = 1..Len(results)
      /\ apps = <<>> => results = <<>>
  BY <1>1, ResultsShape, LimitAssumption
<1>3. k \in Nat
  BY LimitAssumption
<1>4. k + 1 \in DOMAIN results <=> k < Len(results)
  BY <1>2, <1>3
<1>5. k + 1 \in DOMAIN results => results[k + 1] \in Entry
  BY <1>2
<1>6. L!Highlighted(q, k) = IF k + 1 \in DOMAIN results THEN {results[k + 1]} ELSE {}
  BY <1>1 DEF L!Highlighted
<1>7. DOMAIN <<>> = {}
  OBVIOUS
<1>8. QED
  BY <1>1, <1>2, <1>4, <1>5, <1>6, <1>7

LTypes ==
  /\ files \in Seq(Entry) /\ apps \in Seq(Entry) /\ desktop \in Desktops
  /\ query \in Query /\ selected \in 0..(Limit - 1)
  /\ stale \in BOOLEAN
  /\ highlighted \subseteq Entry /\ launched \subseteq Entry

(* The selection is within the results, if there are any; what is drawn is  *)
(* what is selected; the list is what the scan made of the files.           *)
LInv ==
  /\ LTypes
  /\ apps \in L!Scan
  /\ L!Results(query) # <<>> => selected < Len(L!Results(query))
  /\ configured = TRUE /\ stale = FALSE => highlighted = L!Highlighted(query, selected)

(* At the start the first result is selected and nothing is drawn.          *)
LEMMA InitLInv == L!Init => LInv /\ (files = <<>> => apps = <<>>) /\ highlighted = {}
<1> SUFFICES ASSUME L!Init
             PROVE  LInv /\ (files = <<>> => apps = <<>>) /\ highlighted = {}
  OBVIOUS
<1>1. /\ desktop \in Desktops /\ apps \in L!Scan /\ query = "" /\ selected = 0
      /\ configured = FALSE /\ highlighted = {} /\ stale = FALSE /\ launched = {}
  BY DEF L!Init
<1>2. files \in Seq(Entry)
  <2>1. PICK m \in 0..MaxFiles : files \in [1..m -> Entry]
    BY DEF L!Init, L!BoundedSeq, L!SeqOf
  <2>2. m \in Nat
    BY LimitAssumption
  <2>3. QED
    BY <2>1, <2>2
<1>3. /\ apps \in Seq(Entry)
      /\ {apps[k] : k \in DOMAIN apps} = Won(Len(files))
  BY <1>1, <1>2, ScanShape
<1>4. ASSUME files = <<>> PROVE apps = <<>>
  <2>1. Len(files) = 0 /\ 1..0 = {}
    BY <1>4
  <2>2. Won(Len(files)) = {}
    BY <2>1 DEF Won, Winners
  <2>3. DOMAIN apps = {}
    BY <1>3, <2>2
  <2>4. QED
    BY <1>3, <2>3
<1>5. LTypes
  <2>1. query \in Query
    BY <1>1, ScoreAssumption
  <2>2. selected \in 0..(Limit - 1)
    <3>1. 0 \in 0..(Limit - 1)
      BY LimitAssumption
    <3>2. QED
      BY <1>1, <3>1
  <2>3. stale \in BOOLEAN
    BY <1>1
  <2>4. QED
    BY <1>1, <1>2, <1>3, <2>1, <2>2, <2>3 DEF LTypes
<1>6. L!Results(query) # <<>> => selected < Len(L!Results(query))
  <2>1. PICK results : results = L!Results(query)
    OBVIOUS
  <2>2. results \in Seq(Entry)
    BY <1>3, <1>5, <2>1, ResultsShape DEF LTypes
  <2>3. results # <<>> => 0 < Len(results)
    BY <2>2
  <2>4. QED
    BY <1>1, <2>1, <2>3
<1>7. QED
  BY <1>1, <1>4, <1>5, <1>6 DEF LInv

(* The results and what is highlighted depend on the list and the query.    *)
LEMMA SameResults ==
  ASSUME apps' = apps, NEW q, NEW k
  PROVE  L!Results(q)' = L!Results(q) /\ L!Highlighted(q, k)' = L!Highlighted(q, k)
<1>1. L!Results(q)' = L!Results(q)
  BY DEF L!Results
<1>2. QED
  BY <1>1 DEF L!Highlighted

(* After a redraw the selected result is drawn, unless it was given up.     *)
LEMMA RedrawDraws ==
  ASSUME LTypes, L!Redraw, apps' = apps, query' \in Query, selected' \in 0..(Limit - 1)
  PROVE  /\ stale' \in BOOLEAN /\ highlighted' \subseteq Entry
         /\ configured' = TRUE /\ stale' = FALSE => highlighted' = L!Highlighted(query, selected)'
<1>1. PICK q, k : q = query' /\ k = selected'
  OBVIOUS
<1>2. L!Highlighted(query, selected)' = L!Highlighted(q, k)' /\ L!Highlighted(q, k) \subseteq Entry
  BY <1>1, HighlightedShape DEF LTypes
<1>3. L!Highlighted(query', selected') = L!Highlighted(q, k)
  BY <1>1
<1>4. CASE ~configured' /\ UNCHANGED <<highlighted, stale>>
  BY <1>4 DEF LTypes
<1>5. CASE highlighted' = L!Highlighted(query', selected') /\ stale' = FALSE
  <2>1. stale' \in BOOLEAN
    BY <1>5
  <2>2. QED
    BY <1>2, <1>3, <1>5, <2>1, SameResults
<1>6. CASE UNCHANGED highlighted /\ stale' = TRUE
  <2>1. stale' \in BOOLEAN
    BY <1>6
  <2>2. QED
    BY <1>6, <2>1 DEF LTypes
<1>7. QED
  BY <1>4, <1>5, <1>6 DEF L!Redraw

(* Every key keeps the selection within the results of the query.           *)
LEMMA NextLInv == LInv /\ L!Next => LInv'
<1> SUFFICES ASSUME LInv, L!Next PROVE LInv'
  OBVIOUS
<1>1. LTypes /\ apps \in L!Scan
  BY DEF LInv
<1>2. UNCHANGED <<files, desktop, apps>>
  BY DEF L!Next, L!Configure, L!Edit, L!Up, L!Down, L!Enter, L!Close, L!disk
<1>3. (apps \in L!Scan)'
  <2>1. L!Scan' = L!Scan
    BY <1>2 DEF L!Scan, L!Kept, L!SetToSeqs, L!FoldLeft, L!MapThenFoldSet, L!Insert, L!VisibleIn
  <2>2. QED
    BY <1>1, <1>2, <2>1
<1> DEFINE Within(q, k) == L!Results(q) # <<>> => k < Len(L!Results(q))
<1>4. ASSUME query' \in Query, selected' \in 0..(Limit - 1), Within(query', selected'), L!Redraw,
             UNCHANGED launched
      PROVE  LInv'
  <2>1. PICK q, k : q = query' /\ k = selected'
    OBVIOUS
  <2>2. Within(query, selected)'
    BY <1>2, <1>4, <2>1, SameResults
  <2>3. QED
    BY <1>1, <1>2, <1>3, <1>4, <2>2, RedrawDraws DEF LInv, LTypes
<1> HIDE DEF Within
<1>5. Within(query, selected)
  BY DEF LInv, Within
<1>6. query \in Query /\ selected \in 0..(Limit - 1) /\ apps \in Seq(Entry)
  BY <1>1 DEF LTypes
<1>7. CASE L!Configure
  BY <1>4, <1>5, <1>6, <1>7 DEF L!Configure
<1>8. CASE L!Edit
  <2>1. query' \in Query /\ selected' = 0 /\ L!Redraw /\ UNCHANGED launched
    BY <1>8 DEF L!Edit
  <2>2. 0 \in 0..(Limit - 1)
    BY LimitAssumption
  <2>3. PICK results : results = L!Results(query')
    OBVIOUS
  <2>4. results \in Seq(Entry)
    BY <1>6, <2>1, <2>3, ResultsShape
  <2>5. Within(query', 0)
    BY <2>3, <2>4 DEF Within
  <2>6. QED
    BY <1>4, <2>1, <2>2, <2>5
<1>9. CASE L!Up
  <2>1. selected > 0 /\ selected' = selected - 1 /\ UNCHANGED <<query, launched>> /\ L!Redraw
    BY <1>9 DEF L!Up
  <2>2. selected' \in 0..(Limit - 1)
    BY <1>6, <2>1, LimitAssumption
  <2>3. PICK results : results = L!Results(query)
    OBVIOUS
  <2>4. Len(results) \in Nat
    BY <1>6, <2>3, ResultsShape, LimitAssumption
  <2>5. Within(query', selected')
    BY <1>5, <1>6, <2>1, <2>3, <2>4, LimitAssumption DEF Within
  <2>6. QED
    BY <1>4, <1>6, <2>1, <2>2, <2>5
<1>10. CASE L!Down
  <2>1. /\ selected + 1 < Len(L!Results(query)) /\ selected' = selected + 1
        /\ UNCHANGED <<query, launched>> /\ L!Redraw
    BY <1>10 DEF L!Down
  <2>2. Len(L!Results(query)) \in 0..Limit
    BY <1>6, ResultsShape
  <2>3. selected' \in 0..(Limit - 1)
    BY <1>6, <2>1, <2>2, LimitAssumption
  <2>4. Within(query', selected')
    BY <2>1 DEF Within
  <2>5. QED
    BY <1>4, <1>6, <2>1, <2>3, <2>4
<1>11. CASE L!Enter \/ L!Close
  <2>1. UNCHANGED <<query, selected, configured, highlighted, stale>>
    BY <1>11 DEF L!Enter, L!Close
  <2>2. launched' \subseteq Entry
    BY <1>1, <1>6, <1>11, HighlightedShape DEF L!Enter, L!Close, LTypes
  <2>3. PICK q, k : q = query /\ k = selected
    OBVIOUS
  <2>4. /\ L!Results(query)' = L!Results(query)
        /\ L!Highlighted(query, selected)' = L!Highlighted(query, selected)
    BY <1>2, <2>1, <2>3, SameResults
  <2>5. LTypes'
    BY <1>1, <1>2, <2>1, <2>2 DEF LTypes
  <2>6. QED
    BY <1>3, <2>1, <2>4, <2>5 DEF LInv
<1>12. QED
  BY <1>7, <1>8, <1>9, <1>10, <1>11 DEF L!Next

(* Without a key or an event of its own nothing of the window changes; that *)
(* the flag does may only be while there is nothing to draw.                *)
LEMMA IdleLInv ==
  ASSUME LInv, UNCHANGED <<files, desktop, apps, query, selected, highlighted, stale, launched>>,
         configured' = configured \/ (apps = <<>> /\ highlighted = {})
  PROVE  LInv'
<1>1. PICK q, k : q = query /\ k = selected
  OBVIOUS
<1>2. /\ L!Results(query)' = L!Results(query)
      /\ L!Highlighted(query, selected)' = L!Highlighted(query, selected)
  BY <1>1, SameResults
<1>3. L!Scan' = L!Scan
  BY DEF L!Scan, L!Kept, L!SetToSeqs, L!FoldLeft, L!MapThenFoldSet, L!Insert, L!VisibleIn
<1>4. apps = <<>> => L!Highlighted(query, selected) = {}
  BY HighlightedShape DEF LInv, LTypes
<1>5. QED
  BY <1>2, <1>3, <1>4 DEF LInv, LTypes

(* Enter launches what the last frame highlighted.                          *)
LEMMA EnterLaunches ==
  ASSUME LInv, configured \in BOOLEAN, L!Enter
  PROVE  /\ configured /\ ~stale => launched' = highlighted
         /\ L!Results(query) # <<>> => launched' # {}
<1>1. launched' = L!Highlighted(query, selected)
  BY DEF L!Enter
<1>2. stale \in BOOLEAN
  BY DEF LInv, LTypes
<1>3. configured = TRUE /\ stale = FALSE => launched' = highlighted
  BY <1>1 DEF LInv
<1>4. configured /\ ~stale => launched' = highlighted
  BY <1>2, <1>3
<1>5. ASSUME L!Results(query) # <<>> PROVE launched' # {}
  <2>1. selected < Len(L!Results(query))
    BY <1>5 DEF LInv
  <2>2. QED
    BY <1>1, <2>1, HighlightedShape DEF LInv, LTypes
<1>6. QED
  BY <1>4, <1>5
===============================================================================
