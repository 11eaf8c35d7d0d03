------------------------------ MODULE NotifdProofs ------------------------------
(***************************************************************************)
(* Proofs about Notifd, for any number of calls, any sizes of the channels  *)
(* and of the stack of toasts, and any time-outs: the types, with the       *)
(* bounds of the channels and of the stack, and the promise of Toasts.      *)
(*                                                                         *)
(* The argument is that a call is in one place at a time: in send, in the   *)
(* channel, in the queue or on the screen, and there once.                  *)
(***************************************************************************)
EXTENDS Notifd, FiniteSetTheorems, FunctionTheorems, SequenceTheorems, TLAPS

-------------------------------------------------------------------------------
(* Sequences.                                                               *)

(* What a sequence holds, after an element was added to it or taken from    *)
(* it, or a piece was cut out or put behind.                                *)
LEMMA ElementShape ==
  ASSUME NEW A, NEW seq \in Seq(A)
  PROVE  DOMAIN seq = 1..Len(seq) /\ Len(seq) \in Nat /\ \A k \in 1..Len(seq) : seq[k] \in A
  OBVIOUS

(* A sequence with one more element at its end.                             *)
LEMMA AppendShape ==
  ASSUME NEW A, NEW seq \in Seq(A), NEW a \in A
  PROVE  /\ Append(seq, a) \in Seq(A)
         /\ Len(Append(seq, a)) = Len(seq) + 1
         /\ DOMAIN Append(seq, a) = 1..(Len(seq) + 1)
         /\ \A k \in 1..Len(seq) : Append(seq, a)[k] = seq[k]
         /\ Append(seq, a)[Len(seq) + 1] = a
  OBVIOUS

(* A sequence without its first element.                                    *)
LEMMA TailShape ==
  ASSUME NEW A, NEW seq \in Seq(A), seq # <<>>
  PROVE  /\ Tail(seq) \in Seq(A)
         /\ Len(Tail(seq)) = Len(seq) - 1
         /\ DOMAIN Tail(seq) = 1..(Len(seq) - 1)
         /\ Len(seq) \in Nat \ {0}
         /\ \A k \in 1..(Len(seq) - 1) : Tail(seq)[k] = seq[k + 1]
         /\ Head(seq) = seq[1] /\ Head(seq) \in A
  OBVIOUS

(* A piece of a sequence, which may be empty.                               *)
LEMMA PieceShape ==
  ASSUME NEW A, NEW seq \in Seq(A), NEW first \in 1..(Len(seq) + 1),
         NEW last \in (first - 1)..Len(seq)
  PROVE  /\ SubSeq(seq, first, last) \in Seq(A)
         /\ Len(SubSeq(seq, first, last)) = last - first + 1
         /\ DOMAIN SubSeq(seq, first, last) = 1..(last - first + 1)
         /\ \A k \in 1..(last - first + 1) : SubSeq(seq, first, last)[k] = seq[first + k - 1]
<1>1. Len(seq) \in Nat /\ \A k \in 1..Len(seq) : seq[k] \in A
  BY ElementShape
<1>2. first \in Int /\ last \in Int /\ \A k \in first..last : k \in 1..Len(seq)
  BY <1>1
<1>3. \A k \in first..last : seq[k] \in A
  BY <1>1, <1>2
<1>4. /\ SubSeq(seq, first, last) \in Seq(A)
      /\ Len(SubSeq(seq, first, last)) = IF first <= last THEN last - first + 1 ELSE 0
      /\ \A k \in 1..(last - first + 1) : SubSeq(seq, first, last)[k] = seq[first + k - 1]
  BY <1>2, <1>3, SubSeqProperties
<1>5. Len(SubSeq(seq, first, last)) = last - first + 1
  BY <1>1, <1>2, <1>4
<1>6. QED
  BY <1>4, <1>5, ElementShape

(* Two sequences, one after the other.                                      *)
LEMMA ConcatShape ==
  ASSUME NEW A, NEW s \in Seq(A), NEW t \in Seq(A)
  PROVE  /\ s \o t \in Seq(A)
         /\ Len(s \o t) = Len(s) + Len(t)
         /\ DOMAIN (s \o t) = 1..(Len(s) + Len(t))
         /\ \A k \in 1..Len(s) : (s \o t)[k] = s[k]
         /\ \A k \in 1..Len(t) : (s \o t)[Len(s) + k] = t[k]
<1>1. /\ s \o t \in Seq(A) /\ Len(s \o t) = Len(s) + Len(t)
      /\ \A i \in 1..(Len(s) + Len(t)) : (s \o t)[i] = IF i <= Len(s) THEN s[i] ELSE t[i - Len(s)]
  BY ConcatProperties
<1>2. Len(s) \in Nat /\ Len(t) \in Nat
  BY ElementShape
<1>3. DOMAIN (s \o t) = 1..(Len(s) + Len(t))
  BY <1>1, ElementShape
<1>4. ASSUME NEW k \in 1..Len(s) PROVE (s \o t)[k] = s[k]
  BY <1>1, <1>2
<1>5. ASSUME NEW k \in 1..Len(t) PROVE (s \o t)[Len(s) + k] = t[k]
  <2>1. Len(s) + k \in 1..(Len(s) + Len(t)) /\ ~(Len(s) + k <= Len(s)) /\ Len(s) + k - Len(s) = k
    BY <1>2
  <2>2. QED
    BY <1>1, <2>1
<1>6. QED
  BY <1>1, <1>3, <1>4, <1>5

(* A sequence without the element at i: those behind it move up.            *)
LEMMA RemoveShape ==
  ASSUME NEW A, NEW seq \in Seq(A), NEW i \in DOMAIN seq
  PROVE  /\ RemoveAt(seq, i) \in Seq(A)
         /\ Len(RemoveAt(seq, i)) = Len(seq) - 1
         /\ DOMAIN RemoveAt(seq, i) = 1..(Len(seq) - 1)
         /\ \A k \in 1..(Len(seq) - 1) : RemoveAt(seq, i)[k] = seq[IF k < i THEN k ELSE k + 1]
<1> DEFINE before == SubSeq(seq, 1, i - 1)
           after == SubSeq(seq, i + 1, Len(seq))
<1>1. Len(seq) \in Nat /\ i \in 1..Len(seq)
  BY ElementShape
<1>2. /\ before \in Seq(A) /\ Len(before) = i - 1
      /\ \A k \in 1..(i - 1) : before[k] = seq[k]
  <2>1. 1 \in 1..(Len(seq) + 1) /\ i - 1 \in (1 - 1)..Len(seq)
    BY <1>1
  <2>2. /\ before \in Seq(A) /\ Len(before) = (i - 1) - 1 + 1
        /\ \A k \in 1..((i - 1) - 1 + 1) : before[k] = seq[1 + k - 1]
    BY <2>1, PieceShape
  <2>3. (i - 1) - 1 + 1 = i - 1 /\ \A k \in 1..(i - 1) : 1 + k - 1 = k
    BY <1>1
  <2>4. QED
    BY <2>2, <2>3
<1>3. /\ after \in Seq(A) /\ Len(after) = Len(seq) - i
      /\ \A k \in 1..(Len(seq) - i) : after[k] = seq[i + k]
  <2>1. i + 1 \in 1..(Len(seq) + 1) /\ Len(seq) \in (i + 1 - 1)..Len(seq)
    BY <1>1
  <2>2. /\ after \in Seq(A) /\ Len(after) = Len(seq) - (i + 1) + 1
        /\ \A k \in 1..(Len(seq) - (i + 1) + 1) : after[k] = seq[i + 1 + k - 1]
    BY <2>1, PieceShape
  <2>3. Len(seq) - (i + 1) + 1 = Len(seq) - i /\ \A k \in 1..(Len(seq) - i) : i + 1 + k - 1 = i + k
    BY <1>1
  <2>4. QED
    BY <2>2, <2>3
<1>4. RemoveAt(seq, i) = before \o after
  BY DEF RemoveAt
<1> HIDE DEF before, after
<1>5. /\ before \o after \in Seq(A)
      /\ Len(before \o after) = Len(seq) - 1
      /\ DOMAIN (before \o after) = 1..(Len(seq) - 1)
  <2>1. (i - 1) + (Len(seq) - i) = Len(seq) - 1
    BY <1>1
  <2>2. QED
    BY <1>2, <1>3, <2>1, ConcatShape
<1>6. ASSUME NEW k \in 1..(Len(seq) - 1)
      PROVE  (before \o after)[k] = seq[IF k < i THEN k ELSE k + 1]
  <2>1. CASE k < i
    <3>1. k \in 1..(i - 1)
      BY <1>1, <2>1
    <3>2. (before \o after)[k] = before[k]
      BY <1>2, <1>3, <3>1, ConcatShape
    <3>3. QED
      BY <1>2, <2>1, <3>1, <3>2
  <2>2. CASE ~(k < i)
    <3>1. PICK d \in 1..(Len(seq) - i) : k = (i - 1) + d /\ k + 1 = i + d
      <4>1. k - (i - 1) \in 1..(Len(seq) - i)
        BY <1>1, <2>2
      <4>2. k = (i - 1) + (k - (i - 1)) /\ k + 1 = i + (k - (i - 1))
        BY <1>1
      <4>3. QED
        BY <4>1, <4>2
    <3>2. \A e \in 1..Len(after) : (before \o after)[Len(before) + e] = after[e]
      <4>1. before \in Seq(A) /\ after \in Seq(A)
        BY <1>2, <1>3
      <4>2. QED
        BY ONLY <4>1, ConcatShape
    <3>3. (before \o after)[(i - 1) + d] = after[d]
      BY <1>2, <1>3, <3>2
    <3>4. QED
      BY <1>3, <2>2, <3>1, <3>3
  <2>3. QED
    BY <2>1, <2>2
<1>7. QED
  BY <1>4, <1>5, <1>6

-------------------------------------------------------------------------------
(* The calls of a sequence of notes or toasts.                              *)

CallsOf(seq) == {seq[k].call : k \in DOMAIN seq}

Distinct(seq) == \A j, k \in DOMAIN seq : seq[j].call = seq[k].call => j = k

(* Queueing a new notification adds its call.                               *)
LEMMA AppendCalls ==
  ASSUME NEW A, NEW seq \in Seq(A), NEW n \in A, Distinct(seq), n.call \notin CallsOf(seq)
  PROVE  /\ CallsOf(Append(seq, n)) = CallsOf(seq) \union {n.call}
         /\ Distinct(Append(seq, n))
<1>1. /\ DOMAIN seq = 1..Len(seq) /\ Len(seq) \in Nat
      /\ DOMAIN Append(seq, n) = 1..(Len(seq) + 1)
      /\ \A k \in 1..Len(seq) : Append(seq, n)[k] = seq[k]
      /\ Append(seq, n)[Len(seq) + 1] = n
  BY ElementShape, AppendShape
<1>2. 1..(Len(seq) + 1) = 1..Len(seq) \union {Len(seq) + 1}
  BY <1>1
<1>3. QED
  BY <1>1, <1>2 DEF CallsOf, Distinct

(* Taking the oldest notification removes its call, and it is not there a   *)
(* second time.                                                             *)
LEMMA TailCalls ==
  ASSUME NEW A, NEW seq \in Seq(A), seq # <<>>, Distinct(seq)
  PROVE  /\ CallsOf(Tail(seq)) = CallsOf(seq) \ {Head(seq).call}
         /\ Head(seq).call \in CallsOf(seq)
         /\ Distinct(Tail(seq))
<1> DEFINE rest == Tail(seq)
<1>1. /\ DOMAIN seq = 1..Len(seq) /\ Len(seq) \in Nat \ {0}
      /\ DOMAIN rest = 1..(Len(seq) - 1)
      /\ \A k \in 1..(Len(seq) - 1) : rest[k] = seq[k + 1]
      /\ Head(seq) = seq[1]
  BY ElementShape, TailShape
<1> HIDE DEF rest
<1>2. \A k \in DOMAIN rest : k + 1 \in DOMAIN seq /\ k + 1 # 1 /\ rest[k] = seq[k + 1]
  BY <1>1
<1>3. \A k \in DOMAIN seq : k # 1 => k - 1 \in DOMAIN rest /\ rest[k - 1] = seq[k]
  BY <1>1
<1>4. 1 \in DOMAIN seq
  BY <1>1
<1>5. ASSUME NEW c \in CallsOf(rest) PROVE c \in CallsOf(seq) \ {Head(seq).call}
  BY <1>1, <1>2, <1>4, <1>5 DEF CallsOf, Distinct
<1>6. ASSUME NEW c \in CallsOf(seq) \ {Head(seq).call} PROVE c \in CallsOf(rest)
  <2>1. PICK k \in DOMAIN seq : c = seq[k].call
    BY <1>6 DEF CallsOf
  <2>2. k # 1
    BY <1>1, <1>6, <2>1
  <2>3. QED
    BY <1>3, <2>1, <2>2 DEF CallsOf
<1>7. ASSUME NEW j \in DOMAIN rest, NEW k \in DOMAIN rest, rest[j].call = rest[k].call PROVE j = k
  <2>1. j + 1 = k + 1
    BY <1>2, <1>7 DEF Distinct
  <2>2. QED
    BY <1>1, <2>1
<1>8. Head(seq).call \in CallsOf(seq)
  BY <1>1, <1>4 DEF CallsOf
<1>9. QED
  BY <1>5, <1>6, <1>7, <1>8 DEF Distinct, rest

(* Closing a notification in the queue removes its call and no other.       *)
LEMMA RemoveCalls ==
  ASSUME NEW A, NEW seq \in Seq(A), NEW i \in DOMAIN seq, Distinct(seq)
  PROVE  /\ CallsOf(RemoveAt(seq, i)) = CallsOf(seq) \ {seq[i].call}
         /\ Distinct(RemoveAt(seq, i))
<1> DEFINE rest == RemoveAt(seq, i)
           at(k) == IF k < i THEN k ELSE k + 1
<1>1. /\ DOMAIN seq = 1..Len(seq) /\ Len(seq) \in Nat
      /\ DOMAIN rest = 1..(Len(seq) - 1)
      /\ \A k \in 1..(Len(seq) - 1) : rest[k] = seq[at(k)]
  BY ElementShape, RemoveShape
<1> HIDE DEF rest
<1>2. \A k \in DOMAIN rest : at(k) \in DOMAIN seq /\ at(k) # i
  BY <1>1
<1>3. \A j \in DOMAIN seq : j # i => \E k \in DOMAIN rest : at(k) = j
  <2>1. ASSUME NEW j \in DOMAIN seq, j < i PROVE j \in DOMAIN rest /\ at(j) = j
    BY <1>1, <2>1
  <2>2. ASSUME NEW j \in DOMAIN seq, j > i PROVE j - 1 \in DOMAIN rest /\ at(j - 1) = j
    BY <1>1, <2>2
  <2>3. \A j \in DOMAIN seq : j # i => j < i \/ j > i
    BY <1>1
  <2> HIDE DEF at
  <2>4. QED
    BY <2>1, <2>2, <2>3
<1>4. \A k, m \in DOMAIN rest : at(k) = at(m) => k = m
  BY <1>1
<1>5. \A k \in DOMAIN rest : rest[k] = seq[at(k)]
  BY <1>1
<1> HIDE DEF at
<1>6. CallsOf(rest) = CallsOf(seq) \ {seq[i].call}
  BY <1>2, <1>3, <1>5 DEF CallsOf, Distinct
<1>7. Distinct(rest)
  BY <1>2, <1>4, <1>5 DEF Distinct
<1>8. QED
  BY <1>6, <1>7 DEF rest

(* Replacing a notification puts the new call in the place of the old one.  *)
LEMMA ReplaceCalls ==
  ASSUME NEW A, NEW seq \in Seq(A), NEW i \in DOMAIN seq, NEW n \in A, Distinct(seq),
         n.call \notin CallsOf(seq), NEW new \in Seq(A), Len(new) = Len(seq), new[i] = n,
         \A k \in DOMAIN seq \ {i} : new[k] = seq[k]
  PROVE  /\ CallsOf(new) = (CallsOf(seq) \ {seq[i].call}) \union {n.call}
         /\ Distinct(new)
<1>1. /\ DOMAIN new = DOMAIN seq
      /\ \A k \in DOMAIN seq : new[k] = IF k = i THEN n ELSE seq[k]
  BY ElementShape
<1>2. CallsOf(new) = (CallsOf(seq) \ {seq[i].call}) \union {n.call}
  BY <1>1 DEF CallsOf, Distinct
<1>3. Distinct(new)
  BY <1>1 DEF CallsOf, Distinct
<1>4. QED
  BY <1>1, <1>2, <1>3

(* As many calls as elements.                                               *)
LEMMA CallsCardinality ==
  ASSUME NEW A, NEW seq \in Seq(A), Distinct(seq)
  PROVE  IsFiniteSet(CallsOf(seq)) /\ Cardinality(CallsOf(seq)) = Len(seq)
<1> DEFINE call == [k \in 1..Len(seq) |-> seq[k].call]
<1>1. DOMAIN seq = 1..Len(seq) /\ Len(seq) \in Nat
  BY ElementShape
<1>2. IsFiniteSet(1..Len(seq)) /\ Cardinality(1..Len(seq)) = Len(seq)
  BY <1>1, FS_Interval
<1>3. call \in Surjection(1..Len(seq), CallsOf(seq))
  BY <1>1 DEF Surjection, CallsOf
<1>4. call \in Injection(1..Len(seq), CallsOf(seq))
  BY <1>1 DEF Injection, IsInjective, CallsOf, Distinct
<1>5. QED
  BY <1>2, <1>3, <1>4, FS_Surjection

(* The calls of a sequence, as a sequence.                                  *)
LEMMA CallsShape ==
  ASSUME NEW A, NEW seq \in Seq(A)
  PROVE  /\ DOMAIN Calls(seq) = 1..Len(seq) /\ Len(Calls(seq)) = Len(seq)
         /\ Calls(seq) \in Seq(CallsOf(seq))
         /\ \A k \in 1..Len(seq) : Calls(seq)[k] = seq[k].call
         /\ ToSet(Calls(seq)) = CallsOf(seq)
<1>1. DOMAIN seq = 1..Len(seq) /\ Len(seq) \in Nat
  BY ElementShape
<1>2. DOMAIN Calls(seq) = 1..Len(seq) /\ \A k \in 1..Len(seq) : Calls(seq)[k] = seq[k].call
  BY <1>1 DEF Calls
<1>3. Calls(seq) \in [1..Len(seq) -> CallsOf(seq)]
  BY <1>1 DEF Calls, CallsOf
<1>4. Calls(seq) \in Seq(CallsOf(seq)) /\ Len(Calls(seq)) = Len(seq)
  BY <1>1, <1>3
<1>5. ToSet(Calls(seq)) = CallsOf(seq)
  BY <1>1, <1>2 DEF ToSet, CallsOf
<1>6. QED
  BY <1>2, <1>4, <1>5

(* The calls of a sequence of notifications are a sequence of their calls.  *)
LEMMA CallsIn ==
  ASSUME NEW A, NEW seq \in Seq(A)
  PROVE  Calls(seq) \in Seq({a.call : a \in A})
<1>1. DOMAIN seq = 1..Len(seq) /\ Len(seq) \in Nat /\ \A k \in 1..Len(seq) : seq[k] \in A
  BY ElementShape
<1>2. Calls(seq) \in [1..Len(seq) -> {a.call : a \in A}]
  BY <1>1 DEF Calls
<1>3. QED
  BY <1>1, <1>2

(* Taking the calls and queueing a notification commute.                    *)
LEMMA CallsAppend ==
  ASSUME NEW A, NEW seq \in Seq(A), NEW n \in A
  PROVE  Append(Calls(seq), n.call) = Calls(Append(seq, n))
<1> DEFINE B == {a.call : a \in A}
           calls == Calls(seq)
           longer == Append(seq, n)
           left == Append(calls, n.call)
           right == Calls(longer)
<1>1. /\ Len(seq) \in Nat /\ \A k \in 1..Len(seq) : seq[k] \in A
      /\ longer \in Seq(A) /\ Len(longer) = Len(seq) + 1
      /\ \A k \in 1..Len(seq) : longer[k] = seq[k]
      /\ longer[Len(seq) + 1] = n
  BY ElementShape, AppendShape
<1> HIDE DEF longer
<1>2. /\ calls \in Seq(B) /\ Len(calls) = Len(seq)
      /\ \A k \in 1..Len(seq) : calls[k] = seq[k].call
  BY <1>1, CallsShape, CallsIn
<1>3. /\ right \in Seq(B) /\ Len(right) = Len(seq) + 1
      /\ \A k \in 1..(Len(seq) + 1) : right[k] = longer[k].call
  BY <1>1, CallsShape, CallsIn
<1> HIDE DEF calls, right
<1>4. n.call \in B
  OBVIOUS
<1> HIDE DEF B
<1>5. /\ left \in Seq(B) /\ Len(left) = Len(seq) + 1
      /\ \A k \in 1..Len(seq) : left[k] = seq[k].call
      /\ left[Len(seq) + 1] = n.call
  BY <1>2, <1>4, AppendShape
<1> HIDE DEF left
<1>6. ASSUME NEW k \in 1..(Len(seq) + 1) PROVE left[k] = right[k]
  <2>1. k \in 1..Len(seq) \/ k = Len(seq) + 1
    BY <1>1
  <2>2. QED
    BY <1>1, <1>3, <1>5, <2>1
<1>7. left = right
  BY <1>3, <1>5, <1>6, SeqEqual
<1>8. QED
  BY <1>7 DEF left, right, calls, longer

(* Taking the calls and cutting out a piece commute.                        *)
LEMMA CallsPiece ==
  ASSUME NEW A, NEW seq \in Seq(A), NEW first \in 1..(Len(seq) + 1),
         NEW last \in (first - 1)..Len(seq)
  PROVE  Calls(SubSeq(seq, first, last)) = SubSeq(Calls(seq), first, last)
<1> DEFINE B == {a.call : a \in A}
           n == last - first + 1
           calls == Calls(seq)
           piece == SubSeq(seq, first, last)
           left == Calls(piece)
           right == SubSeq(calls, first, last)
<1>1. /\ piece \in Seq(A) /\ Len(piece) = n
      /\ \A k \in 1..n : piece[k] = seq[first + k - 1]
  BY PieceShape
<1> HIDE DEF piece
<1>2. /\ calls \in Seq(B) /\ Len(calls) = Len(seq)
      /\ \A k \in 1..Len(seq) : calls[k] = seq[k].call
  BY CallsShape, CallsIn
<1>3. left \in Seq(B) /\ Len(left) = n /\ \A k \in 1..n : left[k] = piece[k].call
  BY <1>1, CallsShape, CallsIn
<1> HIDE DEF calls, left, B
<1>4. /\ right \in Seq(B) /\ Len(right) = n
      /\ \A k \in 1..n : right[k] = calls[first + k - 1]
  BY <1>2, PieceShape
<1> HIDE DEF right
<1>5. \A k \in 1..n : first + k - 1 \in 1..Len(seq)
  BY ElementShape
<1> HIDE DEF n
<1>6. \A k \in 1..n : left[k] = right[k]
  BY <1>1, <1>2, <1>3, <1>4, <1>5
<1>7. left = right
  BY <1>3, <1>4, <1>6, SeqEqual
<1>8. QED
  BY <1>7 DEF left, right, calls, piece

-------------------------------------------------------------------------------
(* Notes and toasts.                                                        *)

(* What waits in the queue is to be shown: it is no order.                  *)
Waiting == [call : Call, id : Id, time : Timeout \union {1}]

(* What the kinds of notifications have in common.                          *)
LEMMA NoteShape ==
  /\ \A n \in Note : n.call \in Call /\ n.id \in Id /\ (n.time # Order => n \in Waiting)
  /\ Waiting \subseteq Note /\ Waiting \subseteq Toast
  /\ \A t \in Toast : t.call \in Call /\ t.id \in Id /\ t.time \in Nat \ {0}
<1>1. /\ Timeout \union {1} \subseteq Nat \ {0}
      /\ Timeout \union {1} \subseteq Timeout \union {1, Order}
  BY TimeoutAssumption
<1>2. \A n \in Note : n.call \in Call /\ n.id \in Id /\ (n.time # Order => n \in Waiting)
  BY DEF Note, Waiting
<1>3. Waiting \subseteq Note /\ Waiting \subseteq Toast
  BY <1>1 DEF Note, Waiting, Toast
<1>4. QED
  BY <1>2, <1>3 DEF Toast

(* A toast that is not due stays one with the time that is left.            *)
LEMMA TickedToast ==
  ASSUME NEW t \in Toast, NEW passed \in Nat, ~(t.time <= passed)
  PROVE  /\ [t EXCEPT !.time = @ - passed] \in Toast
         /\ [t EXCEPT !.time = @ - passed].call = t.call
  BY DEF Toast

(* The broadcast keeps the newest ids.                                      *)
LEMMA AnnounceShape ==
  ASSUME closed \in Seq(Id), Len(closed) <= ClosedCap, NEW ids \in Seq(Id), Announce(ids)
  PROVE  closed' \in Seq(Id) /\ Len(closed') <= ClosedCap
<1> DEFINE all == closed \o ids
<1>1. all \in Seq(Id) /\ Len(all) \in Nat /\ ClosedCap \in Nat \ {0}
  BY ConcatShape, ElementShape, SizesAssumption
<1>2. closed' = IF Len(all) <= ClosedCap THEN all
                ELSE SubSeq(all, Len(all) - ClosedCap + 1, Len(all))
  BY DEF Announce
<1> HIDE DEF all
<1>3. CASE Len(all) <= ClosedCap
  BY <1>1, <1>2, <1>3
<1>4. CASE ~(Len(all) <= ClosedCap)
  <2>1. /\ Len(all) - ClosedCap + 1 \in 1..(Len(all) + 1)
        /\ Len(all) \in (Len(all) - ClosedCap + 1 - 1)..Len(all)
        /\ Len(all) - (Len(all) - ClosedCap + 1) + 1 = ClosedCap
    BY <1>1, <1>4
  <2>2. /\ SubSeq(all, Len(all) - ClosedCap + 1, Len(all)) \in Seq(Id)
        /\ Len(SubSeq(all, Len(all) - ClosedCap + 1, Len(all))) = ClosedCap
    BY <1>1, <2>1, PieceShape
  <2>3. closed' = SubSeq(all, Len(all) - ClosedCap + 1, Len(all))
    BY <1>2, <1>4
  <2>4. QED
    BY <1>1, <2>2, <2>3
<1>5. QED
  BY <1>3, <1>4

(* Positions in order are as many as there are, and each once.              *)
LEMMA InOrderShape ==
  ASSUME NEW n \in Nat, NEW S \in SUBSET (1..n), NEW order \in InOrder(S)
  PROVE  /\ Cardinality(S) \in 0..n
         /\ DOMAIN order = 1..Cardinality(S)
         /\ \A k \in DOMAIN order : order[k] \in S
         /\ \A j, k \in DOMAIN order : order[j] = order[k] => j = k
<1>1. IsFiniteSet(1..n) /\ Cardinality(1..n) = n
  BY FS_Interval
<1>2. Cardinality(S) \in 0..n
  <2>1. IsFiniteSet(S) /\ Cardinality(S) <= n
    BY <1>1, FS_Subset
  <2>2. Cardinality(S) \in Nat
    BY <2>1, FS_CardinalityType
  <2>3. QED
    BY <2>1, <2>2
<1>3. /\ order \in [1..Cardinality(S) -> S]
      /\ \A j, k \in DOMAIN order : j < k => order[j] < order[k]
  BY DEF InOrder
<1>4. DOMAIN order = 1..Cardinality(S) /\ \A k \in DOMAIN order : order[k] \in S
  BY <1>3
<1>5. ASSUME NEW j \in DOMAIN order, NEW k \in DOMAIN order, order[j] = order[k] PROVE j = k
  <2>1. j \in Int /\ k \in Int
    BY <1>2, <1>4
  <2>2. order[j] \in 1..n /\ order[k] \in 1..n
    BY <1>4
  <2>3. ~(order[j] < order[k]) /\ ~(order[k] < order[j])
    BY <1>5, <2>2
  <2>4. ~(j < k) /\ ~(k < j)
    BY <1>3, <2>3
  <2>5. QED
    BY <2>1, <2>4
<1>6. QED
  BY <1>2, <1>4, <1>5

(* The calls of a piece are those at its places.                            *)
LEMMA PieceCalls ==
  ASSUME NEW A, NEW seq \in Seq(A), NEW first \in 1..(Len(seq) + 1),
         NEW last \in (first - 1)..Len(seq), Distinct(seq)
  PROVE  /\ CallsOf(SubSeq(seq, first, last)) = {seq[k].call : k \in first..last}
         /\ Distinct(SubSeq(seq, first, last))
<1> DEFINE piece == SubSeq(seq, first, last)
           at(k) == first + k - 1
<1>1. /\ DOMAIN seq = 1..Len(seq) /\ Len(seq) \in Nat
      /\ DOMAIN piece = 1..(last - first + 1)
      /\ \A k \in 1..(last - first + 1) : piece[k] = seq[at(k)]
  BY ElementShape, PieceShape
<1> HIDE DEF piece
<1>2. \A k \in DOMAIN piece : at(k) \in first..last /\ at(k) \in DOMAIN seq /\ piece[k] = seq[at(k)]
  BY <1>1
<1>3. \A j \in first..last : \E k \in DOMAIN piece : at(k) = j
  <2>1. ASSUME NEW j \in first..last PROVE j - first + 1 \in DOMAIN piece /\ at(j - first + 1) = j
    BY <1>1
  <2> HIDE DEF at
  <2>2. QED
    BY <2>1
<1>4. \A j, k \in DOMAIN piece : at(j) = at(k) => j = k
  BY <1>1
<1> HIDE DEF at
<1>5. CallsOf(piece) = {seq[k].call : k \in first..last}
  BY <1>2, <1>3 DEF CallsOf
<1>6. Distinct(piece)
  BY <1>2, <1>4 DEF Distinct
<1>7. QED
  BY <1>5, <1>6 DEF piece

(* Two sequences without a common call have the calls of both, each once.   *)
LEMMA ConcatCalls ==
  ASSUME NEW A, NEW s \in Seq(A), NEW t \in Seq(A), Distinct(s), Distinct(t),
         CallsOf(s) \intersect CallsOf(t) = {}
  PROVE  CallsOf(s \o t) = CallsOf(s) \union CallsOf(t) /\ Distinct(s \o t)
<1> DEFINE both == s \o t
<1>1. /\ DOMAIN s = 1..Len(s) /\ Len(s) \in Nat /\ DOMAIN t = 1..Len(t) /\ Len(t) \in Nat
      /\ DOMAIN both = 1..(Len(s) + Len(t))
      /\ \A k \in 1..Len(s) : both[k] = s[k]
      /\ \A k \in 1..Len(t) : both[Len(s) + k] = t[k]
  BY ElementShape, ConcatShape
<1> HIDE DEF both
<1>2. \A k \in DOMAIN both : k \in DOMAIN s \/ \E d \in DOMAIN t : k = Len(s) + d
  <2>1. ASSUME NEW k \in DOMAIN both, k \notin DOMAIN s
        PROVE  k - Len(s) \in DOMAIN t /\ k = Len(s) + (k - Len(s))
    BY <1>1, <2>1
  <2>2. QED
    BY <2>1
<1>3. /\ \A k \in DOMAIN s : k \in DOMAIN both /\ both[k] = s[k]
      /\ \A d \in DOMAIN t : Len(s) + d \in DOMAIN both /\ both[Len(s) + d] = t[d]
  BY <1>1
<1>4. CallsOf(both) = CallsOf(s) \union CallsOf(t)
  BY <1>2, <1>3 DEF CallsOf
<1>5. ASSUME NEW j \in DOMAIN both, NEW k \in DOMAIN both, both[j].call = both[k].call
      PROVE  j = k
  <2>1. CASE j \in DOMAIN s /\ k \in DOMAIN s
    BY <1>3, <1>5, <2>1 DEF Distinct
  <2>2. CASE j \notin DOMAIN s /\ k \notin DOMAIN s
    <3>1. PICK d \in DOMAIN t, e \in DOMAIN t : j = Len(s) + d /\ k = Len(s) + e
      BY <1>2, <2>2
    <3>2. t[d].call = t[e].call
      BY <1>3, <1>5, <3>1
    <3>3. QED
      BY <3>1, <3>2 DEF Distinct
  <2>3. ASSUME NEW a \in DOMAIN both, NEW b \in DOMAIN both, a \in DOMAIN s, b \notin DOMAIN s
        PROVE  both[a].call # both[b].call
    <3>1. PICK d \in DOMAIN t : b = Len(s) + d
      BY <1>2, <2>3
    <3>2. both[a].call \in CallsOf(s) /\ both[b].call \in CallsOf(t)
      BY <1>3, <2>3, <3>1 DEF CallsOf
    <3>3. QED
      BY <3>2
  <2>4. QED
    BY <1>5, <2>1, <2>2, <2>3
<1>6. QED
  BY <1>4, <1>5 DEF Distinct, both

(* pump_visible: a piece of the line goes to the screen, the rest waits, and *)
(* a place stays free only if nobody waits.                                  *)
LEMMA PumpShape ==
  ASSUME visible \in Seq(Toast), Len(visible) <= MaxVisible, Distinct(visible),
         NEW notes \in Seq(Waiting), Distinct(notes),
         CallsOf(visible) \intersect CallsOf(notes) = {}, Pump(notes)
  PROVE  \E m \in 0..Len(notes) :
           /\ visible' \in Seq(Toast) /\ Len(visible') <= MaxVisible /\ Distinct(visible')
           /\ queue' \in Seq(Waiting) /\ Distinct(queue')
           /\ queue' = SubSeq(notes, m + 1, Len(notes))
           /\ queue' = <<>> \/ Len(visible') = MaxVisible
           /\ CallsOf(visible') = CallsOf(visible) \union {notes[k].call : k \in 1..m}
           /\ CallsOf(visible') \intersect CallsOf(queue') = {}
           /\ CallsOf(visible') \union CallsOf(queue') = CallsOf(visible) \union CallsOf(notes)
<1>1. /\ Len(visible) \in Nat /\ Len(notes) \in Nat /\ MaxVisible \in Nat
      /\ DOMAIN notes = 1..Len(notes)
  BY ElementShape, SizesAssumption
<1>2. notes \in Seq(Toast)
  BY NoteShape, <1>1
<1>3. PICK m \in 0..Len(notes) : /\ Len(visible) + m <= MaxVisible
                                 /\ m = Len(notes) \/ Len(visible) + m = MaxVisible
                                 /\ visible' = visible \o SubSeq(notes, 1, m)
                                 /\ queue' = SubSeq(notes, m + 1, Len(notes))
  <2>1. CASE Len(notes) < MaxVisible - Len(visible)
    <3>1. /\ visible' = visible \o SubSeq(notes, 1, Len(notes))
          /\ queue' = SubSeq(notes, Len(notes) + 1, Len(notes))
      BY <2>1 DEF Pump
    <3>2. Len(notes) \in 0..Len(notes) /\ Len(visible) + Len(notes) <= MaxVisible
      BY <1>1, <2>1
    <3>3. QED
      BY <3>1, <3>2
  <2>2. CASE ~(Len(notes) < MaxVisible - Len(visible))
    <3>1. MaxVisible - Len(visible) \in 0..Len(notes)
      BY <1>1, <2>2
    <3>2. Len(visible) + (MaxVisible - Len(visible)) = MaxVisible
      BY <1>1
    <3>3. /\ visible' = visible \o SubSeq(notes, 1, MaxVisible - Len(visible))
          /\ queue' = SubSeq(notes, (MaxVisible - Len(visible)) + 1, Len(notes))
      BY <2>2 DEF Pump
    <3>4. PICK room : room = MaxVisible - Len(visible)
      OBVIOUS
    <3>5. room \in 0..Len(notes) /\ Len(visible) + room = MaxVisible
      BY <3>1, <3>2, <3>4
    <3>6. /\ visible' = visible \o SubSeq(notes, 1, room)
          /\ queue' = SubSeq(notes, room + 1, Len(notes))
      BY <3>3, <3>4
    <3>7. Len(visible) + room <= MaxVisible
      BY <1>1, <3>5
    <3>8. QED
      BY <3>5, <3>6, <3>7
  <2>3. QED
    BY <2>1, <2>2
<1> DEFINE first == SubSeq(notes, 1, m)
           rest == SubSeq(notes, m + 1, Len(notes))
<1>4. /\ 1 \in 1..(Len(notes) + 1) /\ m \in (1 - 1)..Len(notes)
      /\ m + 1 \in 1..(Len(notes) + 1) /\ Len(notes) \in (m + 1 - 1)..Len(notes)
  BY <1>1
<1>5. /\ first \in Seq(Toast) /\ Len(first) = m /\ Distinct(first)
      /\ CallsOf(first) = {notes[k].call : k \in 1..m}
  <2>1. first \in Seq(Toast) /\ Len(first) = m - 1 + 1
    BY <1>2, <1>4, PieceShape
  <2>2. Distinct(first) /\ CallsOf(first) = {notes[k].call : k \in 1..m}
    BY <1>2, <1>4, PieceCalls
  <2>3. QED
    BY <2>1, <2>2
<1>6. /\ rest \in Seq(Waiting) /\ Len(rest) = Len(notes) - m /\ Distinct(rest)
      /\ CallsOf(rest) = {notes[k].call : k \in (m + 1)..Len(notes)}
  <2>1. rest \in Seq(Waiting) /\ Len(rest) = Len(notes) - (m + 1) + 1
    BY <1>4, PieceShape
  <2>2. Distinct(rest) /\ CallsOf(rest) = {notes[k].call : k \in (m + 1)..Len(notes)}
    BY <1>4, PieceCalls
  <2>3. Len(notes) - (m + 1) + 1 = Len(notes) - m
    BY <1>1
  <2>4. QED
    BY <2>1, <2>2, <2>3
<1> HIDE DEF first, rest
<1>7. CallsOf(notes) = CallsOf(first) \union CallsOf(rest)
  <2>1. 1..Len(notes) = 1..m \union (m + 1)..Len(notes)
    BY <1>1
  <2>2. QED
    BY <1>1, <1>5, <1>6, <2>1 DEF CallsOf
<1>8. CallsOf(first) \intersect CallsOf(rest) = {}
  <2>1. \A j \in 1..m, k \in (m + 1)..Len(notes) : j \in DOMAIN notes /\ k \in DOMAIN notes /\ j # k
    BY <1>1
  <2>2. \A j \in 1..m, k \in (m + 1)..Len(notes) : notes[j].call # notes[k].call
    BY <2>1 DEF Distinct
  <2>3. QED
    BY <1>5, <1>6, <2>2
<1>9. visible' = visible \o first /\ queue' = rest
  BY <1>3 DEF first, rest
<1>10. /\ visible' \in Seq(Toast) /\ Len(visible') = Len(visible) + m
       /\ CallsOf(visible') = CallsOf(visible) \union CallsOf(first) /\ Distinct(visible')
  <2>1. visible' \in Seq(Toast) /\ Len(visible') = Len(visible) + Len(first)
    BY <1>5, <1>9, ConcatShape
  <2>2. CallsOf(visible) \intersect CallsOf(first) = {}
    BY <1>7
  <2>3. CallsOf(visible') = CallsOf(visible) \union CallsOf(first) /\ Distinct(visible')
    BY <1>5, <1>9, <2>2, ConcatCalls
  <2>4. QED
    BY <1>5, <2>1, <2>3
<1>11. queue' = <<>> \/ Len(visible') = MaxVisible
  <2>1. CASE m = Len(notes)
    <3>1. Len(rest) = 0
      BY <1>1, <1>6, <2>1
    <3>2. QED
      BY <1>6, <1>9, <3>1
  <2>2. QED
    BY <1>3, <1>10, <2>1
<1>12. /\ CallsOf(visible') = CallsOf(visible) \union {notes[k].call : k \in 1..m}
       /\ CallsOf(visible') \intersect CallsOf(queue') = {}
       /\ CallsOf(visible') \union CallsOf(queue') = CallsOf(visible) \union CallsOf(notes)
  BY <1>5, <1>7, <1>8, <1>9, <1>10
<1>13. /\ queue' \in Seq(Waiting) /\ Distinct(queue')
       /\ queue' = SubSeq(notes, m + 1, Len(notes))
  BY <1>3, <1>6, <1>9
<1>14. Len(visible') <= MaxVisible
  BY <1>3, <1>10
<1>15. QED
  BY <1>10, <1>11, <1>12, <1>13, <1>14

-------------------------------------------------------------------------------
(* The invariant: a call is in one place, and there once.                   *)

Sent == {n.call : n \in sending}

Once ==
  /\ \A m, n \in sending : m.call = n.call => m = n
  /\ Distinct(channel) /\ Distinct(queue) /\ Distinct(visible)

Apart ==
  /\ Sent \intersect CallsOf(channel) = {}
  /\ Sent \intersect CallsOf(queue) = {}
  /\ Sent \intersect CallsOf(visible) = {}
  /\ CallsOf(channel) \intersect CallsOf(queue) = {}
  /\ CallsOf(channel) \intersect CallsOf(visible) = {}
  /\ CallsOf(visible) \intersect CallsOf(queue) = {}

Numbered ==
  Sent \union CallsOf(channel) \union CallsOf(queue) \union CallsOf(visible) \subseteq 1..made

(* A thread that has ended has left nothing behind.                         *)
Gone == phase = "ended" => channel = <<>> /\ queue = <<>> /\ visible = <<>>

Places ==
  /\ TypeOK /\ queue \in Seq(Waiting) /\ nextId <= made + 1
  /\ Once /\ Apart /\ Numbered /\ Gone

(* What Places says of numbers and of the empty sequence.                   *)
LEMMA Numbers ==
  ASSUME TypeOK
  PROVE  /\ made \in Nat /\ made <= MaxCalls /\ MaxCalls \in Nat
         /\ nextId \in Nat \ {0} /\ nextId <= MaxCalls + 1
         /\ ChannelCap \in Nat \ {0} /\ MaxVisible \in Nat \ {0} /\ Len(channel) \in Nat
  BY SizesAssumption DEF TypeOK

(* The empty sequence has no calls.                                         *)
LEMMA NoCalls == CallsOf(<<>>) = {} /\ Distinct(<<>>) /\ \A A : <<>> \in Seq(A)
<1>1. DOMAIN <<>> = {}
  OBVIOUS
<1>2. QED
  BY <1>1 DEF CallsOf, Distinct

(* The state of Toasts.                                                     *)
promised == <<{n.call : n \in sending \union ToSet(channel)}, Calls(queue),
              ToSet(Calls(visible)), phase # "ended">>

(* The cardinality Toasts speaks of is the one everybody knows.             *)
LEMMA SameCardinality == \A S : Promise!Cardinality(S) = Cardinality(S)
  BY DEF Promise!Cardinality, Cardinality

(* The calls on their way, as Toasts and as Places count them.              *)
LEMMA SentShape ==
  ASSUME NEW A, NEW seq \in Seq(A), NEW S
  PROVE  {n.call : n \in S \union ToSet(seq)} = {n.call : n \in S} \union CallsOf(seq)
<1>1. ToSet(seq) = {seq[k] : k \in DOMAIN seq}
  BY DEF ToSet
<1>2. QED
  BY <1>1 DEF CallsOf

(* What Toasts sees, in the words of Places.                                *)
LEMMA Seen ==
  ASSUME TypeOK
  PROVE  /\ {n.call : n \in sending \union ToSet(channel)} = Sent \union CallsOf(channel)
         /\ ToSet(Calls(visible)) = CallsOf(visible)
  BY SentShape, CallsShape DEF TypeOK, Sent

(* The same after a step.                                                   *)
LEMMA SeenNext ==
  ASSUME TypeOK'
  PROVE  /\ {n.call : n \in sending' \union ToSet(channel')} = Sent' \union CallsOf(channel')
         /\ ToSet(Calls(visible')) = CallsOf(visible')
  BY SentShape, CallsShape DEF TypeOK, Sent

(* At the start nothing was called, and Toasts starts there too.            *)
LEMMA InitPlaces ==
  ASSUME Init
  PROVE  Places /\ Promise!Init
<1>1. /\ made = 0 /\ nextId = 1 /\ sending = {} /\ channel = <<>> /\ queue = <<>>
      /\ visible = <<>> /\ closed = <<>> /\ phase \in {"drain", "ended"}
  BY DEF Init
<1>2. Len(<<>>) = 0 /\ Sent = {}
  BY <1>1 DEF Sent
<1>3. TypeOK
  BY <1>1, <1>2, NoCalls, SizesAssumption DEF TypeOK
<1>4. Once /\ Apart /\ Numbered /\ Gone
  BY <1>1, <1>2, NoCalls DEF Once, Apart, Numbered, Gone
<1>5. Places
  BY <1>1, <1>3, <1>4, NoCalls DEF Places
<1>6. Calls(<<>>) = <<>>
  BY DEF Calls
<1>7. /\ {n.call : n \in sending \union ToSet(channel)} = {}
      /\ Calls(queue) = <<>>
      /\ ToSet(Calls(visible)) = {}
      /\ (phase # "ended") \in BOOLEAN
  BY <1>1, <1>2, <1>3, <1>6, NoCalls, Seen
<1>8. QED
  BY <1>5, <1>7 DEF Promise!Init

(* A call: its number is new.                                               *)
LEMMA MakeStep ==
  ASSUME Places, NEW id \in Id, NEW time \in Timeout \union {1, Order}, Make(id, time),
         nextId' = nextId \/ nextId' = nextId + 1
  PROVE  Places' /\ Promise!Next
<1> DEFINE n == [call |-> made + 1, id |-> id, time |-> time]
<1>1. /\ made < MaxCalls /\ made' = made + 1 /\ sending' = sending \union {n}
      /\ UNCHANGED <<channel, queue, visible, closed, phase>>
  BY DEF Make
<1>2. TypeOK /\ nextId <= made + 1
  BY DEF Places
<1>3. made + 1 \in Call /\ made + 1 \notin 1..made /\ 1..made \subseteq 1..(made + 1)
  BY <1>1, <1>2, Numbers DEF Call
<1>4. n \in Note /\ n.call = made + 1
  BY <1>3 DEF Note
<1> HIDE DEF n
<1>5. Sent' = Sent \union {made + 1}
  BY <1>1, <1>4 DEF Sent
<1>6. made + 1 \notin Sent \union CallsOf(channel) \union CallsOf(queue) \union CallsOf(visible)
  BY <1>3 DEF Places, Numbered
<1>7. /\ made' \in 0..MaxCalls /\ nextId' \in 1..(MaxCalls + 1) /\ nextId' <= made' + 1
  BY <1>1, <1>2, Numbers
<1>8. TypeOK'
  BY <1>1, <1>2, <1>4, <1>7 DEF TypeOK
<1>9. Once'
  <2>1. \A m \in sending : m.call # n.call
    BY <1>4, <1>6 DEF Sent
  <2>2. QED
    BY <1>1, <2>1 DEF Places, Once, Distinct
<1>10. Apart'
  BY <1>1, <1>5, <1>6 DEF Places, Apart
<1>11. Numbered'
  <2>1. made + 1 \in 1..made' /\ 1..made \subseteq 1..made'
    BY <1>1, <1>2, Numbers
  <2>2. QED
    BY <1>1, <1>5, <2>1 DEF Places, Numbered
<1>12. Places'
  BY <1>1, <1>7, <1>8, <1>9, <1>10, <1>11 DEF Places, Gone
<1>13. PICK c \in Call : c = made + 1
  BY <1>3
<1>14. Promise!Submit(c)
  <2>1. {m.call : m \in sending' \union ToSet(channel')} =
          {m.call : m \in sending \union ToSet(channel)} \union {c}
    BY <1>1, <1>4, <1>13
  <2>2. QED
    BY <1>1, <2>1 DEF Promise!Submit, Calls
<1>15. Promise!Next
  BY <1>14 DEF Promise!Next
<1>16. QED
  BY <1>12, <1>15

(* send: the note is in the channel, or dropped because nobody takes it.    *)
LEMMA SendStep ==
  ASSUME Places, NEW n \in sending, Send(n)
  PROVE  Places' /\ (Promise!Next \/ UNCHANGED promised)
<1>1. /\ sending' = sending \ {n}
      /\ UNCHANGED <<made, nextId, queue, visible, closed, phase>>
  BY DEF Send
<1>2. TypeOK /\ n \in Note /\ n.call \in Call
  BY NoteShape DEF Places, TypeOK
<1>3. Sent' = Sent \ {n.call} /\ n.call \in Sent
  BY <1>1 DEF Sent, Places, Once
<1>4. n.call \notin CallsOf(channel) \union CallsOf(queue) \union CallsOf(visible)
  BY <1>3 DEF Places, Apart
<1>5. CASE phase # "ended" /\ Len(channel) < ChannelCap /\ channel' = Append(channel, n)
  <2>1. /\ channel' \in Seq(Note) /\ Len(channel') <= ChannelCap
        /\ CallsOf(channel') = CallsOf(channel) \union {n.call} /\ Distinct(channel')
    <3>1. channel \in Seq(Note) /\ Distinct(channel)
      BY DEF Places, TypeOK, Once
    <3>2. channel' \in Seq(Note) /\ Len(channel') = Len(channel) + 1
      BY <1>2, <1>5, <3>1, AppendShape
    <3>3. CallsOf(channel') = CallsOf(channel) \union {n.call} /\ Distinct(channel')
      BY <1>2, <1>4, <1>5, <3>1, AppendCalls
    <3>4. QED
      BY <1>2, <1>5, <3>2, <3>3, Numbers
  <2>2. TypeOK'
    BY <1>1, <1>2, <2>1 DEF TypeOK
  <2>3. Once'
    BY <1>1, <2>1 DEF Places, Once, Distinct
  <2>4. Apart' /\ Numbered'
    BY <1>1, <1>3, <1>4, <2>1 DEF Places, Apart, Numbered
  <2>5. Places'
    BY <1>1, <1>5, <2>2, <2>3, <2>4 DEF Places, Gone
  <2>6. UNCHANGED promised
    <3>1. {m.call : m \in sending' \union ToSet(channel')} =
            {m.call : m \in sending \union ToSet(channel)}
      BY <1>2, <1>3, <2>1, <2>2, Seen, SeenNext
    <3>2. QED
      BY <1>1, <3>1 DEF promised, Calls
  <2>7. QED
    BY <2>5, <2>6
<1>6. CASE phase = "ended" /\ UNCHANGED channel
  <2>1. TypeOK' /\ Once'
    BY <1>1, <1>2, <1>6 DEF TypeOK, Places, Once, Distinct
  <2>2. Apart' /\ Numbered'
    BY <1>1, <1>3, <1>6 DEF Places, Apart, Numbered
  <2>3. Places'
    BY <1>1, <1>6, <2>1, <2>2 DEF Places, Gone
  <2>4. Promise!Drop(n.call)
    <3>1. channel = <<>>
      BY <1>6 DEF Places, Gone
    <3>2. {m.call : m \in sending \union ToSet(channel)} = Sent
      BY <1>2, <3>1, NoCalls, Seen
    <3>3. {m.call : m \in sending' \union ToSet(channel')} = Sent'
      BY <1>6, <2>1, <3>1, NoCalls, SeenNext
    <3>4. QED
      BY <1>1, <1>3, <1>6, <3>2, <3>3 DEF Promise!Drop, Calls
  <2>5. QED
    BY <1>2, <2>3, <2>4 DEF Promise!Next
<1>7. QED
  BY <1>5, <1>6 DEF Send

(* One note is taken from the channel.                                      *)
LEMMA HeadShape ==
  ASSUME Places, channel # <<>>, phase # "ended", channel' = Tail(channel)
  PROVE  /\ Head(channel) \in Note
         /\ channel' \in Seq(Note) /\ Len(channel') <= ChannelCap /\ Distinct(channel')
         /\ CallsOf(channel') = CallsOf(channel) \ {Head(channel).call}
         /\ Head(channel).call \in CallsOf(channel)
         /\ Head(channel).call \notin Sent \union CallsOf(queue) \union CallsOf(visible)
<1>1. channel \in Seq(Note) /\ Len(channel) <= ChannelCap /\ Distinct(channel) /\ TypeOK
  BY DEF Places, TypeOK, Once
<1>2. /\ Head(channel) \in Note /\ channel' \in Seq(Note) /\ Len(channel') = Len(channel) - 1
  BY <1>1, TailShape
<1>3. /\ CallsOf(channel') = CallsOf(channel) \ {Head(channel).call}
      /\ Head(channel).call \in CallsOf(channel) /\ Distinct(channel')
  BY <1>1, TailCalls
<1>4. Len(channel') <= ChannelCap
  BY <1>1, <1>2, Numbers
<1>5. Head(channel).call \notin Sent \union CallsOf(queue) \union CallsOf(visible)
  BY <1>3 DEF Places, Apart
<1>6. QED
  BY <1>2, <1>3, <1>4, <1>5

(* A new note finds its place, or waits in line.                            *)
LEMMA PumpStep ==
  ASSUME Places, phase = "drain", channel # <<>>, channel' = Tail(channel),
         Head(channel).time # Order, Pump(Append(queue, Head(channel))),
         UNCHANGED <<made, nextId, sending, closed, phase>>
  PROVE  Places' /\ Promise!Next
<1> DEFINE n == Head(channel)
           notes == Append(queue, n)
<1>1. /\ n \in Note /\ n \in Waiting /\ n.call \in Call
      /\ channel' \in Seq(Note) /\ Len(channel') <= ChannelCap /\ Distinct(channel')
      /\ CallsOf(channel') = CallsOf(channel) \ {n.call}
      /\ n.call \in CallsOf(channel)
      /\ n.call \notin Sent \union CallsOf(queue) \union CallsOf(visible)
  BY HeadShape, NoteShape
<1>2. Pump(notes)
  OBVIOUS
<1> HIDE DEF n
<1>3. /\ TypeOK /\ queue \in Seq(Waiting) /\ Distinct(queue) /\ Len(queue) \in Nat
      /\ visible \in Seq(Toast) /\ Len(visible) <= MaxVisible /\ Distinct(visible)
      /\ CallsOf(queue) \intersect CallsOf(visible) = {}
  BY ElementShape DEF Places, TypeOK, Once, Apart
<1>4. /\ notes \in Seq(Waiting) /\ Len(notes) = Len(queue) + 1 /\ Distinct(notes)
      /\ CallsOf(notes) = CallsOf(queue) \union {n.call}
      /\ \A k \in 1..Len(queue) : notes[k] = queue[k]
      /\ notes[Len(queue) + 1] = n
  BY <1>1, <1>3, AppendShape, AppendCalls
<1> HIDE DEF notes
<1>5. CallsOf(visible) \intersect CallsOf(notes) = {}
  BY <1>1, <1>3, <1>4
<1>6. PICK m \in 0..Len(notes) :
        /\ visible' \in Seq(Toast) /\ Len(visible') <= MaxVisible /\ Distinct(visible')
        /\ queue' \in Seq(Waiting) /\ Distinct(queue')
        /\ queue' = SubSeq(notes, m + 1, Len(notes))
        /\ queue' = <<>> \/ Len(visible') = MaxVisible
        /\ CallsOf(visible') = CallsOf(visible) \union {notes[k].call : k \in 1..m}
        /\ CallsOf(visible') \intersect CallsOf(queue') = {}
        /\ CallsOf(visible') \union CallsOf(queue') = CallsOf(visible) \union CallsOf(notes)
  BY <1>2, <1>3, <1>4, <1>5, PumpShape
<1>7. queue' \in Seq(Note)
  BY <1>6, NoteShape, ElementShape
<1>8. TypeOK'
  BY <1>1, <1>3, <1>6, <1>7 DEF TypeOK
<1>9. Once'
  BY <1>1, <1>6 DEF Places, Once
<1>10. Apart' /\ Numbered'
  <2>1. Sent' = Sent /\ made' = made
    BY DEF Sent
  <2>2. CallsOf(visible') \union CallsOf(queue')
          = CallsOf(visible) \union CallsOf(queue) \union {n.call}
    BY <1>4, <1>6
  <2>3. CallsOf(visible') \intersect CallsOf(queue') = {}
    BY <1>6
  <2>4. Apart /\ Numbered
    BY DEF Places
  <2>5. Apart'
    BY <1>1, <2>1, <2>2, <2>3, <2>4 DEF Apart
  <2>6. Numbered'
    BY <1>1, <2>1, <2>2, <2>4 DEF Numbered
  <2>7. QED
    BY <2>5, <2>6
<1>11. Places'
  BY <1>6, <1>8, <1>9, <1>10 DEF Places, Gone
<1>12. PICK c \in Call : c = n.call
  BY <1>1
<1>13. /\ {x.call : x \in sending' \union ToSet(channel')} =
            {x.call : x \in sending \union ToSet(channel)} \ {c}
       /\ c \in {x.call : x \in sending \union ToSet(channel)}
  <2>1. Sent' = Sent
    BY DEF Sent
  <2>2. QED
    BY <1>1, <1>3, <1>8, <1>12, <2>1, Seen, SeenNext
<1>14. /\ ToSet(Calls(visible')) = CallsOf(visible') /\ ToSet(Calls(visible)) = CallsOf(visible)
  BY <1>3, <1>8, Seen, SeenNext
<1>15. Cardinality(CallsOf(visible')) = Len(visible')
  BY <1>6, CallsCardinality
<1>16. /\ Append(Calls(queue), c) = Calls(notes) /\ Len(Calls(notes)) = Len(notes)
       /\ \A k \in 1..Len(notes) : Calls(notes)[k] = notes[k].call
  <2>1. notes = Append(queue, n)
    BY DEF notes
  <2>2. Append(Calls(queue), n.call) = Calls(Append(queue, n))
    BY <1>1, <1>3, CallsAppend
  <2>3. /\ Len(Calls(notes)) = Len(notes)
        /\ \A k \in 1..Len(notes) : Calls(notes)[k] = notes[k].call
    BY <1>4, CallsShape
  <2>4. QED
    BY <1>12, <2>1, <2>2, <2>3
<1>17. Calls(queue') = SubSeq(Calls(notes), m + 1, Len(notes))
  <2>1. m + 1 \in 1..(Len(notes) + 1) /\ Len(notes) \in (m + 1 - 1)..Len(notes)
    BY <1>3, <1>4
  <2>2. QED
    BY <1>4, <1>6, <2>1, CallsPiece
<1>18. Calls(queue') = <<>> \/ Cardinality(CallsOf(visible')) = MaxVisible
  BY <1>6, <1>15 DEF Calls
<1>19. CallsOf(visible') = CallsOf(visible) \union {Calls(notes)[k] : k \in 1..m}
  <2>1. \A k \in 1..m : k \in 1..Len(notes)
    BY <1>4
  <2>2. {Calls(notes)[k] : k \in 1..m} = {notes[k].call : k \in 1..m}
    BY <1>16, <2>1
  <2>3. QED
    BY <1>6, <2>2
<1>20. Promise!Arrive(c)
  <2>1. m \in 0..(Len(Calls(queue)) + 1)
    BY <1>3, <1>4, CallsShape
  <2>2. Cardinality(CallsOf(visible')) <= MaxVisible
    BY <1>6, <1>15
  <2>3. (phase # "ended") /\ ((phase' # "ended") = (phase # "ended"))
    OBVIOUS
  <2>4. \E i \in 0..(Len(Calls(queue)) + 1) :
          LET line == Append(Calls(queue), c) IN
          /\ Calls(queue') = SubSeq(line, i + 1, Len(line))
          /\ ToSet(Calls(visible')) = ToSet(Calls(visible)) \union {line[k] : k \in 1..i}
    BY <1>14, <1>16, <1>17, <1>19, <2>1
  <2>5. /\ Cardinality(ToSet(Calls(visible'))) <= MaxVisible
        /\ Calls(queue') = <<>> \/ Cardinality(ToSet(Calls(visible'))) = MaxVisible
    BY <1>14, <1>18, <2>2
  <2>6. /\ Promise!Cardinality(ToSet(Calls(visible'))) <= MaxVisible
        /\ Calls(queue') = <<>> \/ Promise!Cardinality(ToSet(Calls(visible'))) = MaxVisible
    BY <2>5, SameCardinality
  <2>7. QED
    BY <1>13, <2>3, <2>4, <2>6, Zenon DEF Promise!Arrive
<1>21. QED
  BY <1>11, <1>20 DEF Promise!Next

(* A newer version takes the place of the toast with its id.                *)
LEMMA UpdateStep ==
  ASSUME Places, phase = "drain", channel # <<>>, channel' = Tail(channel),
         Head(channel).time # Order, NEW k \in DOMAIN visible,
         visible' = [visible EXCEPT ![k] = Head(channel)],
         UNCHANGED <<made, nextId, sending, queue, closed, phase>>
  PROVE  Places' /\ Promise!Next
<1> DEFINE n == Head(channel)
<1>1. /\ n \in Note /\ n \in Waiting /\ n \in Toast /\ n.call \in Call
      /\ channel' \in Seq(Note) /\ Len(channel') <= ChannelCap /\ Distinct(channel')
      /\ CallsOf(channel') = CallsOf(channel) \ {n.call}
      /\ n.call \in CallsOf(channel)
      /\ n.call \notin Sent \union CallsOf(queue) \union CallsOf(visible)
  BY HeadShape, NoteShape
<1>2. visible' = [visible EXCEPT ![k] = n]
  OBVIOUS
<1> HIDE DEF n
<1>3. /\ TypeOK /\ visible \in Seq(Toast) /\ Len(visible) <= MaxVisible /\ Distinct(visible)
      /\ Apart /\ Numbered /\ queue \in Seq(Waiting)
  BY DEF Places, TypeOK, Once
<1>4. /\ visible' \in Seq(Toast) /\ Len(visible') <= MaxVisible /\ Distinct(visible')
      /\ CallsOf(visible') = (CallsOf(visible) \ {visible[k].call}) \union {n.call}
      /\ visible[k].call \in CallsOf(visible)
  <2>1. visible[k].call \in CallsOf(visible)
    BY DEF CallsOf
  <2>2. /\ n.call \notin CallsOf(visible) /\ n \in Toast /\ k \in DOMAIN visible
        /\ visible \in Seq(Toast) /\ Distinct(visible)
    BY <1>1, <1>3
  <2>3. /\ visible' \in Seq(Toast) /\ Len(visible') = Len(visible) /\ visible'[k] = n
        /\ \A j \in DOMAIN visible \ {k} : visible'[j] = visible[j]
    BY <1>2, <2>2
  <2>4. /\ CallsOf(visible') = (CallsOf(visible) \ {visible[k].call}) \union {n.call}
        /\ Distinct(visible')
    BY ONLY <2>2, <2>3, ReplaceCalls
  <2>5. QED
    BY <1>3, <2>1, <2>3, <2>4
<1>5. TypeOK'
  BY <1>1, <1>3, <1>4 DEF TypeOK
<1>6. Once'
  BY <1>1, <1>4 DEF Places, Once
<1>7. Sent' = Sent /\ CallsOf(queue') = CallsOf(queue)
  BY DEF Sent
<1>8. Apart' /\ Numbered'
  BY <1>1, <1>3, <1>4, <1>7 DEF Apart, Numbered
<1>9. Places'
  BY <1>3, <1>5, <1>6, <1>8 DEF Places, Gone
<1>10. PICK c \in Call : c = n.call
  BY <1>1
<1>11. /\ {x.call : x \in sending' \union ToSet(channel')} =
            {x.call : x \in sending \union ToSet(channel)} \ {c}
       /\ c \in {x.call : x \in sending \union ToSet(channel)}
       /\ ToSet(Calls(visible')) = CallsOf(visible') /\ ToSet(Calls(visible)) = CallsOf(visible)
  BY <1>1, <1>3, <1>5, <1>7, <1>10, Seen, SeenNext
<1>12. Promise!Update(c)
  <2>1. \E old \in ToSet(Calls(visible)) :
          ToSet(Calls(visible')) = (ToSet(Calls(visible)) \ {old}) \union {c}
    BY <1>4, <1>10, <1>11
  <2>2. /\ phase # "ended" /\ ((phase' # "ended") = (phase # "ended"))
        /\ Calls(queue)' = Calls(queue)
    BY DEF Calls
  <2>3. QED
    BY <1>11, <2>1, <2>2, Zenon DEF Promise!Update
<1>13. QED
  BY <1>9, <1>12 DEF Promise!Next

(* A toast is taken from the screen.                                        *)
LEMMA RemoveToastShape ==
  ASSUME Places, NEW k \in DOMAIN visible, RemoveToast(k)
  PROVE  /\ visible' \in Seq(Toast) /\ Len(visible') <= MaxVisible /\ Distinct(visible')
         /\ CallsOf(visible') = CallsOf(visible) \ {visible[k].call}
         /\ visible[k].call \in CallsOf(visible)
         /\ closed' \in Seq(Id) /\ Len(closed') <= ClosedCap
<1>1. /\ TypeOK /\ visible \in Seq(Toast) /\ Len(visible) <= MaxVisible /\ Distinct(visible)
      /\ closed \in Seq(Id) /\ Len(closed) <= ClosedCap /\ Len(visible) \in Nat
  BY ElementShape DEF Places, TypeOK, Once
<1>2. visible' = RemoveAt(visible, k) /\ Announce(<<visible[k].id>>)
  BY DEF RemoveToast
<1>3. visible' \in Seq(Toast) /\ Len(visible') = Len(visible) - 1
  BY <1>1, <1>2, RemoveShape
<1>4. CallsOf(visible') = CallsOf(visible) \ {visible[k].call} /\ Distinct(visible')
  BY <1>1, <1>2, RemoveCalls
<1>5. visible[k].call \in CallsOf(visible)
  BY DEF CallsOf
<1>6. visible[k].id \in Id
  BY <1>1, ElementShape, NoteShape
<1>7. <<visible[k].id>> \in Seq(Id)
  BY <1>6
<1>8. closed' \in Seq(Id) /\ Len(closed') <= ClosedCap
  BY <1>1, <1>2, <1>7, AnnounceShape
<1>9. Len(visible') <= MaxVisible
  BY <1>1, <1>3, Numbers
<1>10. QED
  BY <1>3, <1>4, <1>5, <1>8, <1>9

(* An order to close takes at most one toast away.                          *)
LEMMA OrderStep ==
  ASSUME Places, phase = "drain", channel # <<>>, channel' = Tail(channel),
         \/ UNCHANGED <<visible, closed>>
         \/ \E k \in DOMAIN visible : RemoveToast(k),
         UNCHANGED <<made, nextId, sending, queue, phase>>
  PROVE  Places' /\ Promise!Next
<1> DEFINE n == Head(channel)
<1>1. /\ n \in Note /\ n.call \in Call
      /\ channel' \in Seq(Note) /\ Len(channel') <= ChannelCap /\ Distinct(channel')
      /\ CallsOf(channel') = CallsOf(channel) \ {n.call}
      /\ n.call \in CallsOf(channel)
      /\ n.call \notin Sent \union CallsOf(queue) \union CallsOf(visible)
  BY HeadShape, NoteShape
<1> HIDE DEF n
<1>2. /\ TypeOK /\ Apart /\ Numbered /\ queue \in Seq(Waiting) /\ Once
  BY DEF Places
<1>3. /\ visible' \in Seq(Toast) /\ Len(visible') <= MaxVisible /\ Distinct(visible')
      /\ \/ CallsOf(visible') = CallsOf(visible)
         \/ \E old \in CallsOf(visible) : CallsOf(visible') = CallsOf(visible) \ {old}
      /\ closed' \in Seq(Id) /\ Len(closed') <= ClosedCap
  <2>1. CASE UNCHANGED <<visible, closed>>
    BY <1>2, <2>1 DEF TypeOK, Once
  <2>2. CASE \E k \in DOMAIN visible : RemoveToast(k)
    BY <2>2, RemoveToastShape
  <2>3. QED
    BY <2>1, <2>2
<1>4. TypeOK'
  BY <1>1, <1>2, <1>3 DEF TypeOK
<1>5. Once'
  BY <1>1, <1>2, <1>3 DEF Once
<1>6. Sent' = Sent /\ CallsOf(queue') = CallsOf(queue)
  BY DEF Sent
<1>7. CallsOf(visible') \subseteq CallsOf(visible)
  BY <1>3
<1>8. Apart' /\ Numbered'
  BY <1>1, <1>2, <1>6, <1>7 DEF Apart, Numbered
<1>9. Places'
  BY <1>2, <1>4, <1>5, <1>8 DEF Places, Gone
<1>10. PICK c \in Call : c = n.call
  BY <1>1
<1>11. /\ {x.call : x \in sending' \union ToSet(channel')} =
            {x.call : x \in sending \union ToSet(channel)} \ {c}
       /\ c \in {x.call : x \in sending \union ToSet(channel)}
       /\ ToSet(Calls(visible')) = CallsOf(visible') /\ ToSet(Calls(visible)) = CallsOf(visible)
  BY <1>1, <1>2, <1>4, <1>6, <1>10, Seen, SeenNext
<1>12. Promise!Order(c)
  <2>1. \/ ToSet(Calls(visible')) = ToSet(Calls(visible))
        \/ \E old \in ToSet(Calls(visible)) :
             ToSet(Calls(visible')) = ToSet(Calls(visible)) \ {old}
    BY <1>3, <1>11
  <2>2. /\ phase # "ended" /\ ((phase' # "ended") = (phase # "ended"))
        /\ Calls(queue)' = Calls(queue)
    BY DEF Calls
  <2>3. QED
    BY <1>11, <2>1, <2>2, Zenon DEF Promise!Order
<1>13. QED
  BY <1>9, <1>12 DEF Promise!Next

(* Some toasts leave the screen at an end of theirs.                        *)
LEMMA EndStep ==
  ASSUME Places, phase # "ended", phase' # "ended", phase' \in {"drain", "dispatch", "sleep"},
         visible' \in Seq(Toast), Len(visible') <= MaxVisible, Distinct(visible'),
         CallsOf(visible') \subseteq CallsOf(visible),
         closed' \in Seq(Id), Len(closed') <= ClosedCap,
         UNCHANGED <<made, nextId, sending, channel, queue>>
  PROVE  Places' /\ Promise!Next
<1>1. /\ TypeOK /\ Apart /\ Numbered /\ queue \in Seq(Waiting) /\ Once
  BY DEF Places
<1>2. TypeOK'
  BY <1>1 DEF TypeOK
<1>3. Once'
  BY <1>1 DEF Once
<1>4. Sent' = Sent /\ CallsOf(queue') = CallsOf(queue) /\ CallsOf(channel') = CallsOf(channel)
  BY DEF Sent
<1>5. Apart' /\ Numbered'
  BY <1>1, <1>4 DEF Apart, Numbered
<1>6. Places'
  BY <1>1, <1>2, <1>3, <1>5 DEF Places, Gone
<1>7. ToSet(Calls(visible')) \in SUBSET ToSet(Calls(visible))
  BY <1>1, <1>2, Seen, SeenNext
<1>8. /\ phase # "ended" /\ ((phase' # "ended") = (phase # "ended"))
      /\ Calls(queue)' = Calls(queue)
      /\ {x.call : x \in sending \union ToSet(channel)}' =
           {x.call : x \in sending \union ToSet(channel)}
  BY DEF Calls
<1>9. Promise!End
  BY <1>7, <1>8, Zenon DEF Promise!End
<1>10. QED
  BY <1>6, <1>9 DEF Promise!Next

(* tick_timeouts: what stays has time left, and each call stays once.       *)
LEMMA TickStep ==
  ASSUME Places, Tick
  PROVE  Places' /\ Promise!Next
<1>1. /\ phase = "sleep" /\ phase' = "drain"
      /\ UNCHANGED <<made, nextId, sending, channel, queue>>
  BY DEF Tick
<1>2. PICK passed \in UNION {1..time : time \in Timeout} :
        LET timedOut == {k \in DOMAIN visible : visible[k].time <= passed} IN
        \E over \in InOrder(timedOut), left \in InOrder(DOMAIN visible \ timedOut) :
          /\ visible' = [k \in DOMAIN left |-> [visible[left[k]] EXCEPT !.time = @ - passed]]
          /\ Announce([k \in DOMAIN over |-> visible[over[k]].id])
  BY DEF Tick
<1> DEFINE timedOut == {k \in DOMAIN visible : visible[k].time <= passed}
           staying == DOMAIN visible \ timedOut
<1>3. PICK over \in InOrder(timedOut), left \in InOrder(staying) :
        /\ visible' = [k \in DOMAIN left |-> [visible[left[k]] EXCEPT !.time = @ - passed]]
        /\ Announce([k \in DOMAIN over |-> visible[over[k]].id])
  BY <1>2
<1>4. passed \in Nat
  BY TimeoutAssumption
<1>5. /\ TypeOK /\ visible \in Seq(Toast) /\ Len(visible) <= MaxVisible /\ Distinct(visible)
      /\ closed \in Seq(Id) /\ Len(closed) <= ClosedCap
      /\ DOMAIN visible = 1..Len(visible) /\ Len(visible) \in Nat
      /\ \A k \in DOMAIN visible : visible[k] \in Toast
  BY ElementShape DEF Places, TypeOK, Once
<1>6. /\ timedOut \in SUBSET (1..Len(visible)) /\ staying \in SUBSET (1..Len(visible))
      /\ \A k \in staying : k \in DOMAIN visible /\ ~(visible[k].time <= passed)
  BY <1>5
<1> HIDE DEF timedOut, staying
<1>7. /\ Cardinality(timedOut) \in 0..Len(visible)
      /\ DOMAIN over = 1..Cardinality(timedOut)
      /\ \A k \in DOMAIN over : over[k] \in timedOut
  BY <1>5, <1>6, InOrderShape
<1>8. /\ Cardinality(staying) \in 0..Len(visible)
      /\ DOMAIN left = 1..Cardinality(staying)
      /\ \A k \in DOMAIN left : left[k] \in staying
      /\ \A j, k \in DOMAIN left : left[j] = left[k] => j = k
  BY <1>5, <1>6, InOrderShape
<1> DEFINE aged(k) == [visible[left[k]] EXCEPT !.time = @ - passed]
           ids == [k \in DOMAIN over |-> visible[over[k]].id]
<1>9. \A k \in DOMAIN left : aged(k) \in Toast /\ aged(k).call = visible[left[k]].call
  <2>1. \A k \in DOMAIN left : left[k] \in DOMAIN visible /\ ~(visible[left[k]].time <= passed)
    BY <1>6, <1>8
  <2>2. QED
    BY <1>4, <1>5, <2>1, TickedToast
<1>10. visible' = [k \in DOMAIN left |-> aged(k)]
  BY <1>3
<1> HIDE DEF aged
<1>11. /\ DOMAIN visible' = 1..Cardinality(staying)
       /\ \A k \in 1..Cardinality(staying) : visible'[k] = aged(k) /\ aged(k) \in Toast
  BY <1>8, <1>9, <1>10
<1>12. visible' \in Seq(Toast) /\ Len(visible') = Cardinality(staying)
  <2>1. visible' \in [1..Cardinality(staying) -> Toast]
    BY <1>8, <1>9, <1>10
  <2>2. Cardinality(staying) \in Nat
    BY <1>5, <1>8
  <2>3. QED
    BY <2>1, <2>2
<1>13. Len(visible') <= MaxVisible
  BY <1>5, <1>8, <1>12, Numbers
<1>14. \A k \in DOMAIN visible' :
         /\ k \in DOMAIN left /\ left[k] \in DOMAIN visible
         /\ visible'[k].call = visible[left[k]].call
  BY <1>6, <1>8, <1>9, <1>11
<1>15. CallsOf(visible') \subseteq CallsOf(visible)
  BY <1>14 DEF CallsOf
<1>16. Distinct(visible')
  BY <1>5, <1>8, <1>14 DEF Distinct
<1>17. ids \in Seq(Id)
  <2>1. \A k \in DOMAIN over : over[k] \in DOMAIN visible /\ visible[over[k]].id \in Id
    BY <1>5, <1>6, <1>7, NoteShape
  <2>2. ids \in [1..Cardinality(timedOut) -> Id] /\ Cardinality(timedOut) \in Nat
    BY <1>5, <1>7, <2>1
  <2> HIDE DEF ids
  <2>3. QED
    BY <2>2
<1>18. closed' \in Seq(Id) /\ Len(closed') <= ClosedCap
  <2>1. Announce(ids)
    BY <1>3
  <2> HIDE DEF ids
  <2>2. QED
    BY <1>5, <1>17, <2>1, AnnounceShape
<1>19. QED
  BY <1>1, <1>12, <1>13, <1>15, <1>16, <1>18, EndStep

(* A surface that the compositor closes.                                    *)
LEMMA SurfaceClosedStep ==
  ASSUME Places, SurfaceClosed
  PROVE  Places' /\ Promise!Next
<1>1. /\ phase = "dispatch" /\ phase' = phase
      /\ UNCHANGED <<made, nextId, sending, channel, queue>>
  BY DEF SurfaceClosed
<1>2. PICK k \in DOMAIN visible : RemoveToast(k)
  BY DEF SurfaceClosed
<1>3. /\ visible' \in Seq(Toast) /\ Len(visible') <= MaxVisible /\ Distinct(visible')
      /\ CallsOf(visible') \subseteq CallsOf(visible)
      /\ closed' \in Seq(Id) /\ Len(closed') <= ClosedCap
  BY <1>2, RemoveToastShape
<1>4. QED
  BY <1>1, <1>3, EndStep

(* The thread ends.                                                         *)
LEMMA FailStep ==
  ASSUME Places, DispatchFails
  PROVE  Places' /\ Promise!Next
<1>1. /\ phase = "dispatch" /\ phase' = "ended"
      /\ channel' = <<>> /\ queue' = <<>> /\ visible' = <<>>
      /\ UNCHANGED <<made, nextId, sending, closed>>
  BY DEF DispatchFails
<1>2. /\ TypeOK /\ Apart /\ Numbered /\ Once /\ nextId <= made + 1
  BY DEF Places
<1>3. /\ Len(<<>>) = 0 /\ 0 <= ChannelCap /\ 0 <= MaxVisible
  BY SizesAssumption
<1>4. TypeOK'
  BY <1>1, <1>2, <1>3, NoCalls DEF TypeOK
<1>5. /\ Sent' = Sent /\ CallsOf(channel') = {} /\ CallsOf(queue') = {} /\ CallsOf(visible') = {}
      /\ Distinct(channel') /\ Distinct(queue') /\ Distinct(visible')
  BY <1>1, NoCalls DEF Sent
<1>6. Once'
  BY <1>1, <1>2, <1>5 DEF Once
<1>7. Apart' /\ Numbered'
  BY <1>1, <1>2, <1>5 DEF Apart, Numbered
<1>8. Places'
  BY <1>1, <1>2, <1>4, <1>6, <1>7, NoCalls DEF Places, Gone
<1>9. /\ {x.call : x \in sending' \union ToSet(channel')} \in
           SUBSET {x.call : x \in sending \union ToSet(channel)}
      /\ ToSet(Calls(visible')) = {}
  BY <1>2, <1>4, <1>5, Seen, SeenNext
<1>10. Calls(queue') = <<>>
  BY <1>1 DEF Calls
<1>11. phase # "ended" /\ ((phase' # "ended") = FALSE)
  BY <1>1
<1>12. Promise!Fail
  BY <1>9, <1>10, <1>11, Zenon DEF Promise!Fail
<1>13. QED
  BY <1>8, <1>12 DEF Promise!Next

(* The relay, and the turns of the thread that only move it on.             *)
LEMMA QuietStep ==
  ASSUME Places,
         \/ Relay
         \/ Drained
         \/ Dispatched
         \/ UNCHANGED vars
  PROVE  Places' /\ UNCHANGED promised
<1>1. /\ UNCHANGED <<made, nextId, sending, channel, queue, visible>>
      /\ (phase # "ended" /\ phase' # "ended") \/ phase' = phase
      /\ phase' \in {"drain", "dispatch", "sleep", "ended"}
      /\ closed' \in Seq(Id) /\ Len(closed') <= ClosedCap
  <2>1. TypeOK /\ closed \in Seq(Id) /\ Len(closed) <= ClosedCap /\ Len(closed) \in Nat
    BY ElementShape DEF Places, TypeOK
  <2>2. CASE Relay
    <3>1. closed' \in Seq(Id) /\ Len(closed') = Len(closed) - 1
      BY <2>1, <2>2, TailShape DEF Relay
    <3>2. Len(closed') <= ClosedCap
      BY <2>1, <3>1, SizesAssumption
    <3>3. phase' = phase /\ phase \in {"drain", "dispatch", "sleep", "ended"}
      BY <2>1, <2>2 DEF Relay, TypeOK
    <3>4. QED
      BY <2>2, <3>1, <3>2, <3>3 DEF Relay
  <2>3. CASE Drained
    BY <2>1, <2>3 DEF Drained
  <2>4. CASE Dispatched
    BY <2>1, <2>4 DEF Dispatched
  <2>5. CASE UNCHANGED vars
    BY <2>1, <2>5 DEF vars, TypeOK
  <2>6. QED
    BY <2>2, <2>3, <2>4, <2>5
<1>2. /\ TypeOK /\ Apart /\ Numbered /\ Once /\ queue \in Seq(Waiting) /\ nextId <= made + 1 /\ Gone
  BY DEF Places
<1>3. TypeOK'
  BY <1>1, <1>2 DEF TypeOK
<1>4. Once' /\ Apart' /\ Numbered' /\ Gone'
  BY <1>1, <1>2 DEF Once, Apart, Numbered, Gone, Sent
<1>5. Places'
  BY <1>1, <1>2, <1>3, <1>4 DEF Places
<1>6. (phase' # "ended") = (phase # "ended")
  BY <1>1
<1>7. UNCHANGED promised
  BY <1>1, <1>6 DEF promised, Calls
<1>8. QED
  BY <1>5, <1>7

(* Every step of the daemon is a step of Toasts, or one that it does not see. *)
LEMMA NextPlaces ==
  ASSUME Places, [Next]_vars
  PROVE  Places' /\ (Promise!Next \/ UNCHANGED promised)
<1>1. CASE Notify
  <2>1. TypeOK
    BY DEF Places
  <2>2. PICK time \in Timeout \union {1, Order} :
          \/ Make(nextId, time) /\ nextId' = nextId + 1
          \/ \E replaces \in Named : Make(replaces, time) /\ UNCHANGED nextId
    BY <1>1 DEF Notify, Stay
  <2>3. CASE Make(nextId, time) /\ nextId' = nextId + 1
    <3>1. made < MaxCalls /\ nextId <= made + 1
      BY <2>3 DEF Make, Places
    <3>2. nextId \in Id
      BY <2>1, <3>1, Numbers DEF Id
    <3>3. PICK id \in Id : id = nextId
      BY <3>2
    <3>4. Make(id, time)
      BY <2>3, <3>3 DEF Make
    <3>5. QED
      BY <2>3, <3>4, MakeStep
  <2>4. CASE \E replaces \in Named : Make(replaces, time) /\ UNCHANGED nextId
    BY <2>4, MakeStep DEF Id
  <2>5. QED
    BY <2>2, <2>3, <2>4
<1>2. CASE CloseNotification
  BY <1>2, MakeStep DEF CloseNotification, Id
<1>3. CASE \E n \in sending : Send(n)
  BY <1>3, SendStep
<1>4. CASE Relay \/ Drained \/ Dispatched \/ UNCHANGED vars
  BY <1>4, QuietStep
<1>5. CASE Drain
  <2>1. /\ phase = "drain" /\ channel # <<>> /\ channel' = Tail(channel)
        /\ UNCHANGED <<made, nextId, sending, phase>>
    BY <1>5 DEF Drain
  <2>2. CASE Head(channel).time # Order /\ Enqueue(Head(channel)) /\ UNCHANGED closed
    <3>1. CASE Pump(Append(queue, Head(channel)))
      BY <2>1, <2>2, <3>1, PumpStep
    <3>2. CASE \E k \in Position(Head(channel).id) :
                 visible' = [visible EXCEPT ![k] = Head(channel)] /\ UNCHANGED queue
      <4>1. PICK k \in DOMAIN visible :
              visible' = [visible EXCEPT ![k] = Head(channel)] /\ UNCHANGED queue
        BY <3>2 DEF Position
      <4>2. QED
        BY <2>1, <2>2, <4>1, UpdateStep
    <3>3. QED
      BY <2>2, <3>1, <3>2 DEF Enqueue
  <2>3. CASE /\ \/ UNCHANGED <<visible, closed>>
                \/ \E k \in DOMAIN visible : RemoveToast(k)
             /\ UNCHANGED queue
    BY <2>1, <2>3, OrderStep
  <2>4. QED
    BY <1>5, <2>2, <2>3 DEF Drain, Position
<1>6. CASE Tick
  BY <1>6, TickStep
<1>7. CASE SurfaceClosed
  BY <1>7, SurfaceClosedStep
<1>8. CASE DispatchFails
  BY <1>8, FailStep
<1>9. QED
  BY <1>1, <1>2, <1>3, <1>4, <1>5, <1>6, <1>7, <1>8 DEF Next, Thread

(* Every variable keeps its type, the channels and the stack of toasts      *)
(* their bounds, whatever the calls and the compositor do.                  *)
THEOREM TypeCorrect == Spec => []TypeOK
<1>1. Init => Places
  BY InitPlaces
<1>2. Places /\ [Next]_vars => Places'
  BY NextPlaces
<1>3. Places => TypeOK
  BY DEF Places
<1>4. QED
  BY <1>1, <1>2, <1>3, PTL DEF Spec

(* The daemon implements Toasts: nothing that was sent disappears between   *)
(* the calls, the channel, the queue and the screen, waiting notifications  *)
(* come up in order, and an arrival fills all free places.                  *)
THEOREM KeepsPromiseCorrect == Spec => KeepsPromise
<1>1. Init => Places /\ Promise!Init
  BY InitPlaces
<1>2. Places /\ [Next]_vars => Places' /\ [Promise!Next]_promised
  BY NextPlaces
<1>3. QED
  BY <1>1, <1>2, PTL DEF Spec, KeepsPromise, Promise!Spec, promised
===============================================================================
