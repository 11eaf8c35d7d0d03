------------------------------ MODULE ProgramsProofs ------------------------------
(***************************************************************************)
(* The files FRAME publishes and the client's pauses, and then all programs *)
(* in one: what the components' invariants say holds in every behaviour of  *)
(* ProgramsSpec.                                                            *)
(***************************************************************************)
EXTENDS LauncherProofs, ClientsProofs

-------------------------------------------------------------------------------
(* FRAME's files.                                                           *)

FTypes ==
  /\ {tmp, display, sock} \subseteq F!MaybeFrame
  /\ frames \in [Frame -> F!Place]
  /\ met \subseteq Frame

(* A process that met no other one is the only one there.                   *)
MetNobody ==
  \A f \in Frame \ met : frames[f] # "absent" => \A g \in Frame \ {f} : frames[g] = "absent"

(* What such a process has already replaced at each place of its start.     *)
Replaced(f) ==
  /\ frames[f] = "renaming" => tmp = f
  /\ frames[f] \in {"published", "binding", "running"} => display = f
  /\ frames[f] = "binding" => sock = NoFrame
  /\ frames[f] = "running" => sock = f

FInv == FTypes /\ MetNobody /\ \A f \in Frame \ met : Replaced(f)

-------------------------------------------------------------------------------
(* At the start no process is there.                                        *)
LEMMA InitFInv == F!Init => FInv
  BY DEF F!Init, FInv, FTypes, MetNobody, Replaced, F!Place, F!MaybeFrame

(* A process that starts beside another one has met it, and so has the      *)
(* other; one that starts alone has everything still before it.             *)
LEMMA StartFInv == ASSUME NEW f \in Frame, FInv, F!Start(f) PROVE FInv'
<1> USE DEF FInv, FTypes, MetNobody, Replaced, F!Place, F!MaybeFrame
<1>1. CASE \A g \in Frame : frames[g] = "absent"
  BY <1>1 DEF F!Start, F!files
<1>2. CASE \E g \in Frame : frames[g] # "absent"
  BY <1>2 DEF F!Start, F!files
<1>3. QED
  BY <1>1, <1>2

(* Every other step of a process that met nobody is made by the only one    *)
(* that is there.                                                           *)
LEMMA ProcessFInv ==
  ASSUME NEW f \in Frame, FInv,
         \/ F!WriteTmp(f) \/ F!Publish(f) \/ F!RemoveStale(f) \/ F!Bind(f)
         \/ F!Stop(f) \/ F!DropSocket(f) \/ F!RemoveDisplay(f) \/ F!Crash(f)
  PROVE  FInv'
<1> USE DEF FInv, FTypes, MetNobody, Replaced, F!Place, F!MaybeFrame, F!Goes, F!files
<1>1. CASE F!WriteTmp(f)
  BY <1>1 DEF F!WriteTmp
<1>2. CASE F!Publish(f)
  BY <1>2 DEF F!Publish
<1>3. CASE F!RemoveStale(f)
  BY <1>3 DEF F!RemoveStale
<1>4. CASE F!Bind(f)
  BY <1>4 DEF F!Bind
<1>5. CASE F!Stop(f)
  BY <1>5 DEF F!Stop
<1>6. CASE F!DropSocket(f)
  BY <1>6 DEF F!DropSocket
<1>7. CASE F!RemoveDisplay(f)
  BY <1>7 DEF F!RemoveDisplay
<1>8. CASE F!Crash(f)
  BY <1>8 DEF F!Crash
<1>9. QED
  BY <1>1, <1>2, <1>3, <1>4, <1>5, <1>6, <1>7, <1>8

(* The client changes no file.                                              *)
LEMMA NextFInv == FInv /\ [F!Next]_F!vars => FInv'
<1> SUFFICES ASSUME FInv, [F!Next]_F!vars PROVE FInv'
  OBVIOUS
<1>1. ASSUME NEW f \in Frame, F!Start(f) PROVE FInv'
  BY <1>1, StartFInv
<1>2. ASSUME NEW f \in Frame,
             \/ F!WriteTmp(f) \/ F!Publish(f) \/ F!RemoveStale(f) \/ F!Bind(f)
             \/ F!Stop(f) \/ F!DropSocket(f) \/ F!RemoveDisplay(f) \/ F!Crash(f)
      PROVE FInv'
  BY <1>2, ProcessFInv
<1>3. CASE F!Connect \/ F!Retry \/ UNCHANGED F!vars
  <2>1. UNCHANGED <<F!files, frames, met>>
    BY <1>3 DEF F!Connect, F!Retry, F!vars
  <2>2. QED
    BY <2>1 DEF FInv, FTypes, MetNobody, Replaced, F!files
<1>4. QED
  BY <1>1, <1>2, <1>3 DEF F!Next

(* The client is connected to nothing but a process whose socket it found.  *)
LEMMA NextPeer == FInv /\ peer \in F!MaybeFrame /\ [F!Next]_F!vars => peer' \in F!MaybeFrame
<1> SUFFICES ASSUME FInv, peer \in F!MaybeFrame, [F!Next]_F!vars PROVE peer' \in F!MaybeFrame
  OBVIOUS
<1>1. CASE F!Connect
  BY <1>1 DEF F!Connect, FInv, FTypes
<1>2. CASE F!Retry \/ UNCHANGED F!vars
  BY <1>2 DEF F!Retry, F!vars, F!client
<1>3. ASSUME NEW f \in Frame,
             \/ F!Start(f) \/ F!WriteTmp(f) \/ F!Publish(f) \/ F!RemoveStale(f) \/ F!Bind(f)
             \/ F!Stop(f) \/ F!DropSocket(f) \/ F!RemoveDisplay(f) \/ F!Crash(f)
      PROVE  UNCHANGED peer
  BY <1>3 DEF F!Start, F!WriteTmp, F!Publish, F!RemoveStale, F!Bind, F!Stop, F!DropSocket,
              F!RemoveDisplay, F!Crash, F!Goes, F!client
<1>4. QED
  BY <1>1, <1>2, <1>3 DEF F!Next

(* Whatever earlier processes left behind, a FRAME process that runs and    *)
(* met no other one is the one both files lead to.                          *)
THEOREM RunningIsFoundCorrect == F!Spec => []F!RunningIsFound
<1>1. FInv => F!RunningIsFound
  BY DEF FInv, Replaced, F!RunningIsFound
<1>2. QED
  BY <1>1, InitFInv, NextFInv, PTL DEF F!Spec

-------------------------------------------------------------------------------
(* The client's pauses.                                                      *)

(* Doubling: a set has as many subsets with a new element as without.       *)
LEMMA PowerOfTwo ==
  ASSUME NEW n \in Nat
  PROVE  /\ 2^n \in Nat
         /\ 2^(n + 1) = 2 * 2^n
<1> DEFINE Without == SUBSET (1..n)
           With == {s \union {n + 1} : s \in Without}
<1>1. IsFiniteSet(1..n) /\ Cardinality(1..n) = n
  BY FS_Interval
<1>2. IsFiniteSet(1..(n + 1)) /\ Cardinality(1..(n + 1)) = n + 1
  BY FS_Interval
<1>3. IsFiniteSet(Without) /\ Cardinality(Without) = 2^n
  BY <1>1, FS_SUBSET
<1>4. Cardinality(SUBSET (1..(n + 1))) = 2^(n + 1)
  BY <1>2, FS_SUBSET
<1>5. SUBSET (1..(n + 1)) = Without \union With
  <2>1. ASSUME NEW s \in SUBSET (1..(n + 1)) PROVE s \in Without \union With
    <3>1. CASE n + 1 \in s
      <4>1. s \ {n + 1} \in Without
        OBVIOUS
      <4>2. s = (s \ {n + 1}) \union {n + 1}
        BY <3>1
      <4>3. QED
        BY <4>1, <4>2
    <3>2. CASE n + 1 \notin s
      BY <3>2
    <3>3. QED
      BY <3>1, <3>2
  <2>2. Without \subseteq SUBSET (1..(n + 1))
    OBVIOUS
  <2>3. With \subseteq SUBSET (1..(n + 1))
    <3>1. 1..n \subseteq 1..(n + 1) /\ n + 1 \in 1..(n + 1)
      OBVIOUS
    <3>2. QED
      BY <3>1
  <2>4. QED
    BY <2>1, <2>2, <2>3
<1>6. IsFiniteSet(With) /\ Cardinality(With) = Cardinality(Without)
  <2> DEFINE g == [s \in Without |-> s \union {n + 1}]
  <2>1. g \in Bijection(Without, With)
    <3>1. g \in [Without -> With] /\ \A t \in With : \E s \in Without : g[s] = t
      OBVIOUS
    <3>2. ASSUME NEW s \in Without, NEW t \in Without, g[s] = g[t] PROVE s = t
      <4>1. n + 1 \notin s /\ n + 1 \notin t
        OBVIOUS
      <4>2. s \union {n + 1} = t \union {n + 1}
        BY <3>2
      <4>3. QED
        BY <4>1, <4>2
    <3>3. QED
      BY <3>1, <3>2 DEF Bijection, Injection, Surjection, IsInjective
  <2>2. ExistsBijection(Without, With)
    BY <2>1 DEF ExistsBijection
  <2>3. QED
    BY <1>3, <2>2, FS_Bijection
<1>7. Without \intersect With = {}
  OBVIOUS
<1> HIDE DEF Without, With
<1>8. Cardinality(Without \union With) = 2^n + 2^n
  <2>1. Cardinality(Without \intersect With) = 0
    BY <1>7, FS_EmptySet
  <2>2. Cardinality(Without \union With)
          = Cardinality(Without) + Cardinality(With) - Cardinality(Without \intersect With)
    BY <1>3, <1>6, FS_Union
  <2>3. Cardinality(Without) \in Nat
    BY <1>3, FS_CardinalityType
  <2>4. QED
    BY <1>3, <1>6, <2>1, <2>2, <2>3
<1>9. 2^n \in Nat
  BY <1>3, FS_CardinalityType
<1>10. ASSUME NEW a \in Nat PROVE a + a = 2 * a
  OBVIOUS
<1>11. QED
  BY <1>4, <1>5, <1>8, <1>9, <1>10

(* The pause follows the schedule, and never leaves its bounds.             *)
Backoff ==
  /\ tries \in 0..MaxTries /\ delay \in InitialMs..CapMs
  /\ F!BackoffSchedule

(* The first pause is the initial one.                                      *)
LEMMA InitBackoff == F!Init => Backoff
<1>1. 2^0 = 1
  OBVIOUS
<1>2. QED
  BY <1>1, BackoffAssumption DEF F!BackoffAssumption, F!Init, Backoff, F!BackoffSchedule

(* Every further one is twice as long, up to the cap.                       *)
LEMMA NextBackoff == Backoff /\ [F!Next]_F!vars => Backoff'
<1> SUFFICES ASSUME Backoff, [F!Next]_F!vars PROVE Backoff'
  OBVIOUS
<1>1. CASE UNCHANGED <<tries, delay>>
  BY <1>1 DEF Backoff, F!BackoffSchedule
<1>2. CASE F!Retry
  <2> DEFINE plain == InitialMs * 2^tries
  <2>1. /\ tries' = tries + 1 /\ tries < MaxTries
        /\ delay' = IF 2 * delay < CapMs THEN 2 * delay ELSE CapMs
    BY <1>2 DEF F!Retry
  <2>2. /\ tries \in Nat /\ InitialMs \in Nat \ {0} /\ CapMs \in Nat /\ MaxTries \in Nat
        /\ InitialMs <= CapMs /\ delay \in InitialMs..CapMs
    BY BackoffAssumption DEF F!BackoffAssumption, Backoff
  <2>3. 2^tries \in Nat /\ 2^(tries + 1) = 2 * 2^tries
    BY <2>2, PowerOfTwo
  <2>4. plain \in Nat /\ InitialMs * 2^(tries + 1) = 2 * plain
    <3>1. ASSUME NEW a \in Nat, NEW b \in Nat PROVE a * b \in Nat /\ a * (2 * b) = 2 * (a * b)
      OBVIOUS
    <3>2. QED
      BY <2>2, <2>3, <3>1
  <2>5. delay = IF plain < CapMs THEN plain ELSE CapMs
    BY DEF Backoff, F!BackoffSchedule
  <2> HIDE DEF plain
  <2>6. delay' = IF 2 * plain < CapMs THEN 2 * plain ELSE CapMs
    BY <2>1, <2>2, <2>4, <2>5
  <2>7. tries' \in 0..MaxTries /\ delay' \in InitialMs..CapMs
    BY <2>1, <2>2
  <2>8. F!BackoffSchedule'
    BY <2>1, <2>4, <2>6 DEF F!BackoffSchedule
  <2>9. QED
    BY <2>7, <2>8 DEF Backoff
<1>3. CASE F!Connect
  BY <1>1, <1>3 DEF F!Connect
<1>4. ASSUME NEW f \in Frame,
             \/ F!Start(f) \/ F!WriteTmp(f) \/ F!Publish(f) \/ F!RemoveStale(f) \/ F!Bind(f)
             \/ F!Stop(f) \/ F!DropSocket(f) \/ F!RemoveDisplay(f) \/ F!Crash(f)
      PROVE  UNCHANGED <<tries, delay>>
  BY <1>4 DEF F!Start, F!WriteTmp, F!Publish, F!RemoveStale, F!Bind, F!Stop, F!DropSocket,
              F!RemoveDisplay, F!Crash, F!Goes, F!client
<1>5. CASE UNCHANGED F!vars
  BY <1>1, <1>5 DEF F!vars, F!client
<1>6. QED
  BY <1>1, <1>2, <1>3, <1>4, <1>5 DEF F!Next

-------------------------------------------------------------------------------
(* The programs together.  A step is one of the program that runs, and every *)
(* other program keeps its variables; the flags change for whoever runs.     *)

Flags == configured \in BOOLEAN /\ should_close \in BOOLEAN

GOwn == <<phase, account, last, username, password, focus, error, pending, awaiting, conn,
          greeting>>
SOwn == <<window, pool, term, loop, screenful, skipped, grid, gridSize, dirty, msgs, ptySize,
          changed, child>>
TOwn == <<status, statusShown, ended, tasks, file, good, config>>
LOwn == <<files, desktop, apps, query, selected, highlighted, stale, launched>>

(* The flags are only ever set: by a configure event, and at the end.       *)
LEMMA FlagsStep == Flags /\ [ProgramsNext]_programs => Flags'
<1> SUFFICES ASSUME Flags, [ProgramsNext]_programs PROVE Flags'
  OBVIOUS
<1> USE DEF Flags
<1>1. CASE UNCHANGED <<configured, should_close>>
  BY <1>1
<1>2. CASE UNCHANGED programs
  BY <1>1, <1>2 DEF programs
<1>3. ASSUME app = "greeter", G!GNext, Alone PROVE Flags'
  <2>1. should_close' = should_close \/ should_close' = TRUE
    BY <1>3 DEF G!GNext, G!SubmitName, G!SubmitPassword, G!SubmitStarts, G!SubmitCancels, G!Escape,
                G!SubmitRejected, G!Tab, G!EnterMovesOn, G!EditText, G!Close, G!Leave
  <2>2. UNCHANGED configured
    BY <1>3 DEF Alone
  <2>3. should_close' \in BOOLEAN
    BY <2>1
  <2>4. QED
    BY <2>2, <2>3
<1>4. ASSUME app = "slate", S!Next PROVE Flags'
  <2>1. /\ configured' = configured \/ configured' = TRUE
        /\ should_close' = should_close \/ should_close' = TRUE
    BY <1>4 DEF S!Next, S!Configure, S!ToplevelConfigure, S!Key, S!Close, S!OtherEvent, S!Drain,
                S!PtyOutput, S!PtyWakeup, S!PtyRecv, S!ChildExit
  <2>2. QED
    BY <2>1
<1>5. ASSUME app = "settings", T!Next PROVE Flags'
  <2>1. /\ configured' = configured \/ configured' = TRUE
        /\ should_close' = should_close \/ should_close' = TRUE
    BY <1>5 DEF T!Next, T!Configure, T!ChangeSection, T!Enter, T!Close, T!Leave, T!TaskStep,
                T!TaskSends, T!FrameReloads, T!TaskReports, T!TaskFails, T!Save, T!window
  <2>2. QED
    BY <2>1
<1>6. ASSUME app = "launcher", L!Next PROVE Flags'
  <2>1. /\ configured' = configured \/ configured' = TRUE
        /\ should_close' = should_close \/ should_close' = TRUE
    BY <1>6 DEF L!Next, L!Configure, L!Edit, L!Up, L!Down, L!Enter, L!Close
  <2>2. QED
    BY <2>1
<1>7. ASSUME Alone, app \in {"lockfile", "history", "frame files"}
      PROVE  Flags'
  BY <1>1, <1>7 DEF Alone
<1>8. QED
  BY <1>2, <1>3, <1>4, <1>5, <1>6, <1>7 DEF ProgramsNext

(* The step each program makes.                                             *)
LEMMA OneProgram ==
  ASSUME [ProgramsNext]_programs
  PROVE  /\ [Next]_vars
         /\ G!GNext \/ UNCHANGED GOwn
         /\ S!Next \/ UNCHANGED SOwn
         /\ T!Next \/ UNCHANGED TOwn
         /\ L!Next \/ (UNCHANGED LOwn /\ (app = "launcher" => UNCHANGED configured))
         /\ UNCHANGED app
         /\ [H!Next]_H!vars
         /\ [F!Next]_F!vars
<1>1. [Next]_vars
  BY DEF ProgramsNext, Alone, programs
<1>2. G!GNext \/ UNCHANGED GOwn
  BY DEF ProgramsNext, Alone, programs, G!vars, G!dialogue, G!fields, GOwn
<1>3. S!Next \/ UNCHANGED SOwn
  BY DEF ProgramsNext, Alone, programs, S!vars, S!screen, S!shared, S!pty, SOwn
<1>4. T!Next \/ UNCHANGED TOwn
  BY DEF ProgramsNext, Alone, programs, T!vars, T!window, T!disk, TOwn
<1>5. L!Next \/ (UNCHANGED LOwn /\ (app = "launcher" => UNCHANGED configured))
  BY DEF ProgramsNext, Alone, programs, L!vars, L!disk, LOwn
<1>6. UNCHANGED app
  BY DEF ProgramsNext, Alone, programs
<1>7. [H!Next]_H!vars
  BY DEF ProgramsNext, Alone, programs, H!vars, H!disk, H!ghosts
<1>8. [F!Next]_F!vars
  BY DEF ProgramsNext, Alone, programs, F!vars, F!files, F!client
<1>9. QED
  BY <1>1, <1>2, <1>3, <1>4, <1>5, <1>6, <1>7, <1>8

(* The invariant of all programs.                                            *)
PInv ==
  /\ app \in App
  /\ Flags
  /\ Inv
  /\ GInv
  /\ SInv /\ S!NoLostWakeup
  /\ TInv /\ TTypes
  /\ LInv /\ (app # "launcher" => apps = <<>> /\ highlighted = {})
  /\ HInv
  /\ FInv /\ peer \in F!MaybeFrame /\ Backoff

(* Every program starts in an initial state of its own.                     *)
LEMMA InitPInv == ProgramsInit => PInv
<1> SUFFICES ASSUME ProgramsInit PROVE PInv
  OBVIOUS
<1>1. /\ Init /\ G!GInit /\ S!Init /\ T!Init /\ L!Init
      /\ H!Init /\ F!Init
  BY DEF ProgramsInit
<1>2. Flags
  <2>1. configured = FALSE /\ should_close = FALSE
    BY <1>1 DEF S!Init
  <2>2. QED
    BY <2>1 DEF Flags
<1>3. peer \in F!MaybeFrame
  BY <1>1 DEF F!Init, F!MaybeFrame
<1>4. app \in App /\ LInv /\ (app # "launcher" => apps = <<>> /\ highlighted = {})
  BY <1>1, InitLInv DEF ProgramsInit
<1>5. S!NoLostWakeup
  <2>1. term = FALSE
    BY <1>1 DEF S!Init
  <2>2. QED
    BY <2>1 DEF S!NoLostWakeup
<1>6. QED
  BY <1>1, <1>2, <1>3, <1>4, <1>5, InvInit, InitGInv, InitSInv, InitTInv, InitHInv, InitFInv,
     InitBackoff
  DEF PInv

(* Every step keeps the invariant of the program that makes it, and those   *)
(* of the others, whose variables it leaves alone.                          *)
LEMMA NextPInv == PInv /\ [ProgramsNext]_programs => PInv'
<1> SUFFICES ASSUME PInv, [ProgramsNext]_programs PROVE PInv'
  OBVIOUS
<1>1. Flags'
  BY FlagsStep DEF PInv
<1>2. Inv'
  BY OneProgram, InvNext DEF PInv
<1>3. GInv'
  <2>1. CASE G!GNext
    BY <2>1, NextGInv DEF PInv
  <2>2. CASE UNCHANGED GOwn
    <3>1. should_close' \in BOOLEAN
      BY <1>1 DEF Flags
    <3>2. QED
      BY <2>2, <3>1
      DEF PInv, GOwn, GInv, G!GTypeOK, Matching, Starting, Cancelling, Unconnected
  <2>3. QED
    BY <2>1, <2>2, OneProgram
<1>4. SInv' /\ S!NoLostWakeup'
  <2>1. CASE S!Next
    BY <2>1, NextSInv, NextWakeup DEF PInv
  <2>2. CASE UNCHANGED SOwn
    BY <2>2 DEF PInv, SOwn, SInv, STypes, Notices, Session, S!SizesAgree, S!NoLostWakeup
  <2>3. QED
    BY <2>1, <2>2, OneProgram
<1>5. TInv' /\ TTypes'
  <2>1. CASE T!Next
    BY <2>1, NextTInv, NextTTypes DEF PInv
  <2>2. CASE UNCHANGED TOwn
    BY <2>2 DEF PInv, TOwn, TInv, TTypes, Versions, T!ReloadTakes
  <2>3. QED
    BY <2>1, <2>2, OneProgram
<1>6. HInv'
  BY OneProgram, NextHInv DEF PInv
<1>7. FInv' /\ (peer \in F!MaybeFrame)' /\ Backoff'
  <2>1. F!MaybeFrame' = F!MaybeFrame
    BY DEF F!MaybeFrame
  <2>2. QED
    BY <2>1, OneProgram, NextFInv, NextPeer, NextBackoff DEF PInv
<1>8. app' \in App /\ LInv' /\ (app' # "launcher" => apps' = <<>> /\ highlighted' = {})
  <2>1. app' = app /\ App' = App
    BY OneProgram DEF App
  <2>2. CASE app = "launcher"
    <3>1. LInv'
      BY <2>2, OneProgram, NextLInv, IdleLInv DEF PInv, LOwn
    <3>2. QED
      BY <2>1, <2>2, <3>1 DEF PInv
  <2>3. CASE app # "launcher"
    <3>1. UNCHANGED LOwn
      BY <2>3 DEF ProgramsNext, Alone, programs, L!vars, L!disk, LOwn
    <3>2. LInv'
      BY <2>3, <3>1, IdleLInv DEF PInv, LOwn
    <3>3. QED
      BY <2>1, <2>3, <3>1, <3>2 DEF PInv, LOwn
  <2>4. QED
    BY <2>2, <2>3
<1>9. QED
  BY <1>1, <1>2, <1>3, <1>4, <1>5, <1>6, <1>7, <1>8 DEF PInv

(* The invariant of all programs always holds.                              *)
LEMMA PInvariance == ProgramsSpec => []PInv
  BY InitPInv, NextPInv, PTL DEF ProgramsSpec

-------------------------------------------------------------------------------
(* In every behaviour of the programs.                                       *)

(* The greeter's flag tells what greetd waits for (nx-greet/state.rs).       *)
THEOREM InStepHolds == ProgramsSpec => []InStep
<1>1. PInv => InStep
  BY DEF PInv, GInv, Matching, InStep, G!InStep
<1>2. QED
  BY <1>1, PInvariance, PTL

(* Every variable of every program keeps its type.                          *)
THEOREM TypesHold == ProgramsSpec => []ProgramsTypeOK
<1> SUFFICES PInv => ProgramsTypeOK
  BY PInvariance, PTL
<1> SUFFICES ASSUME PInv PROVE ProgramsTypeOK
  OBVIOUS
<1>1. app \in App /\ TypeOK /\ G!GTypeOK /\ H!TypeOK
  BY DEF PInv, Inv, GInv, HInv
<1>2. S!TypeOK
  <2>1. dirty \in Nat /\ dirty <= grid + 1 /\ grid \in 0..MaxOutput
    BY DEF PInv, SInv, STypes, Notices
  <2>2. dirty \in 0..(MaxOutput + 1)
    BY <2>1, SlateAssumption
  <2>3. QED
    BY <2>2 DEF PInv, SInv, STypes, Flags, S!TypeOK
<1>3. T!TypeOK
  BY DEF PInv, TInv, Versions, TTypes, Statuses, Flags, T!TypeOK, T!Fallback
<1>4. L!TypeOK
  BY DEF PInv, LInv, LTypes, Flags, L!TypeOK
<1>5. F!TypeOK
  BY DEF PInv, FInv, FTypes, Backoff, F!TypeOK
<1>6. QED
  BY <1>1, <1>2, <1>3, <1>4, <1>5 DEF ProgramsTypeOK

(* Enter launches the entry the last frame highlighted, whatever keys came  *)
(* before, and something if anything matches (launcher/state.rs, search.rs).*)
THEOREM EnterLaunchesShownHolds == ProgramsSpec => EnterLaunchesShown
<1>1. ASSUME PInv, L!Enter
      PROVE  /\ configured /\ ~stale => launched' = highlighted
             /\ L!Results(query) # <<>> => launched' # {}
  BY <1>1, EnterLaunches DEF PInv, Flags
<1>2. PInv /\ [ProgramsNext]_programs
        => [L!Enter => /\ configured /\ ~stale => launched' = highlighted
                       /\ L!Results(query) # <<>> => launched' # {}]_L!vars
  BY <1>1
<1>3. QED
  BY <1>2, PInvariance, PTL DEF ProgramsSpec, EnterLaunchesShown, L!EnterLaunchesShown

(* The list holds each name once, sorted but for case, and of every name    *)
(* the entry scan's order of preference picks (apps.rs).                    *)
THEOREM OverridesWinHolds == ProgramsSpec => []OverridesWin
<1>1. PInv => OverridesWin
  BY ScanOverrides DEF PInv, LInv, LTypes, OverridesWin
<1>2. QED
  BY <1>1, PInvariance, PTL

(* SLATE's window, grid and shell agree on the size, whenever the resizes   *)
(* come and the PTY thread reads them.                                      *)
THEOREM SizesAgreeHolds == ProgramsSpec => []SizesAgree
<1>1. PInv => SizesAgree
  BY DEF PInv, SInv, SizesAgree
<1>2. QED
  BY <1>1, PInvariance, PTL

(* While SLATE's screen is behind its grid a notice is on its way, unless    *)
(* the last redraw gave up.                                                 *)
THEOREM NoLostWakeupHolds == ProgramsSpec => []NoLostWakeup
<1>1. PInv => NoLostWakeup
  BY DEF PInv, NoLostWakeup
<1>2. QED
  BY <1>1, PInvariance, PTL

(* The configuration is as new as the file was at every answered Enter, or  *)
(* the fallback for a version saved since that cannot be loaded.            *)
THEOREM ReloadTakesHolds == ProgramsSpec => []ReloadTakes
<1>1. PInv => ReloadTakes
  BY DEF PInv, TInv, ReloadTakes
<1>2. QED
  BY <1>1, PInvariance, PTL

(* The newest notifications are on disk, whenever the daemon is killed and  *)
(* however long their lines are, and both files are in order.               *)
THEOREM RecentOnDiskHolds == ProgramsSpec => []RecentOnDisk
<1>1. PInv => RecentOnDisk
  BY HInvRecent DEF PInv, RecentOnDisk
<1>2. QED
  BY <1>1, PInvariance, PTL

(* The client's pauses are the documented schedule.                         *)
THEOREM BackoffScheduleHolds == ProgramsSpec => []BackoffSchedule
<1>1. PInv => BackoffSchedule
  BY DEF PInv, Backoff, BackoffSchedule
<1>2. QED
  BY <1>1, PInvariance, PTL

(* A FRAME process that met no other one is found while it runs, whatever   *)
(* earlier ones left behind.                                                *)
THEOREM RunningIsFoundHolds == ProgramsSpec => []RunningIsFound
<1>1. PInv => RunningIsFound
  BY DEF PInv, FInv, Replaced, RunningIsFound, F!RunningIsFound
<1>2. QED
  BY <1>1, PInvariance, PTL

(* A flock never outlives its launcher, and no two launchers run on a file. *)
THEOREM LocksHold == ProgramsSpec => [](NoLeakedLock /\ OnePerFile)
<1>1. PInv => NoLeakedLock /\ OnePerFile
  BY InvImpliesOnePerFile DEF PInv, Inv
<1>2. QED
  BY <1>1, PInvariance, PTL

(* The greeter's requests are a dialogue greetd understands.                *)
THEOREM DialogueHolds == ProgramsSpec => KeepsToTheDialogue
<1>1. PInv /\ [ProgramsNext]_programs => [G!Next]_G!dialogue
  <2> SUFFICES ASSUME PInv, [ProgramsNext]_programs PROVE [G!Next]_G!dialogue
    OBVIOUS
  <2>1. CASE G!GNext
    BY <2>1, StepUnderstood DEF PInv
  <2>2. CASE UNCHANGED GOwn
    BY <2>2 DEF GOwn, G!dialogue
  <2>3. QED
    BY <2>1, <2>2, OneProgram
<1>2. ProgramsInit => G!Init
  BY DEF ProgramsInit, G!GInit
<1>3. QED
  BY <1>1, <1>2, PInvariance, PTL DEF ProgramsSpec, KeepsToTheDialogue, G!KeepsToTheDialogue, G!Spec

===============================================================================
