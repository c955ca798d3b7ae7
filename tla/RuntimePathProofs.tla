-------------------------- MODULE RuntimePathProofs --------------------------
(***************************************************************************)
(* The path of a socket, from its selection to its file.  SocketFile, for  *)
(* any number of runs and another program that changes the path at any     *)
(* time: of runs that do not overlap, one that serves is reachable by the  *)
(* path and a stale socket never keeps the next from binding; no run       *)
(* removes a foreign file that it could have seen.  Startup, for all       *)
(* paths: the path that is selected stays where it was taken from, and the *)
(* environment decides.                                                    *)
(***************************************************************************)
EXTENDS SocketFile, Startup, SequenceTheorems, WellFoundedInduction, TLAPS

Owning == {"bound", "serving", "dropping", "unlinking"}

\* A run that is about to remove what it saw at the path has been overtaken if that
\* is a foreign file by now.
GapInv == \A i \in Runs : run[i] \in {"removing", "unlinking"} /\ path = Foreign => i \in overtaken

\* Of runs that do not overlap one at most is active, and each of its states says
\* what the path can name, changed by another program or not.
ExclusiveInv ==
    exclusive =>
        /\ \A i, j \in Runs : run[i] \in Active /\ run[j] \in Active => i = j
        /\ \A i \in Runs :
              /\ run[i] = "removing" => path \in Runs \/ i \in overtaken
              /\ run[i] = "clear" => path = Absent \/ (path = Foreign /\ i \in overtaken)
              /\ run[i] \in Owning => path = i \/ (path \notin Runs /\ i \in overtaken)
              /\ run[i] \in {"new", "ended"} => path # i

Inv == TypeOK /\ GapInv /\ ExclusiveInv

\* A run moves on, the others stay where they are.
LEMMA StepMoves ==
    ASSUME TypeOK, NEW i \in Runs, NEW from, NEW to, Step(i, from, to)
    PROVE  /\ run[i] = from /\ run'[i] = to /\ exclusive' = exclusive
           /\ \A j \in Runs : j # i => run'[j] = run[j]
  BY DEF TypeOK, Step, Goto

\* A killed run is over, the others stay where they are.
LEMMA CrashMoves ==
    ASSUME TypeOK, NEW i \in Runs, Crash(i)
    PROVE  /\ run[i] \in Active /\ run'[i] = "crashed" /\ exclusive' = exclusive
           /\ \A j \in Runs : j # i => run'[j] = run[j]
           /\ path' = path /\ overtaken' = overtaken
  BY DEF TypeOK, Crash, Goto

\* The path and what the runs know of it stay.
Keeps == path' = path /\ overtaken' = overtaken

\* Which step takes a run from where to where, what becomes of the path, and whether
\* the run knows of it.
Moves(i) ==
    \/ /\ run[i] = "new" /\ run'[i] = "preparing" /\ Keeps
       /\ exclusive => \A j \in Runs : run[j] \notin Active
    \/ run[i] = "preparing" /\ run'[i] = "clear" /\ path = Absent /\ path' = path /\ Knows(i)
    \/ run[i] = "preparing" /\ run'[i] = "refused" /\ path = Foreign /\ path' = path /\ Knows(i)
    \/ run[i] = "preparing" /\ run'[i] = "removing" /\ path \in Runs /\ path' = path /\ Knows(i)
    \/ run[i] = "removing" /\ run'[i] = "raced" /\ path \notin Runs /\ Keeps
    \/ run[i] = "removing" /\ run'[i] = "clear" /\ path # Absent /\ path' = Absent /\ overtaken' = overtaken
    \/ run[i] = "clear" /\ run'[i] = "bound" /\ path = Absent /\ path' = i /\ Knows(i)
    \/ run[i] = "clear" /\ run'[i] = "inUse" /\ path # Absent /\ Keeps
    \/ run[i] = "bound" /\ run'[i] \in {"serving", "chmodFailed"} /\ Keeps
    \/ run[i] = "serving" /\ run'[i] = "dropping" /\ Keeps
    \/ run[i] = "dropping" /\ run'[i] = "unlinking" /\ path \in Runs /\ path' = path /\ Knows(i)
    \/ run[i] = "dropping" /\ run'[i] = "ended" /\ path \notin Runs /\ path' = path /\ Knows(i)
    \/ run[i] = "unlinking" /\ run'[i] = "ended" /\ path' = Absent /\ overtaken' = overtaken
    \/ run[i] = "unlinking" /\ run'[i] = "ended" /\ path = Foreign /\ Keeps
    \/ run[i] \in Active /\ run'[i] = "crashed" /\ Keeps

\* Another program changes the path, which overtakes every active run.
Intrudes ==
    /\ run' = run /\ path' \in {Absent, Foreign}
    /\ overtaken' = overtaken \cup {i \in Runs : run[i] \in Active}

\* Every step is one of these moves of one run, another program's change of the path,
\* or leaves run and path alone.
LEMMA EveryStep ==
    ASSUME TypeOK, [Next]_vars
    PROVE  /\ exclusive' = exclusive
           /\ \/ \E i \in Runs : Moves(i) /\ \A j \in Runs : j # i => run'[j] = run[j]
              \/ Intrudes
              \/ run' = run /\ Keeps
  <1>1. CASE UNCHANGED vars
    BY <1>1 DEF vars, Keeps
  <1>2. CASE ForeignFile
    BY <1>2 DEF ForeignFile, Intrudes
  <1>3. ASSUME NEW i \in Runs,
               \/ Begin(i) \/ LookAtPath(i) \/ RemoveStale(i) \/ BindPath(i) \/ ApplyMode(i)
               \/ ApplyModeFails(i) \/ BeginDrop(i) \/ LookBeforeUnlink(i) \/ Unlink(i) \/ Crash(i)
        PROVE  /\ exclusive' = exclusive
               /\ Moves(i) /\ \A j \in Runs : j # i => run'[j] = run[j]
    <2>1. CASE Begin(i)
      BY <2>1, StepMoves DEF Begin, Moves, Keeps
    <2>2. CASE LookAtPath(i)
      <3>1. path \in Runs \cup {Absent, Foreign} /\ path' = path /\ Knows(i)
        BY <2>2 DEF TypeOK, LookAtPath
      <3>2. CASE path = Absent
        BY <2>2, <3>1, <3>2, StepMoves DEF LookAtPath, Moves
      <3>3. CASE path = Foreign
        BY <2>2, <3>1, <3>3, StepMoves, SocketFileAssumption DEF LookAtPath, Moves
      <3>4. CASE path \in Runs
        BY <2>2, <3>1, <3>4, StepMoves, SocketFileAssumption DEF LookAtPath, Moves
      <3> QED
        BY <3>1, <3>2, <3>3, <3>4
    <2>3. CASE RemoveStale(i)
      BY <2>3, StepMoves DEF RemoveStale, Moves, Keeps
    <2>4. CASE BindPath(i)
      BY <2>4, StepMoves DEF BindPath, Moves, Keeps
    <2>5. CASE ApplyMode(i) \/ ApplyModeFails(i)
      BY <2>5, StepMoves DEF ApplyMode, ApplyModeFails, Moves, Keeps
    <2>6. CASE BeginDrop(i)
      BY <2>6, StepMoves DEF BeginDrop, Moves, Keeps
    <2>7. CASE LookBeforeUnlink(i)
      BY <2>7, StepMoves DEF LookBeforeUnlink, Moves
    <2>8. CASE Unlink(i)
      BY <2>8, StepMoves DEF Unlink, Moves, Keeps
    <2>9. CASE Crash(i)
      BY <2>9, CrashMoves DEF Moves, Keeps
    <2> QED
      BY <1>3, <2>1, <2>2, <2>3, <2>4, <2>5, <2>6, <2>7, <2>8, <2>9
  <1> QED
    BY <1>1, <1>2, <1>3 DEF Next

\* The type invariant is kept: a run's socket is open exactly while it owns it.
LEMMA StepKeepsType == TypeOK /\ [Next]_vars => TypeOK'
  <1> SUFFICES ASSUME TypeOK, [Next]_vars PROVE TypeOK'
    OBVIOUS
  <1>1. CASE UNCHANGED vars
    BY <1>1 DEF vars, TypeOK
  <1>2. CASE ForeignFile
    BY <1>2 DEF ForeignFile, TypeOK
  <1>3. ASSUME NEW i \in Runs, Begin(i) \/ LookAtPath(i) \/ RemoveStale(i)
        PROVE  TypeOK'
    BY <1>3 DEF Begin, LookAtPath, RemoveStale, Knows, Step, Goto, TypeOK, Active, Over
  <1>4. ASSUME NEW i \in Runs, BindPath(i) PROVE TypeOK'
    BY <1>4 DEF BindPath, Knows, Step, Goto, TypeOK, Active, Over
  <1>5. ASSUME NEW i \in Runs, ApplyMode(i) \/ ApplyModeFails(i) \/ BeginDrop(i) PROVE TypeOK'
    BY <1>5 DEF ApplyMode, ApplyModeFails, BeginDrop, Step, Goto, TypeOK, Active, Over
  <1>6. ASSUME NEW i \in Runs, LookBeforeUnlink(i) \/ Unlink(i) PROVE TypeOK'
    BY <1>6 DEF LookBeforeUnlink, Unlink, Knows, Step, Goto, TypeOK, Active, Over
  <1>7. ASSUME NEW i \in Runs, Crash(i) PROVE TypeOK'
    BY <1>7 DEF Crash, Goto, TypeOK, Active, Over
  <1> QED
    BY <1>1, <1>2, <1>3, <1>4, <1>5, <1>6, <1>7 DEF Next

\* Only another program puts a foreign file at the path, and it overtakes every run.
LEMMA StepKeepsGap == TypeOK /\ GapInv /\ [Next]_vars => GapInv'
  <1> SUFFICES ASSUME TypeOK, GapInv, [Next]_vars, path' = Foreign,
                      NEW i \in Runs, run'[i] \in {"removing", "unlinking"}
               PROVE  i \in overtaken'
    BY DEF GapInv
  <1>1. CASE run' = run /\ Keeps
    BY <1>1 DEF GapInv, Keeps
  <1>2. CASE Intrudes
    BY <1>2 DEF Intrudes, Active
  <1>3. ASSUME NEW k \in Runs, Moves(k), \A j \in Runs : j # k => run'[j] = run[j]
        PROVE  i \in overtaken'
    <2>1. i # k
      BY <1>3, SocketFileAssumption DEF Moves
    <2>2. path = Foreign /\ run[i] \in {"removing", "unlinking"}
      BY <1>3, <2>1, SocketFileAssumption DEF Moves, Keeps
    <2>3. overtaken' = overtaken \/ Knows(k)
      BY <1>3 DEF Moves, Keeps
    <2> QED
      BY <2>1, <2>2, <2>3 DEF GapInv, Knows
  <1> QED
    BY <1>1, <1>2, <1>3, EveryStep

\* Runs that take turns keep the path in step with the active one.
LEMMA StepKeepsExclusive == Inv /\ [Next]_vars => ExclusiveInv'
  <1> SUFFICES ASSUME Inv, [Next]_vars, exclusive
               PROVE  /\ \A i, j \in Runs : run'[i] \in Active /\ run'[j] \in Active => i = j
                      /\ \A i \in Runs :
                            /\ run'[i] = "removing" => path' \in Runs \/ i \in overtaken'
                            /\ run'[i] = "clear" => path' = Absent \/ (path' = Foreign /\ i \in overtaken')
                            /\ run'[i] \in Owning => path' = i \/ (path' \notin Runs /\ i \in overtaken')
                            /\ run'[i] \in {"new", "ended"} => path' # i
    BY EveryStep DEF Inv, ExclusiveInv
  <1>1. CASE run' = run /\ Keeps
    BY <1>1 DEF Inv, ExclusiveInv, Keeps
  <1>2. CASE Intrudes
    <2>1. \A i \in Runs : run[i] \in Active => i \in overtaken'
      BY <1>2 DEF Intrudes
    <2> QED
      BY <1>2, <2>1, SocketFileAssumption DEF Inv, ExclusiveInv, Intrudes, Active, Owning
  <1>3. ASSUME NEW k \in Runs, Moves(k), \A j \in Runs : j # k => run'[j] = run[j]
        PROVE  /\ \A i, j \in Runs : run'[i] \in Active /\ run'[j] \in Active => i = j
               /\ \A i \in Runs :
                     /\ run'[i] = "removing" => path' \in Runs \/ i \in overtaken'
                     /\ run'[i] = "clear" => path' = Absent \/ (path' = Foreign /\ i \in overtaken')
                     /\ run'[i] \in Owning => path' = i \/ (path' \notin Runs /\ i \in overtaken')
                     /\ run'[i] \in {"new", "ended"} => path' # i
    <2>1. \A j \in Runs : j # k => run'[j] \notin Active
      <3>1. CASE run[k] \in Active
        BY <1>3, <3>1 DEF Inv, ExclusiveInv
      <3>2. CASE run[k] \notin Active
        BY <1>3, <3>2 DEF Moves, Active
      <3> QED
        BY <3>1, <3>2
    <2>2. \A i, j \in Runs : run'[i] \in Active /\ run'[j] \in Active => i = j
      BY <2>1
    <2>3. /\ run'[k] = "removing" => path' \in Runs \/ k \in overtaken'
          /\ run'[k] = "clear" => path' = Absent \/ (path' = Foreign /\ k \in overtaken')
          /\ run'[k] \in Owning => path' = k \/ (path' \notin Runs /\ k \in overtaken')
          /\ run'[k] \in {"new", "ended"} => path' # k
      BY <1>3, SocketFileAssumption DEF Inv, ExclusiveInv, Moves, Keeps, Knows, Owning, Active
    <2>4. path' = path \/ path' = Absent \/ path' = k
      BY <1>3 DEF Moves, Keeps
    <2>5. ASSUME NEW i \in Runs, i # k
          PROVE  /\ run'[i] \notin {"removing", "clear"} \cup Owning
                 /\ run'[i] \in {"new", "ended"} => path' # i
      BY <1>3, <2>1, <2>4, <2>5, SocketFileAssumption DEF Inv, ExclusiveInv, Owning, Active
    <2> QED
      BY <2>2, <2>3, <2>5
  <1> QED
    BY <1>1, <1>2, <1>3, EveryStep DEF Inv

\* The invariant holds whatever the runs and the other program do.
THEOREM InvHolds == Spec => []Inv
  <1>1. Init => Inv
    BY SocketFileAssumption DEF Init, Inv, TypeOK, GapInv, ExclusiveInv, Active, Over, Owning
  <1> QED
    BY <1>1, StepKeepsType, StepKeepsGap, StepKeepsExclusive, PTL DEF Spec, Inv

\* A run that serves is the one clients reach by the path unless another program has
\* changed it, and nothing of a run is left when it has ended in order, after any
\* number of crashed runs (RuntimeSocketFile::prepare, remove_socket_if_current).
THEOREM ServingIsReachable == Spec => []ServingReachable
  <1>1. Inv => ServingReachable
    BY DEF Inv, TypeOK, ExclusiveInv, ServingReachable, Owning
  <1> QED
    BY <1>1, InvHolds, PTL

\* A stale socket never keeps a run from binding: only a file that another program
\* put at the path since prepare looked does (RuntimeSocketFile::remove_stale_socket).
THEOREM StaleSocketsNeverBlock == Spec => StaleSocketNeverBlocks
  <1>1. Inv /\ [Next]_vars =>
           [exclusive => \A i \in Runs : run[i] # run'[i] =>
                /\ run'[i] = "inUse" => path = Foreign /\ i \in overtaken
                /\ run'[i] = "raced" => i \in overtaken]_vars
    <2> SUFFICES ASSUME Inv, [Next]_vars, exclusive, NEW i \in Runs, run[i] # run'[i]
                 PROVE  /\ run'[i] = "inUse" => path = Foreign /\ i \in overtaken
                        /\ run'[i] = "raced" => i \in overtaken
      OBVIOUS
    <2>1. Moves(i)
      BY EveryStep DEF Inv, Intrudes
    <2> QED
      BY <2>1, SocketFileAssumption DEF Inv, ExclusiveInv, Moves, Active
  <1> QED
    BY <1>1, InvHolds, PTL DEF Spec, StaleSocketNeverBlocks

\* No run, of those that overlap either, removes a file that is not a socket, but one
\* that was put there between its look and its removal
\* (ExistingRuntimePathKind::is_socket).
THEOREM ForeignFilesAreKept == Spec => ForeignFileKept
  <1>1. Inv /\ [Next]_vars =>
           [path = Foreign /\ path' # Foreign => \A i \in Runs : run[i] # run'[i] => i \in overtaken]_vars
    <2> SUFFICES ASSUME Inv, [Next]_vars, path = Foreign, path' # Foreign,
                        NEW i \in Runs, run[i] # run'[i]
                 PROVE  i \in overtaken
      OBVIOUS
    <2>1. Moves(i)
      BY EveryStep DEF Inv, Intrudes
    <2>2. run[i] \in {"removing", "unlinking"}
      BY <2>1, SocketFileAssumption DEF Moves, Keeps
    <2> QED
      BY <2>2 DEF Inv, GapInv
  <1> QED
    BY <1>1, InvHolds, PTL DEF Spec, ForeignFileKept

------------------------------------------------------------------------------
(* Startup: the selection of the path.                                     *)

\* A non-empty set of numbers has a least one.
LEMMA LeastNumber ==
    ASSUME NEW T, T \subseteq Nat, T # {}
    PROVE  \E n \in T : \A m \in T : n <= m
  <1>1. PICK n \in T : \A m \in T : ~ (<<m, n>> \in OpToRel(<, Nat))
    BY WFMin, NatLessThanWellFounded
  <1>2. \A x, y \in Nat : x < y => <<x, y>> \in OpToRel(<, Nat)
    BY DEF OpToRel
  <1>3. ASSUME NEW m \in T, ~(n <= m) PROVE FALSE
    <2>1. m \in Nat /\ n \in Nat
      OBVIOUS
    <2>2. m < n
      BY <1>3, <2>1
    <2> QED
      BY <2>1, <2>2, <1>1, <1>2
  <1> QED
    BY <1>3

\* Nothing is taken away from a path without "..".
LEMMA ResolvedPlain ==
    ASSUME NEW parts \in Seq(Parts), \A i \in 1..Len(parts) : parts[i] # Up
    PROVE  Resolved(parts) = parts
  <1> DEFINE Resolves(f) ==
                 f = [i \in 0..Len(parts) |->
                        IF i = 0 THEN <<>>
                        ELSE IF parts[i] = Up
                        THEN SubSeq(f[i - 1], 1, IF f[i - 1] = <<>> THEN 0 ELSE Len(f[i - 1]) - 1)
                        ELSE Append(f[i - 1], parts[i])]
             chosen == CHOOSE f : Resolves(f)
             taken == [i \in 0..Len(parts) |-> SubSeq(parts, 1, i)]
  <1>1. Len(parts) \in Nat
    BY LenProperties
  <1>2. ASSUME NEW i \in 1..Len(parts) PROVE SubSeq(parts, 1, i) = Append(SubSeq(parts, 1, i - 1), parts[i])
    <2>1. i \in Int /\ 1 \in 1..Len(parts) /\ i \in 1..Len(parts)
      BY <1>1
    <2>2. SubSeq(parts, 1, i) = SubSeq(parts, 1, i - 1) \o <<parts[i]>>
      BY <2>1, SubSeqRecursiveSecond
    <2>3. \A j \in 1..(i - 1) : parts[j] \in Parts
      BY <1>1, ElementOfSeq
    <2>4. SubSeq(parts, 1, i - 1) \in Seq(Parts)
      BY <2>1, <2>3, SubSeqProperties
    <2>5. parts[i] \in Parts
      BY ElementOfSeq
    <2>6. Append(SubSeq(parts, 1, i - 1), parts[i]) = SubSeq(parts, 1, i - 1) \o <<parts[i]>>
      BY <2>4, <2>5, AppendIsConcat
    <2> QED
      BY <2>2, <2>6
  <1>3. SubSeq(parts, 1, 0) = <<>>
    BY SubSeqEmpty
  <1>4. Resolves(taken)
    <2>1. ASSUME NEW i \in 0..Len(parts)
          PROVE  taken[i] = IF i = 0 THEN <<>>
                            ELSE IF parts[i] = Up
                            THEN SubSeq(taken[i - 1], 1, IF taken[i - 1] = <<>> THEN 0 ELSE Len(taken[i - 1]) - 1)
                            ELSE Append(taken[i - 1], parts[i])
      <3>1. CASE i = 0
        BY <1>3, <3>1
      <3>2. CASE i # 0
        <4>1. i \in 1..Len(parts) /\ i - 1 \in 0..Len(parts) /\ parts[i] # Up
          BY <1>1, <3>2
        <4>2. taken[i - 1] = SubSeq(parts, 1, i - 1) /\ taken[i] = SubSeq(parts, 1, i)
          BY <4>1
        <4> HIDE DEF taken
        <4> QED
          BY <1>2, <3>2, <4>1, <4>2
      <3> QED
        BY <3>1, <3>2
    <2> QED
      BY <2>1
  <1>5. Resolved(parts) = chosen[Len(parts)]
    BY DEF Resolved
  <1>6. Resolves(chosen)
    <2> HIDE DEF Resolves, taken
    <2> QED
      BY <1>4
  <1> HIDE DEF chosen
  <1>7. chosen[0] = <<>>
    <2>1. 0 \in 0..Len(parts)
      BY <1>1
    <2> QED
      BY <1>6, <2>1
  <1>8. ASSUME NEW i \in 1..Len(parts) PROVE chosen[i] = Append(chosen[i - 1], parts[i])
    <2>1. i \in 0..Len(parts) /\ i # 0
      BY <1>1
    <2> QED
      BY <1>6, <2>1
  <1> HIDE DEF Resolves
  <1> DEFINE Wrong == {i \in 0..Len(parts) : chosen[i] # SubSeq(parts, 1, i)}
  <1>9. Wrong = {}
    <2> SUFFICES ASSUME Wrong # {} PROVE FALSE
      OBVIOUS
    <2>1. Wrong \subseteq Nat
      OBVIOUS
    <2> HIDE DEF Wrong
    <2>2. PICK i \in Wrong : \A j \in Wrong : i <= j
      BY <2>1, LeastNumber
    <2>3. i \in 0..Len(parts) /\ chosen[i] # SubSeq(parts, 1, i)
      BY DEF Wrong
    <2>4. i # 0
      BY <1>3, <1>7, <2>3
    <2>5. i \in 1..Len(parts) /\ i - 1 \in 0..Len(parts) /\ ~(i <= i - 1)
      BY <1>1, <2>3, <2>4
    <2>6. chosen[i - 1] = SubSeq(parts, 1, i - 1)
      BY <2>2, <2>5 DEF Wrong
    <2> QED
      BY <1>2, <1>8, <2>3, <2>5, <2>6
  <1>10. chosen[Len(parts)] = SubSeq(parts, 1, Len(parts))
    <2>1. Len(parts) \in 0..Len(parts)
      BY <1>1
    <2> QED
      BY <1>9, <2>1
  <1> QED
    BY <1>5, <1>10, SubSeqFull

\* What is joined to a path begins with that path.
LEMMA BeginsWith ==
    ASSUME NEW start \in Seq(Parts), NEW more \in Seq(Parts)
    PROVE  Begins(start \o more, start)
  <1>1. Len(start) \in Nat /\ Len(more) \in Nat /\ Len(start \o more) = Len(start) + Len(more)
    BY LenProperties, ConcatProperties
  <1>2. SubSeq(start \o more, 1, Len(start)) = start
    <2>1. CASE Len(start) = 0
      <3>1. start = <<>>
        BY <2>1, EmptySeq
      <3>2. SubSeq(start \o more, 1, 0) = <<>>
        BY SubSeqEmpty
      <3> QED
        BY <2>1, <3>1, <3>2
    <2>2. CASE Len(start) # 0
      <3>1. 1 \in 1..Len(start) /\ Len(start) \in 1..Len(start)
        BY <1>1, <2>2
      <3>2. SubSeq(start \o more, 1, Len(start)) = SubSeq(start, 1, Len(start))
        BY <3>1, SubSeqOfConcat1
      <3> QED
        BY <3>2, SubSeqFull
    <2> QED
      BY <2>1, <2>2
  <1> QED
    BY <1>1, <1>2 DEF Begins

\* What to_string_lossy and Path::join make of paths are paths.
LEMMA LossyType ==
    ASSUME NEW p \in Path
    PROVE  Lossy(p) \in Path
  <1>1. p.parts \in Seq(Parts) /\ p.absolute \in BOOLEAN
    BY DEF Path
  <1>2. Len(p.parts) \in Nat /\ p.parts \in [1..Len(p.parts) -> Parts] /\ DOMAIN p.parts = 1..Len(p.parts)
    BY <1>1, LenProperties
  <1> DEFINE shown == [i \in DOMAIN p.parts |-> IF p.parts[i] = Bad THEN Replacement ELSE p.parts[i]]
  <1>3. shown \in [1..Len(p.parts) -> Parts]
    BY <1>2, StartupAssumption
  <1>4. shown \in Seq(Parts)
    BY <1>2, <1>3
  <1>5. Lossy(p) = [p EXCEPT !.parts = shown]
    BY DEF Lossy
  <1> HIDE DEF shown
  <1> QED
    BY <1>1, <1>4, <1>5 DEF Path

LEMMA JoinType ==
    ASSUME NEW p \in Path, NEW q \in Path
    PROVE  /\ Join(p, q) \in Path
           /\ ~q.absolute => Join(p, q).parts = p.parts \o q.parts
  <1>1. p.parts \in Seq(Parts) /\ q.parts \in Seq(Parts) /\ p.parts \o q.parts \in Seq(Parts)
    BY ConcatProperties DEF Path
  <1>2. CASE q.absolute
    BY <1>2 DEF Join
  <1>3. CASE ~q.absolute
    <2>1. Join(p, q) = [p EXCEPT !.parts = p.parts \o q.parts]
      BY <1>3 DEF Join
    <2> QED
      BY <1>1, <1>3, <2>1 DEF Path
  <1> QED
    BY <1>2, <1>3

------------------------------------------------------------------------------
\* The base is what was asked for, and the path in use was checked.
SelectionInv ==
    /\ invocation \in Invocations
    /\ selection \in [path : Path, source : {"none", "default", "directory", "override"}]
    /\ at \in {"based", "selected", "prepared"} =>
         /\ Valid(selection.path)
         /\ selection.source = "directory" =>
              /\ invocation.directory \in Paths
              /\ selection.path = Join(Lossy(invocation.directory), invocation.inside)
    /\ at = "based" => selection.source = invocation.base
    /\ OverrideDecides

\* A component's part that is relative leaves the path in the directory.
LEMMA InsideDirectory == SelectionInv => StaysInside
  <1> SUFFICES ASSUME SelectionInv, Chosen, selection.source = "directory", ~invocation.inside.absolute
               PROVE  Begins(Resolved(selection.path.parts), Lossy(invocation.directory).parts)
    BY DEF StaysInside
  <1>1. /\ Valid(selection.path) /\ invocation.directory \in Paths
        /\ selection.path = Join(Lossy(invocation.directory), invocation.inside)
    BY DEF SelectionInv, Chosen
  <1>2. invocation.inside \in Path /\ invocation.directory \in Path
    BY <1>1, StartupAssumption DEF SelectionInv, Invocations
  <1> DEFINE start == Lossy(invocation.directory)
             parts == selection.path.parts
  <1>3. start \in Path /\ start.parts \in Seq(Parts) /\ invocation.inside.parts \in Seq(Parts)
    BY <1>2, LossyType DEF Path
  <1> HIDE DEF start
  <1>4. parts = start.parts \o invocation.inside.parts
    BY <1>1, <1>2, <1>3, JoinType DEF start
  <1>5. parts \in Seq(Parts)
    BY <1>3, <1>4, ConcatProperties
  <1>6. \A i \in 1..Len(parts) : parts[i] # Up
    <2>1. DOMAIN parts = 1..Len(parts)
      BY <1>5, LenProperties
    <2> QED
      BY <1>1, <2>1 DEF Valid
  <1> HIDE DEF parts
  <1>7. Resolved(parts) = start.parts \o invocation.inside.parts
    BY <1>4, <1>5, <1>6, ResolvedPlain
  <1> QED
    BY <1>3, <1>7, BeginsWith DEF parts, start

LEMMA SelectionInvInit == StartupInit => SelectionInv
  <1> SUFFICES ASSUME StartupInit PROVE SelectionInv
    OBVIOUS
  <1>1. selection \in [path : Path, source : {"none", "default", "directory", "override"}]
    <2>1. <<>> \in Seq(Parts)
      BY EmptySeq
    <2>2. NoPath \in Path
      BY <2>1 DEF NoPath, Path
    <2> QED
      BY <2>2 DEF StartupInit, NoSelection
  <1>2. at = "starting" /\ invocation \in Invocations
    BY DEF StartupInit
  <1> QED
    BY <1>1, <1>2 DEF SelectionInv, OverrideDecides, Chosen

LEMMA SelectionInvStep == SelectionInv /\ [StartupNext]_startupVars => SelectionInv'
  <1> SUFFICES ASSUME SelectionInv, [StartupNext]_startupVars PROVE SelectionInv'
    OBVIOUS
  <1> DEFINE Sources == {"none", "default", "directory", "override"}
  <1>1. ASSUME NEW f \in Operands, FileChanges(f) PROVE SelectionInv'
    BY <1>1 DEF FileChanges, SelectionInv, OverrideDecides, Chosen
  <1>2. CASE Classify
    <2>1. invocation' = invocation /\ selection' = selection /\ at' \in {"parsed", "failed"}
      BY <1>2, Zenon DEF Classify, Fails, Parsed
    <2> QED
      BY <2>1 DEF SelectionInv, OverrideDecides, Chosen
  <1>3. CASE SelectBase
    <2>1. /\ at' \in {"based", "failed"} /\ invocation' = invocation
          /\ at' = "based" =>
               /\ Valid(selection'.path) /\ selection'.source = invocation.base
               /\ selection' \in [path : Path, source : Sources]
               /\ selection'.source = "directory" =>
                    /\ invocation.directory \in Paths
                    /\ selection'.path = Join(Lossy(invocation.directory), invocation.inside)
          /\ at' = "failed" => selection' = selection
      <3>1. invocation' = invocation
        BY <1>3 DEF SelectBase
      <3>2. invocation.inside \in Path /\ invocation.base \in {"default", "directory"}
            /\ invocation.directory \in Paths \cup {Unset}
        BY StartupAssumption DEF SelectionInv, Invocations
      <3>3. CASE invocation.base = "default"
        BY <1>3, <3>1, <3>2, <3>3 DEF SelectBase, Select, Fails
      <3>4. CASE invocation.base = "directory" /\ invocation.directory \in {Unset, NoPath}
        BY <1>3, <3>1, <3>4 DEF SelectBase, Fails
      <3>5. CASE invocation.base = "directory" /\ invocation.directory \notin {Unset, NoPath}
        <4> DEFINE joined == Join(Lossy(invocation.directory), invocation.inside)
        <4>1. invocation.directory \in Paths /\ invocation.directory \in Path
          BY <3>2, <3>5, StartupAssumption
        <4>2. joined \in Path
          BY <3>2, <4>1, LossyType, JoinType
        <4>3. Select(joined, "directory", "based")
          BY <1>3, <3>5 DEF SelectBase
        <4> HIDE DEF joined
        <4>4. \/ at' = "failed" /\ selection' = selection
              \/ at' = "based" /\ Valid(joined) /\ selection' = [path |-> joined, source |-> "directory"]
          BY <4>3 DEF Select, Fails
        <4> QED
          BY <3>1, <3>5, <4>1, <4>2, <4>4 DEF joined
      <3> QED
        BY <3>2, <3>3, <3>4, <3>5
    <2> QED
      BY <2>1 DEF SelectionInv, OverrideDecides, Chosen
  <1>4. CASE SelectOverride
    <2>1. at = "based" /\ invocation' = invocation
      BY <1>4 DEF SelectOverride
    <2>2. CASE invocation.override = Unset
      <3>1. at' = "selected" /\ selection' = selection
        BY <1>4, <2>2 DEF SelectOverride
      <3> QED
        BY <2>1, <2>2, <3>1 DEF SelectionInv, OverrideDecides, Chosen
    <2>3. CASE invocation.override # Unset
      <3> DEFINE given == Lossy(invocation.override)
      <3>1. given \in Path
        BY <2>3, LossyType, StartupAssumption DEF SelectionInv, Invocations
      <3>2. Select(given, "override", "selected")
        BY <1>4, <2>3 DEF SelectOverride
      <3> HIDE DEF given
      <3>3. \/ at' = "failed" /\ selection' = selection
            \/ at' = "selected" /\ Valid(given) /\ selection' = [path |-> given, source |-> "override"]
        BY <3>2 DEF Select, Fails
      <3> QED
        BY <2>1, <2>3, <3>1, <3>3 DEF SelectionInv, OverrideDecides, Chosen, given
    <2> QED
      BY <2>2, <2>3
  <1>5. CASE Prepare
    <2>1. at = "selected" /\ at' \in {"prepared", "failed"} /\ invocation' = invocation /\ selection' = selection
      BY <1>5 DEF Prepare, Fails
    <2> QED
      BY <2>1 DEF SelectionInv, OverrideDecides, Chosen
  <1>6. CASE UNCHANGED startupVars
    BY <1>6 DEF startupVars, SelectionInv, OverrideDecides, Chosen
  <1> QED
    BY <1>1, <1>2, <1>3, <1>4, <1>5, <1>6 DEF StartupNext

\* The socket's path stays in the runtime directory it was taken from, and a
\* variable that is set decides it (from_runtime_directory, try_new,
\* select_environment_override).
THEOREM SelectionIsSound == StartupSpec => []SelectionSound
  <1>1. StartupInit => SelectionInv
    BY SelectionInvInit
  <1>2. SelectionInv /\ [StartupNext]_startupVars => SelectionInv'
    BY SelectionInvStep
  <1>3. SelectionInv => SelectionSound
    BY InsideDirectory DEF SelectionInv, SelectionSound
  <1> QED
    BY <1>1, <1>2, <1>3, PTL DEF StartupSpec
==============================================================================
