-------------------------- MODULE StageDrainProofs --------------------------
(***************************************************************************)
(* What holds of the staging directory for any number of files, drains,    *)
(* numbers and deaths: types, that nothing is lost whoever drains, and     *)
(* that under the flock only a death makes a snapshot be stored twice and  *)
(* only a lower number lets the markets row miss a newer stored file.      *)
(***************************************************************************)
EXTENDS StageDrain, TLAPS

\* A session's uncommitted files were read whole; a session past its commit
\* has all its files stored.
SessionOK ==
  \A w \in Workers : \A f \in mine[w] :
    /\ pc[w] = "read" => file[f] \in {"whole", "drained"}
    /\ pc[w] = "archive" => stored[f] > 0

LostInv == TypeOK /\ SessionOK /\ NothingLost

\* The parameters with their assumptions, once and for all.
USE StageAssumption

-----------------------------------------------------------------------------
(* Types *)

LEMMA StopsTyped ==
  ASSUME TypeOK, NEW w \in Workers, Stops(w)
  PROVE  /\ pc' \in [Workers -> Steps]
         /\ todo' \in [Workers -> SUBSET Files] /\ mine' \in [Workers -> SUBSET Files]
         /\ IdleEmpty'
  BY DEF TypeOK, IdleEmpty, Stops, Steps

LEMMA StageTyped ==
  ASSUME TypeOK, NEW f \in Files, BeginStage(f) \/ FinishStage(f) \/ Tear(f)
  PROVE  TypeOK'
<1>1. CASE BeginStage(f)
  <2>1. seq' \in [Files -> 0..MaxNumber]
    BY <1>1 DEF TypeOK, BeginStage
  <2>2. file' \in [Files -> FileStates]
    BY <1>1 DEF TypeOK, BeginStage, FileStates
  <2>. QED
    BY <1>1, <2>1, <2>2 DEF TypeOK, IdleEmpty, BeginStage, workerVars, dbVars
<1>2. CASE FinishStage(f)
  BY <1>2 DEF TypeOK, IdleEmpty, FinishStage, FileStates, workerVars, dbVars
<1>3. CASE Tear(f)
  <2>1. tears' \in 0..MaxTears
    BY <1>3 DEF TypeOK, Tear
  <2>2. file' \in [Files -> FileStates]
    BY <1>3 DEF TypeOK, IdleEmpty, Tear, FileStates
  <2>. QED
    BY <1>3, <2>1, <2>2 DEF TypeOK, IdleEmpty, Tear, workerVars, dbVars
<1>. QED
  BY <1>1, <1>2, <1>3

LEMMA StoresTyped ==
  ASSUME TypeOK, NEW S \in SUBSET Files, Stores(S)
  PROVE  stored' \in [Files -> Nat] /\ market' \in 0..MaxFiles
<1>1. stored' \in [Files -> Nat]
  BY DEF TypeOK, Stores
<1>2. market' \in 0..MaxFiles
  BY DEF TypeOK, Stores, Files
<1>. QED
  BY <1>1, <1>2

LEMMA WorkerTyped ==
  ASSUME TypeOK, NEW w \in Workers, Start(w) \/ Advance(w) \/ Kill(w)
  PROVE  TypeOK'
<1>1. CASE Start(w)
  BY <1>1 DEF TypeOK, IdleEmpty, Start, Steps, stageVars, dbVars
<1>2. CASE Gate(w)
  <2>1. CASE Stops(w)
    BY <1>2, <2>1, StopsTyped DEF TypeOK, IdleEmpty, Gate, stageVars, dbVars
  <2>2. CASE pc' = [pc EXCEPT ![w] = "list"] /\ UNCHANGED <<todo, mine>>
    BY <1>2, <2>2 DEF TypeOK, IdleEmpty, Gate, Steps, stageVars, dbVars
  <2>. QED
    BY <1>2, <2>1, <2>2 DEF Gate
<1>3. CASE List(w)
  <2>1. Staged \in SUBSET Files
    BY DEF Staged
  <2>. QED
    BY <1>3, <2>1 DEF TypeOK, IdleEmpty, List, Steps, stageVars, dbVars
<1>4. CASE Insert(w)
  <2>1. PICK f \in todo[w] : /\ todo' = [todo EXCEPT ![w] = @ \ {f}]
                             /\ mine' = [mine EXCEPT ![w] = @ \cup {f}]
    BY <1>4 DEF Insert
  <2>2. f \in Files /\ todo[w] \in SUBSET Files /\ mine[w] \in SUBSET Files
    BY DEF TypeOK
  <2>3. todo' \in [Workers -> SUBSET Files] /\ mine' \in [Workers -> SUBSET Files]
    BY <2>1, <2>2 DEF TypeOK
  <2>4. pc' = pc /\ pc[w] = "read"
    BY <1>4 DEF Insert
  <2>5. IdleEmpty'
    <3>1. \A v \in Workers : v # w => todo'[v] = todo[v] /\ mine'[v] = mine[v]
      BY <2>1 DEF TypeOK
    <3>. QED
      BY <2>4, <3>1 DEF TypeOK, IdleEmpty
  <2>. QED
    BY <1>4, <2>3, <2>4, <2>5 DEF TypeOK, IdleEmpty, Insert, stageVars, dbVars
<1>5. CASE Unreadable(w)
  BY <1>5, StopsTyped DEF TypeOK, Unreadable, stageVars, dbVars
<1>6. CASE LockTimeout(w)
  BY <1>6, StopsTyped DEF TypeOK, LockTimeout, stageVars, dbVars
<1>7. CASE Commit(w)
  <2>1. mine[w] \in SUBSET Files
    BY DEF TypeOK
  <2>2. stored' \in [Files -> Nat] /\ market' \in 0..MaxFiles
    BY <1>7, <2>1, StoresTyped DEF Commit
  <2>. QED
    BY <1>7, <2>2 DEF TypeOK, IdleEmpty, Commit, Steps, stageVars
<1>8. CASE Archive(w)
  <2>1. PICK f \in mine[w] : /\ file' = [file EXCEPT ![f] = "drained"]
                             /\ mine' = [mine EXCEPT ![w] = @ \ {f}]
    BY <1>8 DEF Archive
  <2>2. f \in Files /\ mine[w] \in SUBSET Files
    BY DEF TypeOK
  <2>3. file' \in [Files -> FileStates] /\ mine' \in [Workers -> SUBSET Files]
    BY <2>1, <2>2 DEF TypeOK, FileStates
  <2>4. IdleEmpty'
    <3>1. /\ pc[w] = "archive" /\ pc' = pc /\ todo' = todo
          /\ \A v \in Workers : v # w => mine'[v] = mine[v]
      BY <1>8, <2>1 DEF TypeOK, Archive
    <3>. QED
      BY <3>1 DEF TypeOK, IdleEmpty
  <2>. QED
    BY <1>8, <2>3, <2>4 DEF TypeOK, IdleEmpty, Archive, dbVars
<1>9. CASE ArchiveGone(w)
  BY <1>9, StopsTyped DEF TypeOK, ArchiveGone, stageVars, dbVars
<1>10. CASE Finish(w)
  <2>1. CASE Stops(w)
    BY <1>10, <2>1, StopsTyped DEF TypeOK, IdleEmpty, Finish, stageVars, dbVars
  <2>2. CASE /\ pc[w] = "archive" /\ mine[w] = {}
             /\ pc' = [pc EXCEPT ![w] = "refresh"] /\ UNCHANGED <<todo, mine>>
    BY <1>10, <2>2 DEF TypeOK, IdleEmpty, Finish, Steps, stageVars, dbVars
  <2>. QED
    BY <1>10, <2>1, <2>2 DEF Finish
<1>11. CASE Kill(w)
  <2>1. kills' \in 0..MaxKills
    BY <1>11 DEF TypeOK, Kill
  <2>. QED
    BY <1>11, <2>1, StopsTyped DEF TypeOK, Kill, stageVars, dbVars
<1>. QED
  BY <1>1, <1>2, <1>3, <1>4, <1>5, <1>6, <1>7, <1>8, <1>9, <1>10, <1>11 DEF Advance

\* The state keeps its types, and a worker starts every drain with empty lists.
THEOREM TypeCorrect == Spec => []TypeOK
<1>1. Init => TypeOK
  BY DEF Init, TypeOK, IdleEmpty, FileStates, Steps
<1>2. TypeOK /\ [Next]_vars => TypeOK'
  <2>. SUFFICES ASSUME TypeOK, [Next]_vars
                PROVE  TypeOK'
    OBVIOUS
  <2>1. CASE UNCHANGED vars
    BY <2>1 DEF TypeOK, IdleEmpty, vars
  <2>. QED
    BY <2>1, StageTyped, WorkerTyped DEF Next
<1>. QED
  BY <1>1, <1>2, PTL DEF Spec

-----------------------------------------------------------------------------
(* Nothing is lost *)

\* Ending a process leaves files and rows alone and every other session as it was.
LEMMA StopsKeeps ==
  ASSUME LostInv, NEW w \in Workers, Stops(w), UNCHANGED <<stageVars, dbVars>>
  PROVE  SessionOK' /\ NothingLost'
<1>1. \A v \in Workers : mine'[v] = {} \/ (mine'[v] = mine[v] /\ pc'[v] = pc[v])
  BY DEF LostInv, TypeOK, Stops
<1>2. SessionOK'
  BY <1>1 DEF LostInv, SessionOK, stageVars, dbVars
<1>. QED
  BY <1>2 DEF LostInv, NothingLost, stageVars, dbVars

LEMMA StageKeeps ==
  ASSUME LostInv, NEW f \in Files, BeginStage(f) \/ FinishStage(f) \/ Tear(f)
  PROVE  SessionOK' /\ NothingLost'
<1>1. /\ file[f] \in {"none", "partial"} /\ stored' = stored
      /\ \A g \in Files : g # f => file'[g] = file[g]
      /\ file'[f] \in {"partial", "torn", "whole"}
      /\ pc' = pc /\ mine' = mine
  BY DEF LostInv, TypeOK, IdleEmpty, BeginStage, FinishStage, Tear, workerVars, dbVars
<1>2. ~(stored[f] > 0)
  BY <1>1 DEF LostInv, NothingLost
<1>3. \A w \in Workers : pc[w] = "read" => f \notin mine[w]
  BY <1>1 DEF LostInv, SessionOK
<1>4. \A w \in Workers : mine[w] \in SUBSET Files
  BY DEF LostInv, TypeOK
<1>5. NothingLost'
  BY <1>1, <1>2 DEF LostInv, NothingLost
<1>6. SessionOK'
  BY <1>1, <1>3, <1>4 DEF LostInv, SessionOK
<1>. QED
  BY <1>5, <1>6

LEMMA WorkerKeeps ==
  ASSUME LostInv, NEW w \in Workers, Start(w) \/ Advance(w) \/ Kill(w)
  PROVE  SessionOK' /\ NothingLost'
<1>. DEFINE Same == UNCHANGED <<stageVars, dbVars>>
<1>0. \A v \in Workers : mine[v] \in SUBSET Files
  BY DEF LostInv, TypeOK
<1>1. CASE Start(w) \/ List(w)
  <2>1. /\ mine' = mine /\ Same
        /\ \A v \in Workers : pc'[v] = "archive" => pc[v] = "archive"
        /\ \A v \in Workers : pc'[v] = "read" => pc[v] = "read" \/ mine[v] = {}
    <3>1. /\ mine' = mine /\ Same /\ pc'[w] \in {"gate", "read"}
          /\ pc[w] \in {"off", "list"}
          /\ \A v \in Workers : v # w => pc'[v] = pc[v]
      BY <1>1 DEF LostInv, TypeOK, IdleEmpty, Start, List
    <3>2. mine[w] = {}
      <4>1. IdleEmpty
        BY DEF LostInv, TypeOK
      <4>2. pc[w] \notin {"read", "archive"}
        BY <3>1
      <4>. QED
        BY <4>1, <4>2 DEF IdleEmpty
    <3>. QED
      BY <3>1, <3>2
  <2>. QED
    BY <2>1 DEF LostInv, SessionOK, NothingLost, stageVars, dbVars
<1>2. CASE Gate(w)
  <2>1. CASE Stops(w)
    BY <1>2, <2>1, StopsKeeps DEF Gate
  <2>2. CASE pc' = [pc EXCEPT ![w] = "list"] /\ UNCHANGED <<todo, mine>>
    <3>1. /\ mine' = mine /\ Same
          /\ \A v \in Workers : pc'[v] \in {"read", "archive"} => pc'[v] = pc[v]
      BY <1>2, <2>2 DEF LostInv, TypeOK, Gate
    <3>. QED
      BY <3>1 DEF LostInv, SessionOK, NothingLost, stageVars, dbVars
  <2>. QED
    BY <1>2, <2>1, <2>2 DEF Gate
<1>3. CASE Insert(w)
  <2>1. PICK f \in todo[w] : file[f] = "whole" /\ mine' = [mine EXCEPT ![w] = @ \cup {f}]
    BY <1>3 DEF Insert
  <2>2. pc[w] = "read" /\ pc' = pc /\ Same
    BY <1>3 DEF Insert
  <2>3. \A v \in Workers : mine'[v] = mine[v] \/ (v = w /\ mine'[v] = mine[v] \cup {f})
    BY <2>1 DEF LostInv, TypeOK
  <2>4. SessionOK'
    BY <2>1, <2>2, <2>3 DEF LostInv, SessionOK, stageVars, dbVars
  <2>. QED
    BY <2>2, <2>4 DEF LostInv, NothingLost, stageVars, dbVars
<1>4. CASE Unreadable(w) \/ LockTimeout(w) \/ ArchiveGone(w) \/ Kill(w)
  BY <1>4, StopsKeeps DEF Unreadable, LockTimeout, ArchiveGone, Kill
<1>5. CASE Commit(w)
  <2>1. /\ file' = file /\ mine' = mine /\ pc[w] = "read"
        /\ \A v \in Workers : v # w => pc'[v] = pc[v]
        /\ pc'[w] = "archive"
    BY <1>5 DEF LostInv, TypeOK, IdleEmpty, Commit, stageVars
  <2>2. \A f \in Files : /\ stored[f] \in Nat
                         /\ f \in mine[w] => stored'[f] = stored[f] + 1
                         /\ f \notin mine[w] => stored'[f] = stored[f]
    BY <1>5 DEF LostInv, TypeOK, IdleEmpty, Commit, Stores
  <2>3. \A f \in mine[w] : file[f] \in {"whole", "drained"} /\ stored'[f] > 0
    BY <1>0, <2>1, <2>2 DEF LostInv, SessionOK
  <2>4. \A f \in Files : stored[f] > 0 => stored'[f] > 0
    BY <2>2
  <2>5. SessionOK'
    BY <1>0, <2>1, <2>3, <2>4 DEF LostInv, SessionOK
  <2>6. NothingLost'
    BY <2>1, <2>2, <2>3, <2>4 DEF LostInv, NothingLost
  <2>. QED
    BY <2>5, <2>6
<1>6. CASE Archive(w)
  <2>1. PICK f \in mine[w] : /\ file[f] = "whole"
                             /\ file' = [file EXCEPT ![f] = "drained"]
                             /\ mine' = [mine EXCEPT ![w] = @ \ {f}]
    BY <1>6 DEF Archive
  <2>2. pc[w] = "archive" /\ pc' = pc /\ stored' = stored
    BY <1>6 DEF Archive, dbVars
  <2>3. f \in Files /\ stored[f] > 0
    BY <1>0, <2>1, <2>2 DEF LostInv, SessionOK
  <2>4. /\ \A v \in Workers : mine'[v] \subseteq mine[v]
        /\ \A g \in Files : file'[g] = IF g = f THEN "drained" ELSE file[g]
    BY <2>1, <2>3 DEF LostInv, TypeOK
  <2>5. SessionOK'
    BY <1>0, <2>2, <2>4 DEF LostInv, SessionOK
  <2>6. NothingLost'
    BY <2>2, <2>3, <2>4 DEF LostInv, NothingLost
  <2>. QED
    BY <2>5, <2>6
<1>7. CASE Finish(w)
  <2>1. CASE Stops(w)
    BY <1>7, <2>1, StopsKeeps DEF Finish
  <2>2. CASE pc' = [pc EXCEPT ![w] = "refresh"] /\ UNCHANGED <<todo, mine>>
    <3>1. /\ mine' = mine /\ Same
          /\ \A v \in Workers : pc'[v] \in {"read", "archive"} => pc'[v] = pc[v]
      BY <1>7, <2>2 DEF LostInv, TypeOK, Finish
    <3>. QED
      BY <3>1 DEF LostInv, SessionOK, NothingLost, stageVars, dbVars
  <2>. QED
    BY <1>7, <2>1, <2>2 DEF Finish
<1>. QED
  BY <1>1, <1>2, <1>3, <1>4, <1>5, <1>6, <1>7 DEF Advance

LEMMA LostHolds == Spec => []LostInv
<1>1. Init => LostInv
  <2>1. Init => TypeOK
    BY DEF Init, TypeOK, IdleEmpty, FileStates, Steps
  <2>2. Init => SessionOK /\ NothingLost
    BY DEF Init, SessionOK, NothingLost
  <2>. QED
    BY <2>1, <2>2 DEF LostInv
<1>2. LostInv /\ TypeOK' /\ [Next]_vars => LostInv'
  <2>. SUFFICES ASSUME LostInv, [Next]_vars
                PROVE  SessionOK' /\ NothingLost'
    BY DEF LostInv
  <2>1. CASE UNCHANGED vars
    BY <2>1 DEF LostInv, SessionOK, NothingLost, vars
  <2>. QED
    BY <2>1, StageKeeps, WorkerKeeps DEF Next
<1>. QED
  BY <1>1, <1>2, TypeCorrect, PTL DEF Spec

\* Whoever drains, with or without the flock, and wherever drains and the watch
\* service die: a file is archived only after its rows are committed.
THEOREM NothingIsLost == Spec => []NothingLost
<1>1. LostInv => NothingLost
  BY DEF LostInv
<1>. QED
  BY <1>1, LostHolds, PTL

-----------------------------------------------------------------------------
(* Duplicates come from deaths *)

\* A session past its commit that has not archived f yet.
Archiving(f) == \E w \in Workers : pc[w] = "archive" /\ f \in mine[w]

\* One drain at a time; what it has listed is still there; what it has inserted
\* was read whole; a file in the directory that nobody is archiving was stored
\* only by drains that died.
Alone == \A v, w \in Workers : pc[v] # "off" /\ pc[w] # "off" => v = w
Listed ==
  \A w \in Workers :
    /\ \A f \in todo[w] : file[f] # "drained"
    /\ \A f \in mine[w] : file[f] = "whole"
Counted ==
  \A f \in Files : file[f] # "drained" /\ ~Archiving(f) => stored[f] <= kills

OnceInv == TypeOK /\ Alone /\ Listed /\ Counted /\ DuplicatesOnlyFromKills

\* Ending a process: Alone and Listed stay, and so does Counted when the process
\* had nothing left to archive or its death is counted.
LEMMA StopsOnce ==
  ASSUME OnceInv, NEW w \in Workers, Stops(w), UNCHANGED <<stageVars, dbVars>>,
         \/ kills' = kills + 1
         \/ kills' = kills /\ (pc[w] = "archive" => mine[w] = {})
  PROVE  Alone' /\ Listed' /\ Counted' /\ DuplicatesOnlyFromKills'
<1>1. /\ \A v \in Workers : v # w => pc'[v] = pc[v] /\ mine'[v] = mine[v] /\ todo'[v] = todo[v]
      /\ pc'[w] = "off" /\ mine'[w] = {} /\ todo'[w] = {}
  BY DEF OnceInv, TypeOK, Stops
<1>2. file' = file /\ stored' = stored
  BY DEF stageVars, dbVars
<1>3. kills \in Nat /\ \A f \in Files : stored[f] \in Nat
  BY DEF OnceInv, TypeOK
<1>4. Alone'
  BY <1>1 DEF OnceInv, Alone
<1>5. Listed'
  BY <1>1, <1>2 DEF OnceInv, Listed
<1>6. DuplicatesOnlyFromKills'
  BY <1>2, <1>3 DEF OnceInv, DuplicatesOnlyFromKills
<1>7. Counted'
  <2>1. CASE kills' = kills + 1
    BY <2>1, <1>2, <1>3 DEF OnceInv, Counted, DuplicatesOnlyFromKills
  <2>2. CASE kills' = kills /\ (pc[w] = "archive" => mine[w] = {})
    <3>1. \A f \in Files : Archiving(f) => Archiving(f)'
      BY <1>1, <2>2 DEF Archiving
    <3>. QED
      BY <3>1, <2>2, <1>2 DEF OnceInv, Counted
  <2>. QED
    BY <2>1, <2>2
<1>. QED
  BY <1>4, <1>5, <1>6, <1>7

\* The watch service touches only files no drain has stored or may lose.
LEMMA StageOnce ==
  ASSUME OnceInv, NEW f \in Files, BeginStage(f) \/ FinishStage(f) \/ Tear(f)
  PROVE  Alone' /\ Listed' /\ Counted' /\ DuplicatesOnlyFromKills'
<1>1. /\ file[f] \in {"none", "partial"} /\ stored' = stored /\ kills' = kills
      /\ \A g \in Files : g # f => file'[g] = file[g]
      /\ file'[f] \in {"partial", "torn", "whole"}
      /\ pc' = pc /\ mine' = mine /\ todo' = todo
  BY DEF OnceInv, TypeOK, BeginStage, FinishStage, Tear, workerVars, dbVars
<1>2. \A w \in Workers : /\ mine[w] \in SUBSET Files /\ todo[w] \in SUBSET Files
                         /\ f \notin mine[w]
  BY <1>1 DEF OnceInv, TypeOK, Listed
<1>3. Alone' /\ DuplicatesOnlyFromKills'
  BY <1>1 DEF OnceInv, Alone, DuplicatesOnlyFromKills
<1>4. Listed'
  BY <1>1, <1>2 DEF OnceInv, Listed
<1>5. \A g \in Files : Archiving(g)' <=> Archiving(g)
  BY <1>1 DEF Archiving
<1>6. Counted'
  BY <1>1, <1>5 DEF OnceInv, Counted
<1>. QED
  BY <1>3, <1>4, <1>6

LEMMA WorkerOnce ==
  ASSUME Scheduled = Workers, OnceInv, NEW w \in Workers,
         Start(w) \/ Advance(w) \/ Kill(w)
  PROVE  Alone' /\ Listed' /\ Counted' /\ DuplicatesOnlyFromKills'
<1>0. /\ kills \in Nat /\ \A f \in Files : stored[f] \in Nat
      /\ \A v \in Workers : mine[v] \in SUBSET Files /\ todo[v] \in SUBSET Files
      /\ IdleEmpty
  BY DEF OnceInv, TypeOK
<1>1. CASE Start(w)
  <2>1. \A v \in Workers : pc[v] = "off" /\ (v # w => pc'[v] = "off")
    BY <1>1 DEF OnceInv, TypeOK, Start, FlockFree
  <2>2. /\ mine' = mine /\ todo' = todo /\ file' = file /\ stored' = stored /\ kills' = kills
    BY <1>1 DEF Start, stageVars, dbVars
  <2>3. Alone' /\ Listed' /\ DuplicatesOnlyFromKills'
    BY <2>1, <2>2 DEF OnceInv, Alone, Listed, DuplicatesOnlyFromKills
  <2>4. \A f \in Files : ~Archiving(f)
    BY <2>1 DEF Archiving
  <2>5. Counted'
    BY <2>2, <2>4 DEF OnceInv, Counted
  <2>. QED
    BY <2>3, <2>5
<1>2. CASE Gate(w) \/ Finish(w)
  <2>1. CASE Stops(w)
    <3>1. kills' = kills /\ (pc[w] = "archive" => mine[w] = {})
      BY <1>2 DEF Gate, Finish
    <3>. QED
      BY <1>2, <2>1, <3>1, StopsOnce DEF Gate, Finish
  <2>2. CASE ~Stops(w)
    <3>1. /\ mine' = mine /\ todo' = todo /\ file' = file /\ stored' = stored /\ kills' = kills
          /\ pc[w] # "off" /\ (pc[w] = "archive" => mine[w] = {})
          /\ \A v \in Workers : v # w => pc'[v] = pc[v]
      BY <1>2, <2>2 DEF OnceInv, TypeOK, Gate, Finish, stageVars, dbVars
    <3>2. Alone' /\ Listed' /\ DuplicatesOnlyFromKills'
      BY <3>1 DEF OnceInv, Alone, Listed, DuplicatesOnlyFromKills
    <3>3. \A f \in Files : Archiving(f) => Archiving(f)'
      BY <3>1 DEF Archiving
    <3>4. Counted'
      BY <3>1, <3>3 DEF OnceInv, Counted
    <3>. QED
      BY <3>2, <3>4
  <2>. QED
    BY <2>1, <2>2
<1>3. CASE List(w)
  <2>1. /\ mine' = mine /\ file' = file /\ stored' = stored /\ kills' = kills
        /\ pc[w] = "list" /\ todo'[w] = Staged
        /\ \A v \in Workers : v # w => pc'[v] = pc[v] /\ todo'[v] = todo[v]
    BY <1>3 DEF OnceInv, TypeOK, List, stageVars, dbVars
  <2>2. \A f \in Staged : file[f] # "drained"
    BY DEF Staged
  <2>3. Alone' /\ DuplicatesOnlyFromKills'
    BY <2>1 DEF OnceInv, Alone, DuplicatesOnlyFromKills
  <2>4. Listed'
    BY <2>1, <2>2 DEF OnceInv, Listed
  <2>5. \A f \in Files : Archiving(f) => Archiving(f)'
    BY <2>1 DEF Archiving
  <2>6. Counted'
    BY <2>1, <2>5 DEF OnceInv, Counted
  <2>. QED
    BY <2>3, <2>4, <2>6
<1>4. CASE Insert(w)
  <2>1. PICK f \in todo[w] : /\ file[f] = "whole"
                             /\ todo' = [todo EXCEPT ![w] = @ \ {f}]
                             /\ mine' = [mine EXCEPT ![w] = @ \cup {f}]
    BY <1>4 DEF Insert
  <2>2. /\ pc[w] = "read" /\ pc' = pc /\ file' = file /\ stored' = stored /\ kills' = kills
    BY <1>4 DEF Insert, stageVars, dbVars
  <2>3. /\ \A v \in Workers : v # w => todo'[v] = todo[v] /\ mine'[v] = mine[v]
        /\ todo'[w] \subseteq todo[w] /\ mine'[w] = mine[w] \cup {f}
    BY <2>1 DEF OnceInv, TypeOK
  <2>4. Alone' /\ DuplicatesOnlyFromKills'
    BY <2>2 DEF OnceInv, Alone, DuplicatesOnlyFromKills
  <2>5. Listed'
    BY <2>1, <2>2, <2>3 DEF OnceInv, Listed
  <2>6. \A g \in Files : Archiving(g) => Archiving(g)'
    BY <2>2, <2>3 DEF Archiving
  <2>7. Counted'
    BY <2>2, <2>6 DEF OnceInv, Counted
  <2>. QED
    BY <2>4, <2>5, <2>7
<1>5. CASE Unreadable(w) \/ LockTimeout(w)
  <2>1. kills' = kills /\ pc[w] = "read"
    BY <1>5 DEF Unreadable, LockTimeout
  <2>. QED
    BY <1>5, <2>1, StopsOnce DEF Unreadable, LockTimeout
<1>6. CASE ArchiveGone(w)
  \* What a session archives is still there, so this cannot happen.
  BY <1>6 DEF ArchiveGone, OnceInv, Listed
<1>7. CASE Kill(w)
  BY <1>7, StopsOnce DEF Kill
<1>8. CASE Commit(w)
  <2>1. /\ file' = file /\ mine' = mine /\ todo' = todo /\ kills' = kills
        /\ pc[w] = "read" /\ pc'[w] = "archive"
        /\ \A v \in Workers : v # w => pc'[v] = pc[v]
    BY <1>8 DEF OnceInv, TypeOK, Commit, stageVars
  <2>2. \A f \in Files : /\ f \in mine[w] => stored'[f] = stored[f] + 1
                         /\ f \notin mine[w] => stored'[f] = stored[f]
    BY <1>8 DEF OnceInv, TypeOK, Commit, Stores
  <2>3. \A f \in Files : ~Archiving(f)
    BY <2>1 DEF OnceInv, Alone, Archiving
  <2>4. \A f \in mine[w] : stored[f] <= kills
    BY <1>0, <2>3 DEF OnceInv, Listed, Counted
  <2>5. DuplicatesOnlyFromKills'
    BY <1>0, <2>1, <2>2, <2>4 DEF OnceInv, DuplicatesOnlyFromKills
  <2>6. Alone' /\ Listed'
    BY <2>1 DEF OnceInv, Alone, Listed
  <2>7. Counted'
    BY <1>0, <2>1, <2>2, <2>3 DEF OnceInv, Counted, Archiving
  <2>. QED
    BY <2>5, <2>6, <2>7
<1>9. CASE Archive(w)
  <2>1. PICK f \in mine[w] : /\ file' = [file EXCEPT ![f] = "drained"]
                             /\ mine' = [mine EXCEPT ![w] = @ \ {f}]
    BY <1>9 DEF Archive
  <2>2. /\ pc[w] = "archive" /\ pc' = pc /\ todo' = todo /\ stored' = stored /\ kills' = kills
    BY <1>9 DEF Archive, dbVars
  <2>3. /\ f \in Files
        /\ \A g \in Files : file'[g] = IF g = f THEN "drained" ELSE file[g]
        /\ \A v \in Workers : v # w => mine'[v] = mine[v]
        /\ mine'[w] = mine[w] \ {f}
    BY <1>0, <2>1 DEF OnceInv, TypeOK
  <2>4. \A v \in Workers : todo'[v] = {} /\ (v # w => mine[v] = {})
    BY <1>0, <2>2 DEF OnceInv, Alone, IdleEmpty
  <2>5. Alone' /\ DuplicatesOnlyFromKills'
    BY <2>2 DEF OnceInv, Alone, DuplicatesOnlyFromKills
  <2>6. Listed'
    BY <1>0, <2>3, <2>4 DEF OnceInv, Listed
  <2>7. \A g \in Files : g # f /\ Archiving(g) => Archiving(g)'
    BY <2>2, <2>3 DEF Archiving
  <2>8. Counted'
    BY <2>2, <2>3, <2>7 DEF OnceInv, Counted
  <2>. QED
    BY <2>5, <2>6, <2>8
<1>. QED
  BY <1>1, <1>2, <1>3, <1>4, <1>5, <1>6, <1>7, <1>8, <1>9 DEF Advance

LEMMA OnceHolds ==
  ASSUME Scheduled = Workers
  PROVE  Spec => []OnceInv
<1>1. Init => OnceInv
  <2>1. Init => TypeOK
    BY DEF Init, TypeOK, IdleEmpty, FileStates, Steps
  <2>2. Init => Alone /\ Listed /\ Counted /\ DuplicatesOnlyFromKills
    BY DEF Init, Alone, Listed, Counted, DuplicatesOnlyFromKills
  <2>. QED
    BY <2>1, <2>2 DEF OnceInv
<1>2. OnceInv /\ TypeOK' /\ [Next]_vars => OnceInv'
  <2>. SUFFICES ASSUME OnceInv, [Next]_vars
                PROVE  Alone' /\ Listed' /\ Counted' /\ DuplicatesOnlyFromKills'
    BY DEF OnceInv
  <2>1. CASE UNCHANGED vars
    <3>1. /\ file' = file /\ stored' = stored /\ kills' = kills
          /\ pc' = pc /\ todo' = todo /\ mine' = mine
      BY <2>1 DEF vars
    <3>2. \A f \in Files : Archiving(f)' <=> Archiving(f)
      BY <3>1 DEF Archiving
    <3>. QED
      BY <3>1, <3>2 DEF OnceInv, Alone, Listed, Counted, DuplicatesOnlyFromKills
  <2>. QED
    BY <2>1, StageOnce, WorkerOnce DEF Next
<1>. QED
  BY <1>1, <1>2, TypeCorrect, PTL DEF Spec

\* When every drain is started by a service's script, under the flock, a
\* snapshot is stored at most once more than drains have died.
THEOREM DuplicatesNeedDeaths ==
  ASSUME Scheduled = Workers
  PROVE  Spec => []DuplicatesOnlyFromKills
<1>1. OnceInv => DuplicatesOnlyFromKills
  BY DEF OnceInv
<1>. QED
  BY <1>1, OnceHolds, PTL

-----------------------------------------------------------------------------
(* The markets row falls behind by numbers only *)

Session(w) == todo[w] \cup mine[w]

\* Files are staged one after the other.
StageOrder ==
  \A g, h \in Files : file[g] # "none" /\ h < g => file[h] \notin {"none", "partial"}

\* A session has every whole file older than one it has.
Batches ==
  \A w \in Workers : \A f \in Session(w) :
    /\ file[f] # "none"
    /\ \A h \in Files : h < f /\ file[h] = "whole" => h \in Session(w)

\* A session that is still reading has every stored file of the directory.
StoredListed ==
  \A w \in Workers : pc[w] = "read" =>
    \A f \in Files : stored[f] > 0 /\ file[f] = "whole" => f \in Session(w)

\* A file leaves the directory before an older one only by its lower number.
LeaveByNumber ==
  \A g, h \in Files : h < g /\ file[g] = "drained" /\ file[h] = "whole" => seq[g] < seq[h]

MarketStored == market # 0 => stored[market] > 0

Orderly ==
  StageOrder /\ Batches /\ StoredListed /\ LeaveByNumber /\ MarketStored /\ BehindByNumberOnly
Sound == OnceInv /\ NothingLost

LEMMA SoundTypes ==
  ASSUME Sound
  PROVE  /\ TypeOK /\ IdleEmpty
         /\ \A f \in Files : seq[f] \in Nat /\ stored[f] \in Nat /\ f \in Nat
         /\ market \in Nat /\ (market # 0 => market \in Files)
         /\ \A w \in Workers : todo[w] \in SUBSET Files /\ mine[w] \in SUBSET Files
  BY DEF Sound, OnceInv, TypeOK, Files

\* Steps of sessions that list, store and archive nothing.
LEMMA QuietKeeps ==
  ASSUME Sound, Orderly, UNCHANGED <<stageVars, dbVars>>,
         \A v \in Workers :
           \/ Session(v)' = {} /\ pc'[v] # "read"
           \/ Session(v)' = Session(v) /\ pc'[v] = pc[v]
  PROVE  Orderly'
<1>1. /\ file' = file /\ seq' = seq /\ stored' = stored /\ market' = market
  BY DEF stageVars, dbVars
<1>2. StageOrder' /\ LeaveByNumber' /\ MarketStored' /\ BehindByNumberOnly'
  BY <1>1 DEF Orderly, StageOrder, LeaveByNumber, MarketStored, BehindByNumberOnly
<1>3. Batches'
  BY <1>1 DEF Orderly, Batches
<1>4. StoredListed'
  BY <1>1 DEF Orderly, StoredListed
<1>. QED
  BY <1>2, <1>3, <1>4 DEF Orderly

LEMMA StopsOrderly ==
  ASSUME Sound, Orderly, NEW w \in Workers, Stops(w), UNCHANGED <<stageVars, dbVars>>
  PROVE  Orderly'
<1>1. \A v \in Workers :
        \/ Session(v)' = {} /\ pc'[v] # "read"
        \/ Session(v)' = Session(v) /\ pc'[v] = pc[v]
  BY SoundTypes DEF Stops, Session, TypeOK
<1>. QED
  BY <1>1, QuietKeeps

\* A file is begun, finished or torn: none is newer, and it was not stored.
LEMMA StageOrderly ==
  ASSUME Sound, Orderly, NEW f \in Files, BeginStage(f) \/ FinishStage(f) \/ Tear(f)
  PROVE  Orderly'
<1>1. /\ pc' = pc /\ todo' = todo /\ mine' = mine /\ stored' = stored /\ market' = market
      /\ \A g \in Files : g # f => file'[g] = file[g] /\ seq'[g] = seq[g]
      /\ file[f] \in {"none", "partial"} /\ file'[f] \in {"partial", "torn", "whole"}
  BY SoundTypes DEF TypeOK, BeginStage, FinishStage, Tear, workerVars, dbVars
<1>2. stored[f] = 0 /\ (market # 0 => market # f)
  BY <1>1, SoundTypes DEF Sound, NothingLost, Orderly, MarketStored
<1>3. \A g \in Files : g > f => file[g] = "none"
  BY <1>1, SoundTypes DEF Orderly, StageOrder
<1>4. /\ \A h \in Files : h < f => file[h] \notin {"none", "partial"}
      /\ file'[f] = "partial" => file[f] = "none"
      /\ file'[f] # "partial" => seq' = seq
  <2>1. CASE BeginStage(f)
    BY <1>1, <2>1, SoundTypes DEF BeginStage, TypeOK
  <2>2. CASE FinishStage(f) \/ Tear(f)
    <3>1. file[f] = "partial" /\ file'[f] # "partial" /\ seq' = seq
      BY <2>2, SoundTypes DEF FinishStage, Tear, TypeOK
    <3>. QED
      BY <3>1 DEF Orderly, StageOrder
  <2>. QED
    BY <2>1, <2>2
<1>5. StageOrder'
  <2>. SUFFICES ASSUME NEW g \in Files, NEW h \in Files, file'[g] # "none", h < g
                PROVE  file'[h] \notin {"none", "partial"}
    BY DEF StageOrder
  <2>1. CASE g = f
    BY <1>1, <1>4, <2>1, SoundTypes
  <2>2. CASE g # f
    <3>1. file[g] # "none" /\ h # f
      BY <1>1, <1>3, <2>2
    <3>. QED
      BY <1>1, <3>1 DEF Orderly, StageOrder
  <2>. QED
    BY <2>1, <2>2
<1>6. Batches'
  <2>. SUFFICES ASSUME NEW w \in Workers, NEW g \in Session(w)
                PROVE  /\ file'[g] # "none"
                       /\ \A h \in Files : h < g /\ file'[h] = "whole" => h \in Session(w)
    BY <1>1 DEF Batches, Session
  <2>1. /\ g \in Files /\ file[g] # "none"
        /\ \A h \in Files : h < g /\ file[h] = "whole" => h \in Session(w)
    BY SoundTypes DEF Orderly, Batches, Session
  <2>2. \A h \in Files : h < g => h # f
    BY <1>3, <2>1, SoundTypes
  <2>. QED
    BY <1>1, <2>1, <2>2
<1>7. StoredListed'
  BY <1>1, <1>2 DEF Orderly, StoredListed, Session
<1>8. LeaveByNumber'
  <2>. SUFFICES ASSUME NEW g \in Files, NEW h \in Files, h < g, file'[g] = "drained",
                       file'[h] = "whole"
                PROVE  seq'[g] < seq'[h]
    BY DEF LeaveByNumber
  <2>1. g # f /\ h # f /\ file[g] = "drained"
    BY <1>1, <1>3
  <2>. QED
    BY <1>1, <2>1 DEF Orderly, LeaveByNumber
<1>9. MarketStored'
  BY <1>1 DEF Orderly, MarketStored
<1>10. BehindByNumberOnly'
  <2>. SUFFICES ASSUME NEW g \in Files, stored[g] > 0, market # 0, g > market
                PROVE  seq'[g] < seq'[market]
    BY <1>1 DEF BehindByNumberOnly
  <2>1. g # f /\ market # f /\ market \in Files
    BY <1>2, SoundTypes
  <2>. QED
    BY <1>1, <2>1 DEF Orderly, BehindByNumberOnly
<1>. QED
  BY <1>5, <1>6, <1>7, <1>8, <1>9, <1>10 DEF Orderly

\* A listing has everything whole, and so everything that was stored and is still there.
LEMMA ListOrderly ==
  ASSUME Sound, Orderly, NEW w \in Workers, List(w)
  PROVE  Orderly'
<1>1. /\ UNCHANGED <<stageVars, dbVars>> /\ Session(w)' = Staged
      /\ \A v \in Workers : v # w => Session(v)' = Session(v) /\ pc'[v] = pc[v]
  BY SoundTypes DEF List, Session, TypeOK, IdleEmpty
<1>2. /\ file' = file /\ seq' = seq /\ stored' = stored /\ market' = market
  BY <1>1 DEF stageVars, dbVars
<1>3. StageOrder' /\ LeaveByNumber' /\ MarketStored' /\ BehindByNumberOnly'
  BY <1>2 DEF Orderly, StageOrder, LeaveByNumber, MarketStored, BehindByNumberOnly
<1>4. /\ \A f \in Staged : f \in Files /\ file[f] # "none"
      /\ \A f \in Files : file[f] = "whole" => f \in Staged
  BY DEF Staged
<1>5. Batches'
  BY <1>1, <1>2, <1>4 DEF Orderly, Batches
<1>6. StoredListed'
  BY <1>1, <1>2, <1>4 DEF Orderly, StoredListed
<1>. QED
  BY <1>3, <1>5, <1>6 DEF Orderly

\* The markets row shows the last of the batch by number.
LEMMA CommitOrderly ==
  ASSUME Sound, Orderly, NEW w \in Workers, Commit(w)
  PROVE  Orderly'
<1>1. /\ file' = file /\ seq' = seq /\ todo' = todo /\ mine' = mine /\ pc[w] = "read"
      /\ todo[w] = {} /\ Session(w) = mine[w] /\ Stores(mine[w])
      /\ pc'[w] = "archive" /\ \A v \in Workers : v # w => pc'[v] = pc[v]
  BY SoundTypes DEF Commit, TypeOK, stageVars, Session
<1>2. \A f \in Files : /\ f \in mine[w] => stored'[f] > 0
                       /\ f \notin mine[w] => stored'[f] = stored[f]
                       /\ stored[f] > 0 => stored'[f] > 0
  BY <1>1, SoundTypes DEF Stores
<1>3. StageOrder' /\ LeaveByNumber' /\ Batches'
  BY <1>1 DEF Orderly, StageOrder, LeaveByNumber, Batches, Session
<1>4. \A v \in Workers : pc'[v] # "read"
  BY <1>1 DEF Sound, OnceInv, Alone
<1>5. StoredListed'
  BY <1>4 DEF StoredListed
<1>6. CASE mine[w] = {} /\ market' = market
  <2>1. \A f \in Files : stored'[f] = stored[f]
    BY <1>2, <1>6
  <2>2. MarketStored' /\ BehindByNumberOnly'
    BY <1>1, <1>6, <2>1, SoundTypes DEF Orderly, MarketStored, BehindByNumberOnly
  <2>. QED
    BY <1>3, <1>5, <2>2 DEF Orderly
<1>7. CASE \E m \in mine[w] : IsLast(m, mine[w]) /\ market' = m
  <2>1. PICK m \in mine[w] : IsLast(m, mine[w]) /\ market' = m
    BY <1>7
  <2>2. m \in Files /\ file[m] = "whole"
    BY SoundTypes DEF Sound, OnceInv, Listed
  <2>3. MarketStored'
    BY <1>2, <2>1, <2>2 DEF MarketStored
  <2>4. ASSUME NEW g \in Files, stored'[g] > 0, g > m PROVE seq[g] < seq[m]
    <3>1. CASE g \in mine[w]
      BY <2>1, <2>2, <2>4, <3>1, SoundTypes DEF IsLast, Before
    <3>2. CASE g \notin mine[w]
      <4>1. stored[g] > 0
        BY <1>2, <2>4, <3>2
      <4>2. file[g] = "drained"
        BY <1>1, <3>2, <4>1 DEF Sound, NothingLost, Orderly, StoredListed
      <4>. QED
        BY <2>2, <2>4, <4>2, SoundTypes DEF Orderly, LeaveByNumber
    <3>. QED
      BY <3>1, <3>2
  <2>5. BehindByNumberOnly'
    BY <1>1, <2>1, <2>4 DEF BehindByNumberOnly
  <2>. QED
    BY <1>3, <1>5, <2>3, <2>5 DEF Orderly
<1>. QED
  BY <1>1, <1>6, <1>7 DEF Stores

\* The first of a session leaves: an older one that is whole is in the session too,
\* with a higher number.
LEMMA ArchiveOrderly ==
  ASSUME Sound, Orderly, NEW w \in Workers, Archive(w)
  PROVE  Orderly'
<1>1. PICK f \in mine[w] : /\ IsFirst(f, mine[w]) /\ file[f] = "whole"
                           /\ file' = [file EXCEPT ![f] = "drained"]
                           /\ mine' = [mine EXCEPT ![w] = @ \ {f}]
  BY DEF Archive
<1>2. /\ f \in Files /\ pc' = pc /\ pc[w] = "archive" /\ todo' = todo /\ seq' = seq
      /\ stored' = stored /\ market' = market
  BY SoundTypes DEF Archive, dbVars
<1>3. /\ \A g \in Files : file'[g] = IF g = f THEN "drained" ELSE file[g]
      /\ todo[w] = {} /\ Session(w) = mine[w] /\ Session(w)' = mine[w] \ {f}
      /\ \A v \in Workers : v # w => pc[v] = "off" /\ Session(v)' = Session(v)
  BY <1>1, <1>2, SoundTypes DEF TypeOK, IdleEmpty, Session, Sound, OnceInv, Alone
<1>4. StageOrder'
  BY <1>1, <1>3 DEF Orderly, StageOrder
<1>5. Batches'
  <2>. SUFFICES ASSUME NEW v \in Workers, NEW g \in Session(v)'
                PROVE  /\ file'[g] # "none"
                       /\ \A h \in Files : h < g /\ file'[h] = "whole" => h \in Session(v)'
    BY DEF Batches
  <2>1. g \in Session(v) /\ g \in Files
    BY <1>3, SoundTypes DEF Session
  <2>. QED
    BY <1>1, <1>3, <2>1 DEF Orderly, Batches
<1>6. StoredListed'
  BY <1>2, <1>3 DEF StoredListed
<1>7. ASSUME NEW h \in Files, h < f, file[h] = "whole" PROVE seq[f] < seq[h]
  <2>1. h \in mine[w]
    BY <1>1, <1>3, <1>7 DEF Orderly, Batches
  <2>. QED
    BY <1>1, <1>2, <1>7, <2>1, SoundTypes DEF IsFirst, Before
<1>8. LeaveByNumber'
  BY <1>2, <1>3, <1>7 DEF Orderly, LeaveByNumber
<1>9. MarketStored' /\ BehindByNumberOnly'
  BY <1>2 DEF Orderly, MarketStored, BehindByNumberOnly
<1>. QED
  BY <1>4, <1>5, <1>6, <1>8, <1>9 DEF Orderly

LEMMA OrderlyStep ==
  ASSUME Sound, Orderly, [Next]_vars
  PROVE  Orderly'
<1>1. ASSUME NEW f \in Files, BeginStage(f) \/ FinishStage(f) \/ Tear(f) PROVE Orderly'
  BY <1>1, StageOrderly
<1>2. CASE UNCHANGED vars
  <2>1. UNCHANGED <<stageVars, dbVars>> /\ pc' = pc /\ todo' = todo /\ mine' = mine
    BY <1>2 DEF vars, stageVars, dbVars
  <2>. QED
    BY <2>1, QuietKeeps DEF Session
<1>3. ASSUME NEW w \in Workers, Start(w) PROVE Orderly'
  <2>1. /\ UNCHANGED <<stageVars, dbVars>> /\ todo' = todo /\ mine' = mine /\ Session(w) = {}
        /\ pc'[w] # "read" /\ \A v \in Workers : v # w => pc'[v] = pc[v]
    BY <1>3, SoundTypes DEF Start, Session, TypeOK, IdleEmpty
  <2>. QED
    BY <2>1, QuietKeeps DEF Session
<1>4. ASSUME NEW w \in Workers, Gate(w) \/ Finish(w) PROVE Orderly'
  <2>1. CASE Stops(w)
    BY <1>4, <2>1, StopsOrderly DEF Gate, Finish
  <2>2. CASE ~Stops(w)
    <3>1. /\ UNCHANGED <<stageVars, dbVars>> /\ todo' = todo /\ mine' = mine /\ Session(w) = {}
          /\ pc'[w] # "read" /\ \A v \in Workers : v # w => pc'[v] = pc[v]
      BY <1>4, <2>2, SoundTypes DEF Gate, Finish, Session, TypeOK, IdleEmpty
    <3>. QED
      BY <3>1, QuietKeeps DEF Session
  <2>. QED
    BY <2>1, <2>2
<1>5. ASSUME NEW w \in Workers, List(w) PROVE Orderly'
  BY <1>5, ListOrderly
<1>6. ASSUME NEW w \in Workers, Insert(w) PROVE Orderly'
  <2>1. /\ UNCHANGED <<stageVars, dbVars>> /\ pc' = pc
        /\ \A v \in Workers : Session(v)' = Session(v)
    BY <1>6, SoundTypes DEF Insert, Session, TypeOK
  <2>. QED
    BY <2>1, QuietKeeps
<1>7. ASSUME NEW w \in Workers, Unreadable(w) \/ LockTimeout(w) \/ ArchiveGone(w) \/ Kill(w)
      PROVE  Orderly'
  BY <1>7, StopsOrderly DEF Unreadable, LockTimeout, ArchiveGone, Kill
<1>8. ASSUME NEW w \in Workers, Commit(w) PROVE Orderly'
  BY <1>8, CommitOrderly
<1>9. ASSUME NEW w \in Workers, Archive(w) PROVE Orderly'
  BY <1>9, ArchiveOrderly
<1>. QED
  BY <1>1, <1>2, <1>3, <1>4, <1>5, <1>6, <1>7, <1>8, <1>9 DEF Next, Advance

LEMMA OrderlyInit == Init => Orderly
  BY DEF Init, Orderly, StageOrder, Batches, StoredListed, Session, LeaveByNumber, MarketStored,
         BehindByNumberOnly

\* Under the flock the markets row falls behind a stored file only when that file
\* has a lower number, for any number of files, numbers and deaths.
THEOREM MarketFollowsNumbers ==
  ASSUME Scheduled = Workers
  PROVE  Spec => []BehindByNumberOnly
<1>1. Sound /\ Orderly /\ [Next]_vars => Orderly'
  BY OrderlyStep
<1>2. Orderly => BehindByNumberOnly
  BY DEF Orderly
<1>3. OnceInv /\ NothingLost => Sound
  BY DEF Sound
<1>. QED
  BY <1>1, <1>2, <1>3, OrderlyInit, OnceHolds, NothingIsLost, PTL DEF Spec

-----------------------------------------------------------------------------
(* The drains keep the promise of SnapshotLog *)

Waiting == {f \in Files : file[f] = "whole"}
Gone == {f \in Files : file[f] = "drained"}

\* Steps that neither finish, store nor archive a file, and are no death.
LEMMA LogStutters ==
  ASSUME UNCHANGED <<stored, kills>>,
         \A f \in Files : /\ file'[f] = "whole" <=> file[f] = "whole"
                          /\ file'[f] = "drained" <=> file[f] = "drained"
  PROVE  UNCHANGED <<Waiting, Gone, stored, kills>>
  BY DEF Waiting, Gone

\* A commit stores a batch that leaves nothing older behind.
LEMMA CommitStores ==
  ASSUME Sound, Orderly, NEW w \in Workers, Commit(w)
  PROVE  mine[w] \in SUBSET Waiting /\ Log!Store(mine[w])
<1>1. /\ pc[w] = "read" /\ todo[w] = {} /\ Stores(mine[w]) /\ file' = file /\ kills' = kills
      /\ mine[w] \in SUBSET Files
  BY SoundTypes DEF Commit, stageVars
<1>2. mine[w] \in SUBSET Waiting
  BY <1>1 DEF Waiting, Sound, OnceInv, Listed
<1>3. \A b \in mine[w], c \in Waiting : c < b => c \in mine[w]
  BY <1>1 DEF Orderly, Batches, Session, Waiting
<1>4. \A b \in mine[w] : stored[b] <= kills
  <2>. SUFFICES ASSUME NEW b \in mine[w] PROVE stored[b] <= kills
    OBVIOUS
  <2>1. ~Archiving(b)
    BY <1>1 DEF Archiving, Sound, OnceInv, Alone
  <2>2. b \in Files /\ file[b] # "drained"
    BY <1>1, <1>2 DEF Waiting
  <2>. QED
    BY <2>1, <2>2 DEF Sound, OnceInv, Counted
<1>5. stored' = [b \in Files |-> IF b \in mine[w] THEN stored[b] + 1 ELSE stored[b]]
  BY <1>1 DEF Stores
<1>. QED
  BY <1>1, <1>2, <1>3, <1>4, <1>5 DEF Log!Store, Waiting

LEMMA LogStep ==
  ASSUME Sound, LostInv, Orderly, [Next]_vars
  PROVE  [Log!Next]_<<Waiting, Gone, stored, kills>>
<1>0. file \in [Files -> FileStates] /\ \A w \in Workers : mine[w] \in SUBSET Files
  BY SoundTypes DEF TypeOK
<1>1. ASSUME NEW f \in Files, BeginStage(f) \/ Tear(f)
      PROVE  UNCHANGED <<Waiting, Gone, stored, kills>>
  <2>1. UNCHANGED <<stored, kills>>
    BY <1>1 DEF BeginStage, Tear, dbVars
  <2>2. file[f] \notin {"whole", "drained"} /\ file'[f] \notin {"whole", "drained"}
        /\ \A g \in Files : g # f => file'[g] = file[g]
    BY <1>0, <1>1 DEF BeginStage, Tear
  <2>. QED
    BY <2>1, <2>2, LogStutters
<1>2. ASSUME NEW f \in Files, FinishStage(f) PROVE Log!Stage(f)
  <2>1. /\ file[f] = "partial" /\ file' = [file EXCEPT ![f] = "whole"]
        /\ UNCHANGED <<stored, kills>>
    BY <1>2 DEF FinishStage, dbVars
  <2>2. Waiting' = Waiting \cup {f} /\ Gone' = Gone
    BY <1>0, <2>1 DEF Waiting, Gone
  <2>3. \A c \in Waiting \cup Gone : c < f
    <3>. SUFFICES ASSUME NEW c \in Files, file[c] # "none", c # f, ~(c < f) PROVE FALSE
      BY <2>1 DEF Waiting, Gone
    <3>1. f < c
      BY SoundTypes
    <3>. QED
      BY <2>1, <3>1 DEF Orderly, StageOrder
  <2>. QED
    BY <2>1, <2>2, <2>3 DEF Log!Stage, Waiting, Gone
<1>3. ASSUME NEW w \in Workers, Commit(w) PROVE Log!Next
  BY <1>3, CommitStores DEF Log!Next, Waiting
<1>4. ASSUME NEW w \in Workers, Archive(w) PROVE Log!Next
  <2>1. PICK f \in mine[w] : file[f] = "whole" /\ file' = [file EXCEPT ![f] = "drained"]
    BY <1>4 DEF Archive
  <2>2. pc[w] = "archive" /\ UNCHANGED <<stored, kills>> /\ f \in Files
    BY <1>0, <1>4 DEF Archive, dbVars
  <2>3. stored[f] > 0
    BY <2>2 DEF LostInv, SessionOK
  <2>4. f \in Waiting /\ Waiting' = Waiting \ {f} /\ Gone' = Gone \cup {f}
    BY <1>0, <2>1, <2>2 DEF Waiting, Gone
  <2>5. Log!Leave(f)
    BY <2>2, <2>3, <2>4 DEF Log!Leave, Waiting, Gone
  <2>. QED
    BY <2>4, <2>5 DEF Log!Next, Waiting
<1>5. ASSUME NEW w \in Workers, Kill(w) PROVE Log!Fault
  <2>1. kills' = kills + 1 /\ UNCHANGED <<file, stored>>
    BY <1>5 DEF Kill, stageVars, dbVars
  <2>. QED
    BY <2>1 DEF Log!Fault
<1>6. ASSUME NEW w \in Workers,
             \/ Start(w) \/ Gate(w) \/ List(w) \/ Insert(w) \/ Unreadable(w) \/ LockTimeout(w)
             \/ ArchiveGone(w) \/ Finish(w)
      PROVE  UNCHANGED <<Waiting, Gone, stored, kills>>
  <2>1. UNCHANGED <<file, stored, kills>>
    BY <1>6 DEF Start, Gate, List, Insert, Unreadable, LockTimeout, ArchiveGone, Finish,
         stageVars, dbVars
  <2>. QED
    BY <2>1, LogStutters
<1>7. CASE UNCHANGED vars
  <2>1. UNCHANGED <<file, stored, kills>>
    BY <1>7 DEF vars
  <2>. QED
    BY <2>1, LogStutters
<1>. QED
  BY <1>1, <1>2, <1>3, <1>4, <1>5, <1>6, <1>7 DEF Next, Advance, Log!Next

\* Under the flock the drains implement SnapshotLog, for any number of files,
\* numbers and deaths.
THEOREM DrainsKeepLog ==
  ASSUME Scheduled = Workers
  PROVE  Spec => KeepsLog
<1>1. Sound /\ Orderly /\ [Next]_vars => Orderly'
  BY OrderlyStep
<1>2. Init => Log!Init
  BY DEF Init, Log!Init
<1>3. Sound /\ LostInv /\ Orderly /\ [Next]_vars
        => [Log!Next]_<<Waiting, Gone, stored, kills>>
  BY LogStep
<1>4. OnceInv /\ LostInv => Sound
  BY DEF Sound, LostInv
<1>. QED
  BY <1>1, <1>2, <1>3, <1>4, OrderlyInit, OnceHolds, LostHolds, PTL
     DEF Spec, KeepsLog, Log!Spec, Log!log, Waiting, Gone
=============================================================================
