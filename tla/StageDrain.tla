----------------------------- MODULE StageDrain -----------------------------
(***************************************************************************)
(* The staging directory between the orderbook stream and the database:    *)
(* the watch service writes one uniquely named file per staged book, and   *)
(* drains list the directory, insert every file in one session, commit,    *)
(* and only then move the files to drained/.                               *)
(*                                                                         *)
(* A drain is the one-minute service, the first stage of the decision      *)
(* refresh, or either command started by an operator.  The services take   *)
(* the shared flock; an operator's command relies on db_writer_monitor,    *)
(* which knows a writer by its command line and open database files.       *)
(* Everything is about the files of one ticker: other tickers add files,   *)
(* not behaviour.                                                          *)
(***************************************************************************)
EXTENDS Integers, FiniteSets

CONSTANTS
  Workers,        \* processes that drain the directory
  Scheduled,      \* those started by the services' scripts, under flock
  Refreshers,     \* those that run the decision refresh, not just the drain
  MaxFiles,       \* bound: files ever staged
  MaxNumber,      \* bound: sequence numbers in file names
  MaxTears,       \* bound: times the watch service dies while writing a file
  MaxKills        \* bound: drains that die half-way

ASSUME StageAssumption ==
  /\ Scheduled \subseteq Workers /\ Refreshers \subseteq Workers
  /\ MaxFiles \in Nat /\ MaxNumber \in Nat
  /\ MaxTears \in Nat /\ MaxKills \in Nat

VARIABLES
  file,     \* what is at each file's path
  seq,      \* the sequence number in each file's name
  pc,       \* where each worker is
  todo,     \* files a worker has listed and not yet read
  mine,     \* files a worker has inserted in its session
  stored,   \* committed market_snapshots rows of each file
  market,   \* the file the markets row was last committed from, 0 for none
  tears, kills

vars == <<file, seq, pc, todo, mine, stored, market, tears, kills>>
workerVars == <<pc, todo, mine>>
stageVars == <<file, seq, tears>>
dbVars == <<stored, market>>

\* Files are numbered in the order they are staged.
Files == 1..MaxFiles
FileStates == {"none", "partial", "torn", "whole", "drained"}
Steps == {"off", "gate", "list", "read", "archive", "refresh"}

-----------------------------------------------------------------------------
(* What a worker can tell *)

\* Mistake: only the newest file is drained, as the one that is current.
NewestStaged ==
  {f \in Files : /\ file[f] \in {"partial", "torn", "whole"}
                 /\ \A g \in Files : g > f => file[g] = "none"}

\* glob("*.json") of the directory, drained/ excluded: half-written files too.
Staged == {f \in Files : file[f] \in {"partial", "torn", "whole"}}

\* Mistake: the newest file is taken first.
NewestFirst(f, g) == g < f

\* sorted(): by the zero-padded sequence, then by time_ns.
Before(f, g) == seq[f] < seq[g] \/ (seq[f] = seq[g] /\ f < g)
IsFirst(f, S) == \A g \in S \ {f} : Before(f, g)
IsLast(f, S) == \A g \in S \ {f} : Before(g, f)

\* A session holds SQLite's write lock from its first insert to its commit.
Writing(w) == pc[w] = "read" /\ mine[w] # {}

\* Mistake: the scripts do not take the flock.
NoFlock == TRUE

\* A service's script goes on only with the flock in hand.
FlockFree == \A v \in Scheduled : pc[v] = "off"

\* Mistake: the monitor counts the process that asks.
SeesItself(w) == \E v \in Workers : pc[v] # "off"

\* db_writer_monitor: the refresh's command is a likely writer once it has
\* opened the database; the drain's command is not in the list.
WriterSeen(w) == \E v \in Refreshers \ {w} : pc[v] \notin {"off", "gate"}

-----------------------------------------------------------------------------
(* The watch service *)

\* _stage: write_text creates the file empty, then fills it. The name has the number
\* the book has then, 0 for none. Deltas count it up; a snapshot, a recovered gap and
\* a new connection set it to what the exchange sent, lower or higher.
BeginStage(f) ==
  /\ file[f] = "none" /\ \A g \in Files : g < f => file[g] \notin {"none", "partial"}
  /\ \E n \in 0..MaxNumber : seq' = [seq EXCEPT ![f] = n]
  /\ file' = [file EXCEPT ![f] = "partial"]
  /\ UNCHANGED <<workerVars, dbVars, tears, kills>>

FinishStage(f) ==
  /\ file[f] = "partial"
  /\ file' = [file EXCEPT ![f] = "whole"]
  /\ UNCHANGED <<seq, tears, workerVars, dbVars, kills>>

\* The service dies inside write_text and systemd starts it again.
Tear(f) ==
  /\ file[f] = "partial" /\ tears < MaxTears
  /\ file' = [file EXCEPT ![f] = "torn"]
  /\ tears' = tears + 1
  /\ UNCHANGED <<seq, workerVars, dbVars, kills>>

-----------------------------------------------------------------------------
(* A drain *)

\* Mistake: the next start finds the files of the last one.
StopsWithLists(w) == pc' = [pc EXCEPT ![w] = "off"] /\ UNCHANGED <<todo, mine>>

\* The process ends; an open session is rolled back, the flock is released.
Stops(w) ==
  /\ pc' = [pc EXCEPT ![w] = "off"]
  /\ todo' = [todo EXCEPT ![w] = {}]
  /\ mine' = [mine EXCEPT ![w] = {}]

Start(w) ==
  /\ pc[w] = "off" /\ (w \in Scheduled => FlockFree)
  /\ pc' = [pc EXCEPT ![w] = "gate"]
  /\ UNCHANGED <<todo, mine, stageVars, dbVars, kills>>

\* The writer gate: BLOCKED_ACTIVE_WRITER, or on to the directory.
Gate(w) ==
  /\ pc[w] = "gate"
  /\ IF WriterSeen(w) THEN Stops(w)
     ELSE pc' = [pc EXCEPT ![w] = "list"] /\ UNCHANGED <<todo, mine>>
  /\ UNCHANGED <<stageVars, dbVars, kills>>

List(w) ==
  /\ pc[w] = "list"
  /\ pc' = [pc EXCEPT ![w] = "read"]
  /\ todo' = [todo EXCEPT ![w] = Staged]
  /\ UNCHANGED <<mine, stageVars, dbVars, kills>>

\* insert_market_snapshot of the next file, once no other session writes.
Insert(w) ==
  /\ pc[w] = "read"
  /\ \E f \in todo[w] :
       /\ IsFirst(f, todo[w]) /\ file[f] = "whole"
       /\ \A v \in Workers \ {w} : ~Writing(v)
       /\ todo' = [todo EXCEPT ![w] = @ \ {f}]
       /\ mine' = [mine EXCEPT ![w] = @ \cup {f}]
  /\ UNCHANGED <<pc, stageVars, dbVars, kills>>

\* Mistake: a file that cannot be parsed is skipped and archived with the rest.
SkipsUnreadable(w) ==
  /\ pc[w] = "read"
  /\ \E f \in todo[w] :
       /\ IsFirst(f, todo[w]) /\ file[f] # "whole"
       /\ todo' = [todo EXCEPT ![w] = @ \ {f}]
       /\ mine' = [mine EXCEPT ![w] = @ \cup {f}]
  /\ UNCHANGED <<pc, stageVars, dbVars, kills>>

\* The next file is half-written, or another drain has moved it: raise.
Unreadable(w) ==
  /\ pc[w] = "read"
  /\ \E f \in todo[w] : IsFirst(f, todo[w]) /\ file[f] # "whole"
  /\ Stops(w)
  /\ UNCHANGED <<stageVars, dbVars, kills>>

\* "database is locked" after the busy timeout: rollback and raise.
LockTimeout(w) ==
  /\ pc[w] = "read" /\ todo[w] # {} /\ mine[w] = {}
  /\ \E v \in Workers \ {w} : Writing(v)
  /\ Stops(w)
  /\ UNCHANGED <<stageVars, dbVars, kills>>

\* One commit stores every inserted file; the last one is in the markets row.
Stores(S) ==
  /\ stored' = [f \in Files |-> IF f \in S THEN stored[f] + 1 ELSE stored[f]]
  /\ \/ S = {} /\ UNCHANGED market
     \/ \E f \in S : IsLast(f, S) /\ market' = f

Commit(w) ==
  /\ pc[w] = "read" /\ todo[w] = {}
  /\ Stores(mine[w])
  /\ pc' = [pc EXCEPT ![w] = "archive"]
  /\ UNCHANGED <<todo, mine, stageVars, kills>>

\* path.replace of the next committed file.
Archive(w) ==
  /\ pc[w] = "archive"
  /\ \E f \in mine[w] :
       /\ IsFirst(f, mine[w]) /\ file[f] = "whole"
       /\ file' = [file EXCEPT ![f] = "drained"]
       /\ mine' = [mine EXCEPT ![w] = @ \ {f}]
  /\ UNCHANGED <<pc, todo, seq, tears, dbVars, kills>>

\* Another drain has moved it already: FileNotFoundError after the commit.
ArchiveGone(w) ==
  /\ pc[w] = "archive"
  /\ \E f \in mine[w] : IsFirst(f, mine[w]) /\ file[f] # "whole"
  /\ Stops(w)
  /\ UNCHANGED <<stageVars, dbVars, kills>>

\* A drain is over; a refresh keeps the flock for the rest of its cycle.
Finish(w) ==
  /\ \/ /\ pc[w] = "archive" /\ mine[w] = {} /\ w \in Refreshers
        /\ pc' = [pc EXCEPT ![w] = "refresh"] /\ UNCHANGED <<todo, mine>>
     \/ /\ pc[w] = "archive" /\ mine[w] = {} /\ w \notin Refreshers
        /\ Stops(w)
     \/ pc[w] = "refresh" /\ Stops(w)
  /\ UNCHANGED <<stageVars, dbVars, kills>>

\* A service's time limit, or a crash.
Kill(w) ==
  /\ pc[w] # "off" /\ kills < MaxKills
  /\ kills' = kills + 1
  /\ Stops(w)
  /\ UNCHANGED <<stageVars, dbVars>>

-----------------------------------------------------------------------------
Init ==
  /\ file = [f \in Files |-> "none"]
  /\ seq = [f \in Files |-> 0]
  /\ pc = [w \in Workers |-> "off"]
  /\ todo = [w \in Workers |-> {}] /\ mine = [w \in Workers |-> {}]
  /\ stored = [f \in Files |-> 0] /\ market = 0
  /\ tears = 0 /\ kills = 0

\* Everything a started worker does by itself.
Advance(w) ==
  \/ Gate(w) \/ List(w) \/ Insert(w) \/ Unreadable(w) \/ LockTimeout(w)
  \/ Commit(w) \/ Archive(w) \/ ArchiveGone(w) \/ Finish(w)

Next ==
  \/ \E f \in Files : BeginStage(f) \/ FinishStage(f) \/ Tear(f)
  \/ \E w \in Workers : Start(w) \/ Advance(w) \/ Kill(w)

Spec == Init /\ [][Next]_vars

\* A started worker runs on, the timers keep starting workers, and the watch
\* service finishes the file it is writing unless it dies.
FairSpec ==
  /\ Spec
  /\ \A f \in 1..MaxFiles : WF_vars(FinishStage(f) \/ Tear(f))
  /\ \A w \in Workers : WF_vars(Advance(w))
  /\ WF_vars(\E w \in Scheduled : Start(w))

-----------------------------------------------------------------------------
(* Properties *)

IdleEmpty ==
  \A w \in Workers :
    /\ pc[w] # "read" => todo[w] = {}
    /\ pc[w] \notin {"read", "archive"} => mine[w] = {}

\* The state has its types, and no worker keeps files from one drain to the next.
TypeOK ==
  /\ file \in [Files -> FileStates]
  /\ seq \in [Files -> 0..MaxNumber]
  /\ pc \in [Workers -> Steps]
  /\ todo \in [Workers -> SUBSET Files] /\ mine \in [Workers -> SUBSET Files]
  /\ IdleEmpty
  /\ stored \in [Files -> Nat] /\ market \in 0..MaxFiles
  /\ tears \in 0..MaxTears /\ kills \in 0..MaxKills

\* A file leaves the directory only after its snapshot is in the database,
\* whoever drains and wherever a drain dies, and a file that was never whole
\* is never stored.
NothingLost ==
  \A f \in Files :
    /\ file[f] = "drained" => stored[f] > 0
    /\ stored[f] > 0 => file[f] \in {"whole", "drained"}

\* When every drain takes the flock, a snapshot is stored a second time only
\* because a drain died between its commit and its last archived file: at most
\* once per such death.
DuplicatesOnlyFromKills == \A f \in Files : stored[f] <= 1 + kills

\* When every drain takes the flock, only the numbers in the names can put the
\* markets row behind: a stored file staged after the row's has a lower number,
\* even when files are drained again after a crash. While the numbers do not
\* fall, the row shows the newest stored file.
BehindByNumberOnly ==
  \A f \in Files : stored[f] > 0 /\ market # 0 /\ f > market => seq[f] < seq[market]

\* A staged book is drained in the end, unless the watch service left a torn
\* file behind: that one file makes every later drain raise.
DrainedUnlessTorn ==
  \A f \in 1..MaxFiles :
    file[f] = "whole" ~> (file[f] = "drained" \/ \E g \in Files : file[g] = "torn")

\* The README: staged snapshots are persisted "only through a guarded single
\* writer", so never two sessions have files to insert.
SingleWriter ==
  Cardinality({w \in Workers : pc[w] = "read" /\ todo[w] \cup mine[w] # {}}) <= 1

\* The services' drains keep the promise of SnapshotLog: books are stored in whole
\* batches that leave nothing older behind, and leave only after that; only
\* a death makes one be stored again.
Log == INSTANCE SnapshotLog WITH
  Books <- Files,
  waiting <- {f \in Files : file[f] = "whole"},
  gone <- {f \in Files : file[f] = "drained"},
  copies <- stored,
  faults <- kills
KeepsLog == Log!Spec
=============================================================================
