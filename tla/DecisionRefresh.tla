--------------------------- MODULE DecisionRefresh ---------------------------
(***************************************************************************)
(* The GH-2 decision refresh, and the gate that lets an operator turn      *)
(* paper orders on.                                                        *)
(*                                                                         *)
(* Every quarter of an hour a service fetches crypto quotes into a file,   *)
(* then runs the refresh: it imports the file in the one transaction of    *)
(* the cycle, commits, publishes the manifest of candidates, moves the     *)
(* file away, adds a row to the soak history and writes the report.  An    *)
(* operator may run the refresh by hand: only db_writer_monitor stands     *)
(* between the two, and it sees a refresh once that has the database open. *)
(*                                                                         *)
(* There are two services, and a host runs one.  The cloud's script ends   *)
(* with the step that failed; after the refresh, without the writer lock,  *)
(* its diagnostics read the report and write it back.  The local loop goes *)
(* on after a step that failed, and counts its healthy cycles in a health  *)
(* file, which the gate believes before the report where there is one.     *)
(*                                                                         *)
(* One symbol of one source is staged, so there is one file.  Whether a    *)
(* cycle is healthy is left open; how books reach the database is module   *)
(* StageDrain.  The clock ticks once in a quarter of an hour.              *)
(***************************************************************************)
EXTENDS Integers, Sequences, FiniteSets

CONSTANTS
  Service,      \* the run of the timer's service
  Operators,    \* runs of the refresh by hand
  Required,     \* required_cycles: 24, well below the 96 rows the history keeps
  MaxAge,       \* decision_stale_minutes: 35
  MaxFetches, MaxCycles, MaxTime \* bounds

Runs == {Service} \cup Operators

ASSUME RefreshAssumption ==
  /\ Service \notin Operators
  /\ Required \in Nat \ {0}
  /\ MaxAge \in Nat /\ MaxFetches \in Nat /\ MaxCycles \in Nat /\ MaxTime \in Nat

VARIABLES
  local,     \* the service is the local loop, not the cloud's script
  file,      \* the staged quote file
  fetches,   \* fetches that brought quotes so far
  stored,    \* fetches whose quotes a committed transaction imported
  archived,  \* fetches whose file was moved to drained/
  pc,
  cycle,     \* the cycle each run is
  took,      \* the file as the run's drain read it
  payload,   \* the report a run has in memory
  seen,      \* the rows a run read from the soak history
  cycles,    \* cycles begun
  committed, \* the cycle committed last
  manifest,  \* the cycle whose candidates are published
  rows,      \* the rows that refreshes put in the soak history, in their order
  history,   \* which of them gh2_paper_only_soak_history.jsonl has, unless Spoiled
  report,    \* gh2_active_candidate_refresh.json
  health,    \* fixed_rate_health_status.json
  now,
  alone,     \* history: runs during which no other refresh had the database open
  settled,   \* history: the cycle committed last went on to its end, alone
  byHand,    \* history: refreshes begun by hand
  repeats,   \* history: commits of quotes that were stored before
  mishaps,   \* history: deaths between commit and archive, databases opened at once
  since      \* history: the rows there were when a cycle of the loop last failed

vars == <<local, file, fetches, stored, archived, pc, cycle, took, payload, seen, cycles,
          committed, manifest, rows, history, report, health, now, alone, settled, byHand,
          repeats, mishaps, since>>
quoteVars == <<file, fetches, stored, archived>>
memoryVars == <<cycle, took, payload, seen>>
soakVars == <<rows, history>>
outputVars == <<committed, manifest, soakVars, report>>
healthVars == <<health, since>>
ghostVars == <<alone, settled, byHand, repeats, mishaps>>

NoFile == [state |-> "none", fetch |-> 0]
Torn == [state |-> "torn", fetch |-> 0]
Staged(f) == [state |-> "whole", fetch |-> f]  \* fetch 0 brought no quotes
NoReport == [cycle |-> 0, healthy |-> FALSE, complete |-> FALSE, at |-> 0]
NoHealth == [status |-> "NONE", streak |-> 0, failed |-> FALSE]

\* The steps during which a refresh has the database open.
Core == {"drain", "commit", "publish", "archive", "record", "replace", "report"}
Steps ==
  {"idle", "stage", "staging", "lock", "gate", "open", "diagnose", "append", "finish"} \cup Core

Goes(r, step) == pc' = [pc EXCEPT ![r] = step]

InLoop(r) == local /\ r = Service

Forgets(r) ==
  /\ cycle' = [cycle EXCEPT ![r] = 0]
  /\ took' = [took EXCEPT ![r] = NoFile]
  /\ payload' = [payload EXCEPT ![r] = NoReport]
  /\ seen' = [seen EXCEPT ![r] = {}]

\* The process is gone, and what it had in memory; the loop goes on.
Ends(r) == Goes(r, IF InLoop(r) THEN "finish" ELSE "idle") /\ Forgets(r)

\* run_health_stage notes the status of a stage.
Fails(r) == health' = [health EXCEPT !.failed = @ \/ InLoop(r)]

\* Mistake: a file without quotes counts as one with.
AnyQuotes(f) == {f}

\* The fetch whose quotes a file has, if it has any.
Quotes(f) == {f} \ {0}

-----------------------------------------------------------------------------
(* Staging the quotes *)

\* The loop opens the cycle in the health file, and keeps the count.
Begin(r) ==
  /\ pc[r] = "idle" /\ cycles < MaxCycles
  /\ cycles' = cycles + 1 /\ cycle' = [cycle EXCEPT ![r] = cycles + 1]
  /\ Goes(r, IF r = Service THEN "stage" ELSE "gate")
  /\ byHand' = IF r = Service THEN byHand ELSE byHand + 1
  /\ health' = IF InLoop(r) THEN [health EXCEPT !.status = "RUNNING", !.failed = FALSE]
               ELSE health
  /\ UNCHANGED <<local, quoteVars, took, payload, seen, outputVars, now, alone, settled,
                 repeats, mishaps, since>>

\* _write_json truncates the file of the last cycle in place, ...
StageBegins ==
  /\ pc[Service] = "stage"
  /\ file' = Torn /\ Goes(Service, "staging")
  /\ UNCHANGED <<local, fetches, stored, archived, memoryVars, cycles, outputVars,
                 healthVars, now, ghostVars>>

\* ... and fills it with the quotes, or with none when every attempt failed.
\* A file that was moved away meanwhile is filled where it is now.
StageEnds ==
  /\ pc[Service] = "staging"
  /\ \E good \in BOOLEAN :
       LET fetch == IF good THEN fetches + 1 ELSE 0 IN
       /\ fetch <= MaxFetches
       /\ fetches' = IF good THEN fetch ELSE fetches
       /\ \/ file = NoFile /\ archived' = archived \cup Quotes(fetch) /\ UNCHANGED file
          \/ file # NoFile /\ file' = Staged(fetch) /\ UNCHANGED archived
       /\ IF good THEN UNCHANGED health ELSE Fails(Service)
  /\ Goes(Service, "lock")
  /\ UNCHANGED <<local, stored, memoryVars, cycles, outputVars, now, ghostVars, since>>

-----------------------------------------------------------------------------
(* The two gates *)

\* db_writer_monitor, in the cloud's script and again in the refresh.
WriterSeen(r) == \E o \in Runs \ {r} : pc[o] \in Core

\* DEFERRED: the flock stays busy, or the monitor sees a writer.
Defers ==
  /\ pc[Service] = "lock"
  /\ Ends(Service) /\ Fails(Service)
  /\ UNCHANGED <<local, quoteVars, cycles, outputVars, now, ghostVars, since>>

Locks ==
  /\ pc[Service] = "lock" /\ (local \/ ~WriterSeen(Service))
  /\ Goes(Service, "gate")
  /\ UNCHANGED <<local, quoteVars, memoryVars, cycles, outputVars, healthVars, now, ghostVars>>

\* BLOCKED_ACTIVE_WRITER: the command fails without a report.
Refused(r) ==
  /\ pc[r] = "gate" /\ WriterSeen(r)
  /\ Ends(r) /\ Fails(r)
  /\ UNCHANGED <<local, quoteVars, cycles, outputVars, now, ghostVars, since>>

Passes(r) ==
  /\ pc[r] = "gate" /\ ~WriterSeen(r)
  /\ Goes(r, "open")
  /\ UNCHANGED <<local, quoteVars, memoryVars, cycles, outputVars, healthVars, now, ghostVars>>

\* init_db: from here on the monitor sees the run.
Opens(r) ==
  /\ pc[r] = "open"
  /\ Goes(r, "drain")
  /\ alone' = IF WriterSeen(r) THEN {} ELSE {r}
  /\ mishaps' = IF WriterSeen(r) THEN mishaps + 1 ELSE mishaps
  /\ UNCHANGED <<local, quoteVars, memoryVars, cycles, outputVars, healthVars, now, settled,
                 byHand, repeats>>

-----------------------------------------------------------------------------
(* The transaction and what follows it *)

\* Mistake: the drain moves the file away itself, before the commit.
MovesAtOnce == file' = NoFile /\ archived' = archived \cup Quotes(file.fetch)

\* The drain leaves the file where it is.
LeavesFile == UNCHANGED <<file, archived>>

\* The quotes are read and inserted: the first write takes SQLite's lock.  A
\* torn file, or a lock that is not let go in time, raises: see Die.
Drain(r) ==
  /\ pc[r] = "drain" /\ file # Torn
  /\ \A o \in Runs \ {r} : pc[o] # "commit"
  /\ took' = [took EXCEPT ![r] = file]
  /\ LeavesFile
  /\ Goes(r, "commit")
  /\ UNCHANGED <<local, fetches, stored, cycle, payload, seen, cycles, outputVars, healthVars,
                 now, ghostVars>>

\* The one commit of the cycle.
Commit(r) ==
  LET f == took[r].fetch IN
  /\ pc[r] = "commit"
  /\ stored' = stored \cup Quotes(f)
  /\ committed' = cycle[r]
  /\ settled' = FALSE
  /\ repeats' = repeats + Cardinality(Quotes(f) \cap stored)
  /\ Goes(r, "publish")
  /\ UNCHANGED <<local, file, fetches, archived, memoryVars, cycles, manifest, soakVars,
                 report, healthVars, now, alone, byHand, mishaps>>

\* Mistake: a manifest without candidates is not written.
PublishesSome(r) == manifest' \in {manifest, cycle[r]}

PublishesAll(r) == manifest' = cycle[r]

\* _write_candidate_manifest, by atomic rename.
Publish(r) ==
  /\ pc[r] = "publish"
  /\ PublishesAll(r)
  /\ Goes(r, "archive")
  /\ UNCHANGED <<local, quoteVars, memoryVars, cycles, committed, soakVars, report,
                 healthVars, now, ghostVars>>

\* Mistake: files that were drained stay.
MovesNothing(r) == FALSE

Moves(r) == took[r] # NoFile /\ file # NoFile

\* _archive_drained_files moves whatever now has the name of the file drained.
Archive(r) ==
  /\ pc[r] = "archive"
  /\ IF Moves(r)
     THEN file' = NoFile /\ archived' = archived \cup Quotes(file.fetch)
     ELSE UNCHANGED <<file, archived>>
  /\ took' = [took EXCEPT ![r] = NoFile]
  /\ Goes(r, "record")
  /\ UNCHANGED <<local, fetches, stored, cycle, payload, seen, cycles, outputVars, healthVars,
                 now, ghostVars>>

\* consecutive >= required_cycles, counted back from the last of the rows in
\* S.  That a paper-ready candidate was seen, which only closes the gate more
\* often, is left out.
Complete(S, all) ==
  \E j \in S : LET last == {i \in S : i >= j} IN
    Cardinality(last) = Required /\ \A i \in last : all[i].healthy

\* All refreshes write to one temporary file: what a run beside another moves
\* into place may be the other's, cut short, or a mixture.
Spoiled == rows # <<>> /\ ~rows[Len(rows)].alone

\* _record_soak_cycle reads the file, ...
ReadHistory(r) ==
  /\ pc[r] = "record"
  /\ history' \in IF Spoiled THEN SUBSET (1..Len(rows)) ELSE {history}
  /\ seen' = [seen EXCEPT ![r] = history']
  /\ Goes(r, "replace")
  /\ UNCHANGED <<local, quoteVars, cycle, took, payload, cycles, committed, manifest, rows,
                 report, healthVars, now, ghostVars>>

Row(r, healthy) ==
  [cycle |-> cycle[r], by |-> r, healthy |-> healthy, alone |-> r \in alone, at |-> now]

\* ... and puts what it read and its own row in its place, whatever the file has
\* by then.
Replace(r) ==
  /\ pc[r] = "replace"
  /\ \E healthy \in BOOLEAN :
       LET all == Append(rows, Row(r, healthy))
           mine == seen[r] \cup {Len(all)} IN
       /\ rows' = all
       /\ history' = mine
       /\ payload' = [payload EXCEPT ![r] =
            [cycle |-> cycle[r], healthy |-> healthy, complete |-> Complete(mine, all),
             at |-> now]]
  /\ seen' = [seen EXCEPT ![r] = {}]
  /\ Goes(r, "report")
  /\ UNCHANGED <<local, quoteVars, cycle, took, cycles, committed, manifest, report,
                 healthVars, now, ghostVars>>

\* Another run moved the temporary file away, this run's row in it: the replace
\* raises, and the row stays.
Beaten(r) ==
  /\ pc[r] = "replace" /\ r \notin alone
  /\ \E healthy \in BOOLEAN : rows' = Append(rows, Row(r, healthy))
  /\ Ends(r) /\ Fails(r)
  /\ UNCHANGED <<local, quoteVars, cycles, committed, manifest, history, report, now,
                 ghostVars, since>>

\* _write_cycle_artifacts; the cloud's service goes on to its diagnostics.
Report(r) ==
  /\ pc[r] = "report"
  /\ report' = payload[r]
  /\ settled' = (r \in alone)
  /\ IF r = Service /\ ~local THEN Goes(r, "diagnose") /\ UNCHANGED memoryVars ELSE Ends(r)
  /\ UNCHANGED <<local, quoteVars, cycles, committed, manifest, soakVars, healthVars, now,
                 alone, byHand, repeats, mishaps>>

-----------------------------------------------------------------------------
(* Diagnostics, the health file, deaths and time *)

\* append_weather_identity_shadow reads the report, asks the network ...
Diagnose ==
  /\ pc[Service] = "diagnose"
  /\ payload' = [payload EXCEPT ![Service] = report]
  /\ Goes(Service, "append")
  /\ UNCHANGED <<local, quoteVars, cycle, took, seen, cycles, outputVars, healthVars, now,
                 ghostVars>>

\* Mistake: the report written back is stamped with the time of the writing.
StampsAgain == [payload[Service] EXCEPT !.at = now]

\* ... and writes the report back as it was, with a section more.
WritesBack == payload[Service]

AppendShadow ==
  /\ pc[Service] = "append"
  /\ report' = WritesBack
  /\ Ends(Service)
  /\ UNCHANGED <<local, quoteVars, cycles, committed, manifest, soakVars, healthVars, now,
                 ghostVars>>

\* The loop closes the cycle: healthy, if no stage failed, those included that
\* are not modelled.
Finishes ==
  /\ pc[Service] = "finish"
  /\ \E good \in BOOLEAN :
       /\ good => ~health.failed
       /\ health' = [status |-> IF good THEN "HEALTHY" ELSE "DEGRADED",
                     streak |-> IF good THEN health.streak + 1 ELSE 0, failed |-> FALSE]
       /\ since' = IF good THEN since ELSE Len(rows)
  /\ Goes(Service, "idle")
  /\ UNCHANGED <<local, quoteVars, memoryVars, cycles, outputVars, now, ghostVars>>

\* Mistake: the cloud's script too goes on when staging failed.
EitherGoesOn(r) == r = Service /\ pc[r] \in {"stage", "staging"}

\* set +e: the loop goes on to the refresh when staging failed.
GoesOn(r) == InLoop(r) /\ pc[r] \in {"stage", "staging"}

\* Deaths between the commit and the archive are mishaps.
Mishap(r) == mishaps' = IF pc[r] \in {"publish", "archive"} THEN mishaps + 1 ELSE mishaps

\* A timeout, a signal or an exception ends the step, and the cloud's script,
\* under set -e, with it.
Die(r) ==
  /\ pc[r] \notin {"idle", "finish"}
  /\ IF GoesOn(r) THEN Goes(r, "lock") /\ UNCHANGED memoryVars ELSE Ends(r)
  /\ Fails(r) /\ Mishap(r)
  /\ UNCHANGED <<local, quoteVars, cycles, outputVars, now, alone, settled, byHand, repeats,
                 since>>

\* The loop is killed wherever it is, and leaves the health file as it is.
LoopDies ==
  /\ local /\ pc[Service] # "idle"
  /\ Goes(Service, "idle") /\ Forgets(Service) /\ Mishap(Service)
  /\ UNCHANGED <<local, quoteVars, cycles, outputVars, healthVars, now, alone, settled,
                 byHand, repeats>>

Tick ==
  /\ now < MaxTime /\ now' = now + 1
  /\ UNCHANGED <<local, quoteVars, pc, memoryVars, cycles, outputVars, healthVars, ghostVars>>

-----------------------------------------------------------------------------
Init ==
  /\ local \in BOOLEAN
  /\ file = NoFile /\ fetches = 0 /\ stored = {} /\ archived = {}
  /\ pc = [r \in Runs |-> "idle"] /\ cycle = [r \in Runs |-> 0]
  /\ took = [r \in Runs |-> NoFile] /\ payload = [r \in Runs |-> NoReport]
  /\ seen = [r \in Runs |-> {}]
  /\ cycles = 0 /\ committed = 0 /\ manifest = 0
  /\ rows = <<>> /\ history = {} /\ report = NoReport /\ health = NoHealth
  /\ now = 0
  /\ alone = {} /\ settled = TRUE
  /\ byHand = 0 /\ repeats = 0 /\ mishaps = 0 /\ since = 0

Refresh(r) ==
  \/ Begin(r) \/ Refused(r) \/ Passes(r) \/ Opens(r) \/ Drain(r) \/ Commit(r)
  \/ Publish(r) \/ Archive(r) \/ ReadHistory(r) \/ Replace(r) \/ Beaten(r)
  \/ Report(r) \/ Die(r)

Next ==
  \/ \E r \in Runs : Refresh(r)
  \/ StageBegins \/ StageEnds \/ Defers \/ Locks \/ Diagnose \/ AppendShadow
  \/ Finishes \/ LoopDies \/ Tick

Spec == Init /\ [][Next]_vars

-----------------------------------------------------------------------------
(* Properties *)

Files == [state : {"none", "torn", "whole"}, fetch : 0..MaxFetches]
Rows == [cycle : Nat, by : Runs, healthy : BOOLEAN, alone : BOOLEAN, at : Nat]
Reports == [cycle : Nat, healthy : BOOLEAN, complete : BOOLEAN, at : Nat]
Healths == [status : {"NONE", "RUNNING", "HEALTHY", "DEGRADED"}, streak : Nat,
            failed : BOOLEAN]

\* The types of the variables; only a whole file has quotes.
TypeOK ==
  /\ local \in BOOLEAN
  /\ file \in Files /\ (file.state # "whole" => file.fetch = 0)
  /\ fetches \in 0..MaxFetches
  /\ stored \in SUBSET (1..MaxFetches) /\ archived \in SUBSET (1..MaxFetches)
  /\ pc \in [Runs -> Steps] /\ cycle \in [Runs -> Nat]
  /\ took \in [Runs -> Files] /\ payload \in [Runs -> Reports]
  /\ seen \in [Runs -> SUBSET (1..Len(rows))]
  /\ cycles \in Nat /\ committed \in Nat /\ manifest \in Nat
  /\ rows \in Seq(Rows) /\ history \in SUBSET (1..Len(rows)) /\ report \in Reports
  /\ health \in Healths /\ now \in Nat
  /\ alone \in SUBSET Runs /\ settled \in BOOLEAN
  /\ byHand \in Nat /\ repeats \in Nat /\ mishaps \in Nat /\ since \in 0..Len(rows)

\* gh4-paper-activation-preflight believes the health file where it finds one
\* beside the default paths, at any age, ...
HealthGate == health.status = "HEALTHY" /\ health.streak >= Required

\* ... and the report elsewhere, as far as the report decides.
ReportGate == report.healthy /\ report.complete /\ now - report.at <= MaxAge

Streak(i) == (i - Required + 1)..i

\* What earns the report's gate: a healthy row of the cycle, not too old, and
\* healthy rows before it, unless one of them was put beside another refresh.
Earned(k) ==
  \E i \in 1..Len(rows) :
    /\ rows[i].cycle = k /\ rows[i].healthy /\ now - rows[i].at <= MaxAge
    /\ i >= Required
    /\ (\A j \in Streak(i) : rows[j].alone) => \A j \in Streak(i) : rows[j].healthy

\* The rows the loop put in the history since a cycle of it last failed.
Counted == {i \in 1..Len(rows) : i > since /\ rows[i].by = Service}

\* Whoever wrote the report last, a refresh that raced another or diagnostics
\* that read it long ago, its gate is open only for a cycle that was recorded as
\* healthy at most MaxAge ago, at the end of a streak of healthy cycles if each
\* of them was recorded alone.  The health file's is open only when that many
\* cycles of the loop were recorded, healthy or not, since one of them failed.
GateEarned ==
  /\ ReportGate => Earned(report.cycle)
  /\ HealthGate => Cardinality(Counted) >= Required

\* Quotes are moved away without having been imported at most once for each
\* refresh by hand: neither service alone ever loses what it fetched.
QuotesLostOnlyByHand == Cardinality(archived \ stored) <= byHand

\* Quotes are imported again at most once for each refresh that died between its
\* commit and moving the file, or that opened the database beside another.
QuotesRepeatOnlyAfterMishaps == repeats <= mishaps

\* The refresh of the cloud's service never meets a torn file, wherever an earlier
\* staging was killed: what raises on one is a refresh by hand, or the loop's.
ServiceReadsWhole ==
  ~local /\ pc[Service] \in {"lock", "gate", "open", "drain"} => file # Torn

\* Once the cycle committed last has ended without another beside it, the
\* manifest and the last row of the history are of that cycle: what died or was
\* refused meanwhile has left no trace in them.
OutputsAgree ==
  settled => /\ manifest = committed
             /\ rows # <<>> => Len(rows) \in history /\ rows[Len(rows)].cycle = committed
=============================================================================
