------------------------ MODULE DecisionRefreshProofs ------------------------
(***************************************************************************)
(* What holds of the decision refresh for any number of operators, cycles  *)
(* and fetches: types, that the cloud's service reads whole files, that    *)
(* what a refresh puts out agrees once it has ended alone, that the gate   *)
(* to paper orders is open only for what the history was given, that each  *)
(* loss of quotes needs a refresh by hand, and each repeat a mishap.       *)
(***************************************************************************)
EXTENDS DecisionRefresh, FiniteSetTheorems, TLAPS

USE RefreshAssumption
    DEF quoteVars, memoryVars, soakVars, outputVars, healthVars, ghostVars

-----------------------------------------------------------------------------
(* Types *)

\* Where a run is, and what it has in memory.
RunsTyped ==
  /\ pc \in [Runs -> Steps] /\ cycle \in [Runs -> Nat]
  /\ took \in [Runs -> Files] /\ payload \in [Runs -> Reports]
  /\ seen \in [Runs -> SUBSET (1..Len(rows))]

LEMMA NoneTyped == NoFile \in Files /\ Torn \in Files /\ NoReport \in Reports
  BY DEF NoFile, Torn, NoReport, Files, Reports

LEMMA EndsTyped ==
  ASSUME RunsTyped, NEW r \in Runs, rows' = rows,
         Ends(r) \/ (Goes(r, "idle") /\ Forgets(r))
  PROVE  RunsTyped'
<1>1. pc' \in [Runs -> Steps]
  BY DEF RunsTyped, Ends, Goes, Steps
<1>2. Forgets(r)
  BY DEF Ends
<1>3. cycle' \in [Runs -> Nat] /\ took' \in [Runs -> Files] /\ payload' \in [Runs -> Reports]
  BY <1>2, NoneTyped DEF RunsTyped, Forgets
<1>4. seen' \in [Runs -> SUBSET (1..Len(rows))]
  BY <1>2 DEF RunsTyped, Forgets
<1>. QED
  BY <1>1, <1>3, <1>4 DEF RunsTyped

\* Noting the status of a stage.
LEMMA HealthTyped ==
  ASSUME health \in Healths, NEW r, Fails(r)
  PROVE  health' \in Healths
  BY DEF Fails, Healths, InLoop

LEMMA GoesTyped ==
  ASSUME RunsTyped, NEW r \in Runs, NEW step \in Steps, Goes(r, step)
  PROVE  pc' \in [Runs -> Steps]
  BY DEF RunsTyped, Goes

LEMMA StepsNamed ==
  /\ {"idle", "stage", "staging", "lock", "gate", "open", "diagnose", "append", "finish"}
       \subseteq Steps
  /\ {"drain", "commit", "publish", "archive", "record", "replace", "report"} \subseteq Steps
  /\ Service \in Runs
  BY DEF Steps, Core, Runs

LEMMA OneAtMost ==
  ASSUME NEW f, NEW S
  PROVE  Cardinality(Quotes(f) \cap S) \in {0, 1}
<1>1. Quotes(f) \cap S = {} \/ Quotes(f) \cap S = {f}
  BY DEF Quotes
<1>. QED
  BY <1>1, FS_EmptySet, FS_Singleton

LEMMA QuotesTyped ==
  ASSUME NEW f \in 0..MaxFetches, NEW S \in SUBSET (1..MaxFetches)
  PROVE  S \cup Quotes(f) \in SUBSET (1..MaxFetches)
  BY DEF Quotes

LEMMA CountTyped ==
  ASSUME NEW n \in Nat, NEW f, NEW S
  PROVE  n + Cardinality(Quotes(f) \cap S) \in Nat
<1>1. \A k \in {0, 1} : n + k \in Nat
  OBVIOUS
<1>. QED
  BY <1>1, OneAtMost

LEMMA StageTyped == TypeOK /\ (StageBegins \/ StageEnds) => TypeOK'
<1>. SUFFICES ASSUME TypeOK, StageBegins \/ StageEnds PROVE TypeOK'
  OBVIOUS
<1>1. RunsTyped /\ Service \in Runs
  BY StepsNamed DEF TypeOK, RunsTyped
<1>2. CASE StageBegins
  <2>1. pc' \in [Runs -> Steps]
    BY <1>1, <1>2, GoesTyped, StepsNamed DEF StageBegins
  <2>2. file' \in Files /\ (file'.state # "whole" => file'.fetch = 0)
    BY <1>2, NoneTyped DEF StageBegins, Torn
  <2>. QED
    BY <1>2, <2>1, <2>2 DEF TypeOK, StageBegins
<1>3. CASE StageEnds
  <2>1. pc' \in [Runs -> Steps]
    BY <1>1, <1>3, GoesTyped, StepsNamed DEF StageEnds
  <2>2. PICK good \in BOOLEAN :
          LET fetch == IF good THEN fetches + 1 ELSE 0 IN
          /\ fetch <= MaxFetches
          /\ fetches' = IF good THEN fetch ELSE fetches
          /\ \/ file = NoFile /\ archived' = archived \cup Quotes(fetch) /\ UNCHANGED file
             \/ file # NoFile /\ file' = Staged(fetch) /\ UNCHANGED archived
    BY <1>3 DEF StageEnds
  <2>3. fetches' \in 0..MaxFetches
    BY <2>2 DEF TypeOK
  <2>4. archived' \in SUBSET (1..MaxFetches)
    <3>1. CASE good
      <4>1. fetches + 1 \in 0..MaxFetches
        BY <2>2, <3>1 DEF TypeOK
      <4>2. archived \cup Quotes(fetches + 1) \in SUBSET (1..MaxFetches)
        BY <4>1, QuotesTyped DEF TypeOK
      <4>. QED
        BY <2>2, <3>1, <4>2 DEF TypeOK
    <3>2. CASE ~good
      <4>1. archived \cup Quotes(0) \in SUBSET (1..MaxFetches)
        BY QuotesTyped DEF TypeOK
      <4>. QED
        BY <2>2, <3>2, <4>1 DEF TypeOK
    <3>. QED
      BY <3>1, <3>2
  <2>5. file' \in Files /\ (file'.state # "whole" => file'.fetch = 0)
    BY <2>2 DEF TypeOK, Staged, Files
  <2>6. health' \in Healths
    BY <1>3, HealthTyped DEF TypeOK, StageEnds
  <2>. QED
    BY <1>3, <2>1, <2>3, <2>4, <2>5, <2>6 DEF TypeOK, StageEnds
<1>. QED
  BY <1>2, <1>3

LEMMA RowTyped ==
  ASSUME TypeOK, NEW r \in Runs, NEW healthy \in BOOLEAN, rows' = Append(rows, Row(r, healthy))
  PROVE  /\ Row(r, healthy) \in Rows /\ rows' \in Seq(Rows)
         /\ Len(rows) \in Nat /\ Len(rows') = Len(rows) + 1
         /\ rows' # <<>> /\ rows'[Len(rows')] = Row(r, healthy)
         /\ \A j \in 1..Len(rows) : rows'[j] = rows[j]
         /\ 1..Len(rows) \subseteq 1..Len(rows') /\ Len(rows') \in 1..Len(rows')
         /\ 0..Len(rows) \subseteq 0..Len(rows')
<1>1. Row(r, healthy) \in Rows /\ rows \in Seq(Rows)
  BY DEF TypeOK, Rows, Row
<1>2. /\ rows' \in Seq(Rows) /\ Len(rows) \in Nat /\ Len(rows') = Len(rows) + 1
      /\ rows' # <<>> /\ rows'[Len(rows')] = Row(r, healthy)
      /\ \A j \in 1..Len(rows) : rows'[j] = rows[j]
  BY <1>1
<1>. QED
  BY <1>1, <1>2

\* What a run puts in the history, and what it makes of that.
LEMMA ReplaceTyped ==
  ASSUME TypeOK, NEW r \in Runs, Replace(r)
  PROVE  TypeOK'
<1>1. PICK healthy \in BOOLEAN :
        LET all == Append(rows, Row(r, healthy))
            mine == seen[r] \cup {Len(all)} IN
        /\ rows' = all
        /\ history' = mine
        /\ payload' = [payload EXCEPT ![r] =
             [cycle |-> cycle[r], healthy |-> healthy, complete |-> Complete(mine, all),
              at |-> now]]
  BY DEF Replace
<1>. DEFINE row == Row(r, healthy)
            mine == seen[r] \cup {Len(Append(rows, row))}
<1>4. /\ rows' \in Seq(Rows)
      /\ 1..Len(rows) \subseteq 1..Len(rows') /\ Len(rows') \in 1..Len(rows')
      /\ 0..Len(rows) \subseteq 0..Len(rows')
  BY <1>1, RowTyped
<1>5. mine \in SUBSET (1..Len(rows'))
  BY <1>1, <1>4 DEF TypeOK
<1>6. history' \in SUBSET (1..Len(rows'))
  BY <1>1, <1>5
<1>7. seen' \in [Runs -> SUBSET (1..Len(rows'))]
  BY <1>4 DEF TypeOK, Replace
<1>8. payload' \in [Runs -> Reports]
  <2>1. Complete(mine, Append(rows, row)) \in BOOLEAN
    BY DEF Complete
  <2>. QED
    BY <1>1, <2>1 DEF TypeOK, Reports
<1>9. pc' \in [Runs -> Steps]
  BY GoesTyped, StepsNamed DEF Replace, TypeOK, RunsTyped
<1>10. since' \in 0..Len(rows')
  BY <1>4 DEF TypeOK, Replace
<1>. QED
  BY <1>4, <1>6, <1>7, <1>8, <1>9, <1>10 DEF TypeOK, Replace

LEMMA BeatenTyped ==
  ASSUME TypeOK, NEW r \in Runs, Beaten(r)
  PROVE  TypeOK'
<1>1. PICK healthy \in BOOLEAN : rows' = Append(rows, Row(r, healthy))
  BY DEF Beaten
<1>2. /\ rows' \in Seq(Rows)
      /\ 1..Len(rows) \subseteq 1..Len(rows') /\ 0..Len(rows) \subseteq 0..Len(rows')
  BY <1>1, RowTyped
<1>3. seen' \in [Runs -> SUBSET (1..Len(rows'))]
  BY <1>2 DEF TypeOK, Beaten, Ends, Forgets
<1>4. history' \in SUBSET (1..Len(rows')) /\ since' \in 0..Len(rows')
  BY <1>2 DEF TypeOK, Beaten
<1>5. pc' \in [Runs -> Steps] /\ health' \in Healths
  BY HealthTyped, StepsNamed DEF TypeOK, Beaten, Ends, Goes
<1>6. /\ cycle' \in [Runs -> Nat] /\ took' \in [Runs -> Files]
      /\ payload' \in [Runs -> Reports]
  BY NoneTyped DEF TypeOK, Beaten, Ends, Forgets
<1>. QED
  BY <1>2, <1>3, <1>4, <1>5, <1>6 DEF TypeOK, Beaten

LEMMA RunTyped ==
  ASSUME TypeOK, NEW r \in Runs, Refresh(r)
  PROVE  TypeOK'
<1>1. RunsTyped
  BY DEF TypeOK, RunsTyped
<1>2. CASE Begin(r)
  <2>1. pc' \in [Runs -> Steps]
    BY <1>1, <1>2, GoesTyped, StepsNamed DEF Begin
  <2>2. cycle' \in [Runs -> Nat] /\ cycles' \in Nat /\ byHand' \in Nat
    <3>1. /\ cycle \in [Runs -> Nat] /\ cycles \in Nat /\ byHand \in Nat
          /\ cycles' = cycles + 1 /\ cycle' = [cycle EXCEPT ![r] = cycles + 1]
          /\ byHand' \in {byHand, byHand + 1}
      BY <1>2 DEF TypeOK, Begin
    <3>. QED
      BY <3>1
  <2>3. health' \in Healths
    <3>1. health \in Healths /\ health' \in {health, [health EXCEPT !.status = "RUNNING",
                                                       !.failed = FALSE]}
      BY <1>2 DEF TypeOK, Begin
    <3>. QED
      BY <3>1 DEF Healths
  <2>. QED
    BY <1>2, <2>1, <2>2, <2>3 DEF TypeOK, Begin
<1>3. CASE Refused(r)
  <2>1. RunsTyped' /\ health' \in Healths
    BY <1>1, <1>3, EndsTyped, HealthTyped DEF TypeOK, Refused
  <2>. QED
    BY <1>3, <2>1 DEF TypeOK, RunsTyped, Refused
<1>4. CASE Passes(r)
  <2>1. pc' \in [Runs -> Steps]
    BY <1>1, <1>4, GoesTyped, StepsNamed DEF Passes
  <2>. QED
    BY <1>4, <2>1 DEF TypeOK, Passes
<1>5. CASE Opens(r)
  <2>1. pc' \in [Runs -> Steps]
    BY <1>1, <1>5, GoesTyped, StepsNamed DEF Opens
  <2>2. alone' \in SUBSET Runs /\ mishaps' \in Nat
    BY <1>5 DEF TypeOK, Opens
  <2>. QED
    BY <1>5, <2>1, <2>2 DEF TypeOK, Opens
<1>6. CASE Drain(r)
  <2>1. pc' \in [Runs -> Steps]
    BY <1>1, <1>6, GoesTyped, StepsNamed DEF Drain
  <2>2. took' \in [Runs -> Files]
    BY <1>6 DEF TypeOK, Drain
  <2>. QED
    BY <1>6, <2>1, <2>2 DEF TypeOK, Drain, LeavesFile
<1>7. CASE Commit(r)
  <2>1. pc' \in [Runs -> Steps]
    BY <1>1, <1>7, GoesTyped, StepsNamed DEF Commit
  <2>2. took[r].fetch \in 0..MaxFetches /\ cycle[r] \in Nat
    BY DEF TypeOK, Files
  <2>3. stored' \in SUBSET (1..MaxFetches)
    BY <1>7, <2>2, QuotesTyped DEF TypeOK, Commit
  <2>4. repeats' \in Nat
    BY <1>7, CountTyped DEF TypeOK, Commit
  <2>. QED
    BY <1>7, <2>1, <2>2, <2>3, <2>4 DEF TypeOK, Commit
<1>8. CASE Publish(r)
  <2>1. pc' \in [Runs -> Steps]
    BY <1>1, <1>8, GoesTyped, StepsNamed DEF Publish
  <2>. QED
    BY <1>8, <2>1 DEF TypeOK, Publish, PublishesAll
<1>9. CASE Archive(r)
  <2>1. pc' \in [Runs -> Steps]
    BY <1>1, <1>9, GoesTyped, StepsNamed DEF Archive
  <2>2. took' \in [Runs -> Files]
    BY <1>9, NoneTyped DEF TypeOK, Archive
  <2>3. file' \in Files /\ (file'.state # "whole" => file'.fetch = 0)
    BY <1>9, NoneTyped DEF TypeOK, Archive, NoFile
  <2>4. archived' \in SUBSET (1..MaxFetches)
    <3>1. file.fetch \in 0..MaxFetches
      BY DEF TypeOK, Files
    <3>. QED
      BY <1>9, <3>1, QuotesTyped DEF TypeOK, Archive
  <2>. QED
    BY <1>9, <2>1, <2>2, <2>3, <2>4 DEF TypeOK, Archive
<1>10. CASE ReadHistory(r)
  <2>1. pc' \in [Runs -> Steps]
    BY <1>1, <1>10, GoesTyped, StepsNamed DEF ReadHistory
  <2>2. history' \in SUBSET (1..Len(rows)) /\ seen' \in [Runs -> SUBSET (1..Len(rows))]
    BY <1>10 DEF TypeOK, ReadHistory
  <2>. QED
    BY <1>10, <2>1, <2>2 DEF TypeOK, ReadHistory
<1>13. CASE Replace(r)
  BY <1>13, ReplaceTyped
<1>14. CASE Beaten(r)
  BY <1>14, BeatenTyped
<1>11. CASE Report(r)
  <2>1. RunsTyped'
    <3>1. CASE r = Service /\ ~local
      BY <1>1, <1>11, <3>1, GoesTyped, StepsNamed DEF Report, RunsTyped
    <3>2. CASE ~(r = Service /\ ~local)
      BY <1>1, <1>11, <3>2, EndsTyped DEF Report
    <3>. QED
      BY <3>1, <3>2
  <2>2. report' \in Reports /\ settled' \in BOOLEAN
    BY <1>11 DEF TypeOK, Report
  <2>. QED
    BY <1>11, <2>1, <2>2 DEF TypeOK, RunsTyped, Report
<1>12. CASE Die(r)
  <2>1. RunsTyped'
    <3>1. CASE GoesOn(r)
      BY <1>1, <1>12, <3>1, GoesTyped, StepsNamed DEF Die, RunsTyped
    <3>2. CASE ~GoesOn(r)
      BY <1>1, <1>12, <3>2, EndsTyped DEF Die
    <3>. QED
      BY <3>1, <3>2
  <2>2. mishaps' \in Nat /\ health' \in Healths
    BY <1>12, HealthTyped DEF TypeOK, Die, Mishap
  <2>. QED
    BY <1>12, <2>1, <2>2 DEF TypeOK, RunsTyped, Die
<1>. QED
  BY <1>2, <1>3, <1>4, <1>5, <1>6, <1>7, <1>8, <1>9, <1>10, <1>11, <1>12, <1>13,
     <1>14 DEF Refresh

LEMMA ServiceTyped ==
  TypeOK /\ (Defers \/ Locks \/ Diagnose \/ AppendShadow \/ Finishes \/ LoopDies) => TypeOK'
<1>. SUFFICES ASSUME TypeOK,
                     Defers \/ Locks \/ Diagnose \/ AppendShadow \/ Finishes \/ LoopDies
     PROVE  TypeOK'
  OBVIOUS
<1>1. RunsTyped /\ Service \in Runs
  BY StepsNamed DEF TypeOK, RunsTyped
<1>2. CASE Defers
  <2>1. RunsTyped' /\ health' \in Healths
    BY <1>1, <1>2, EndsTyped, HealthTyped DEF TypeOK, Defers
  <2>. QED
    BY <1>2, <2>1 DEF TypeOK, RunsTyped, Defers
<1>3. CASE Locks
  <2>1. pc' \in [Runs -> Steps]
    BY <1>1, <1>3, GoesTyped, StepsNamed DEF Locks
  <2>. QED
    BY <1>3, <2>1 DEF TypeOK, Locks
<1>4. CASE Diagnose
  <2>1. pc' \in [Runs -> Steps]
    BY <1>1, <1>4, GoesTyped, StepsNamed DEF Diagnose
  <2>. QED
    BY <1>4, <2>1 DEF TypeOK, Diagnose
<1>5. CASE AppendShadow
  <2>1. report' \in Reports
    BY <1>1, <1>5 DEF RunsTyped, AppendShadow, WritesBack
  <2>2. RunsTyped'
    BY <1>1, <1>5, EndsTyped DEF AppendShadow
  <2>. QED
    BY <1>5, <2>1, <2>2 DEF TypeOK, RunsTyped, AppendShadow
<1>6. CASE Finishes
  <2>1. pc' \in [Runs -> Steps]
    BY <1>1, <1>6, GoesTyped, StepsNamed DEF Finishes
  <2>2. health' \in Healths /\ since' \in 0..Len(rows)
    BY <1>6 DEF TypeOK, Finishes, Healths
  <2>. QED
    BY <1>6, <2>1, <2>2 DEF TypeOK, Finishes
<1>7. CASE LoopDies
  <2>1. RunsTyped'
    BY <1>1, <1>7, EndsTyped DEF LoopDies
  <2>2. mishaps' \in Nat
    BY <1>7 DEF TypeOK, LoopDies, Mishap
  <2>. QED
    BY <1>7, <2>1, <2>2 DEF TypeOK, RunsTyped, LoopDies
<1>. QED
  BY <1>2, <1>3, <1>4, <1>5, <1>6, <1>7

LEMMA TypeInvariant == TypeOK /\ [Next]_vars => TypeOK'
<1>1. CASE UNCHANGED vars
  BY <1>1 DEF TypeOK, vars
<1>2. CASE Tick
  BY <1>2 DEF TypeOK, Tick
<1>. QED
  BY <1>1, <1>2, RunTyped, StageTyped, ServiceTyped DEF Next

LEMMA TypeInit == Init => TypeOK
<1>. SUFFICES ASSUME Init PROVE TypeOK
  OBVIOUS
<1>1. RunsTyped
  BY NoneTyped DEF Init, RunsTyped, Steps
<1>2. NoHealth \in Healths
  BY DEF NoHealth, Healths
<1>. QED
  BY <1>1, <1>2, NoneTyped DEF Init, TypeOK, RunsTyped, NoFile

\* The variables keep their types, and only a whole file has quotes.
THEOREM TypeCorrect == Spec => []TypeOK
  BY TypeInit, TypeInvariant, PTL DEF Spec

-----------------------------------------------------------------------------
(* The file the service drains *)

LEMMA WholeKept == TypeOK /\ ServiceReadsWhole /\ [Next]_vars => ServiceReadsWhole'
<1>. SUFFICES ASSUME TypeOK, ServiceReadsWhole, [Next]_vars PROVE ServiceReadsWhole'
  OBVIOUS
<1>0. pc \in [Runs -> Steps] /\ Service \in Runs
  BY StepsNamed DEF TypeOK
<1>1. CASE UNCHANGED vars
  BY <1>1 DEF vars, ServiceReadsWhole
<1>2. ASSUME NEW r \in Runs, Refresh(r)
      PROVE  ServiceReadsWhole'
  <2>1. CASE Begin(r) \/ Passes(r) \/ Opens(r) \/ Drain(r) \/ Commit(r) \/ Publish(r)
    BY <1>0, <2>1 DEF ServiceReadsWhole, Begin, Passes, Opens, Drain, LeavesFile, Commit, Publish, Goes
  <2>2. CASE Refused(r) \/ Beaten(r) \/ Die(r)
    BY <1>0, <2>2 DEF ServiceReadsWhole, Refused, Beaten, Die, GoesOn, InLoop, Ends, Goes
  <2>3. CASE Archive(r)
    BY <1>0, <2>3 DEF ServiceReadsWhole, Archive, Goes, NoFile, Torn
  <2>4. CASE ReadHistory(r) \/ Replace(r)
    BY <1>0, <2>4 DEF ServiceReadsWhole, ReadHistory, Replace, Goes
  <2>5. CASE Report(r)
    BY <1>0, <2>5 DEF ServiceReadsWhole, Report, InLoop, Ends, Goes
  <2>. QED
    BY <1>2, <2>1, <2>2, <2>3, <2>4, <2>5 DEF Refresh
<1>3. CASE StageBegins
  BY <1>0, <1>3 DEF ServiceReadsWhole, StageBegins, Goes
<1>4. CASE StageEnds
  <2>1. PICK good \in BOOLEAN :
          \/ file = NoFile /\ UNCHANGED file
          \/ file' = Staged(IF good THEN fetches + 1 ELSE 0)
    BY <1>4 DEF StageEnds
  <2>. QED
    BY <2>1 DEF ServiceReadsWhole, NoFile, Torn, Staged
<1>5. CASE Defers \/ Locks \/ Diagnose \/ AppendShadow \/ Finishes \/ LoopDies
  BY <1>0, <1>5 DEF ServiceReadsWhole, Defers, Locks, Diagnose, AppendShadow, Finishes,
       LoopDies, InLoop, Ends, Goes
<1>6. CASE Tick
  BY <1>6 DEF ServiceReadsWhole, Tick
<1>. QED
  BY <1>1, <1>2, <1>3, <1>4, <1>5, <1>6 DEF Next

\* The refresh of the cloud's service never meets a torn file.
THEOREM WholeFilesRead == Spec => []ServiceReadsWhole
<1>1. Init => ServiceReadsWhole
  BY StepsNamed DEF Init, ServiceReadsWhole
<1>. QED
  BY <1>1, TypeInit, TypeInvariant, WholeKept, PTL DEF Spec

-----------------------------------------------------------------------------
(* What a refresh puts out *)

\* Between the commit and the report.
After == {"publish", "archive", "record", "replace", "report"}

\* The last row of the history is of cycle k.
LastRow(k) == rows # <<>> /\ Len(rows) \in history /\ rows[Len(rows)].cycle = k

\* A run that is alone with the database open is the only one there, ...
OnlyOne == \A r \in alone : pc[r] \in Core => \A o \in Runs \ {r} : pc[o] \notin Core

\* ... what it has put out so far is of its own cycle, ...
Carried ==
  \A r \in alone :
    /\ pc[r] \in After => committed = cycle[r]
    /\ pc[r] \in After \ {"publish"} => manifest = cycle[r]
    /\ pc[r] = "replace" => seen[r] = history
    /\ pc[r] = "report" => LastRow(cycle[r])

\* ... and when the outputs are settled nobody is halfway through them.
Quiet ==
  settled => /\ OutputsAgree
             /\ \A r \in Runs : pc[r] \notin After

Followed == OnlyOne /\ Carried /\ Quiet

\* Steps that put nothing out, and bring no run from outside into the database.
LEMMA FollowedElsewhere ==
  ASSUME TypeOK, Followed, NEW r \in Runs,
         UNCHANGED <<committed, manifest, rows, history, alone, settled>>,
         \A o \in Runs \ {r} : pc'[o] = pc[o] /\ cycle'[o] = cycle[o] /\ seen'[o] = seen[o],
         pc'[r] \notin After, pc'[r] \in Core => pc[r] \in Core
  PROVE  Followed'
<1>1. alone \subseteq Runs
  BY DEF TypeOK
<1>2. OnlyOne'
  BY <1>1 DEF Followed, OnlyOne
<1>3. Carried'
  BY <1>1 DEF Followed, Carried, LastRow, After
<1>4. Quiet'
  BY DEF Followed, Quiet, OutputsAgree
<1>. QED
  BY <1>2, <1>3, <1>4 DEF Followed

LEMMA AfterIsCore == After \subseteq Core /\ Service \in Runs
  BY DEF After, Core, Runs

\* What a run puts in the history.
LEMMA Replaced ==
  ASSUME TypeOK, NEW r \in Runs, Replace(r)
  PROVE  \E row \in Rows :
           /\ row.cycle = cycle[r] /\ row.by = r /\ row.alone = (r \in alone) /\ row.at = now
           /\ rows' = Append(rows, row) /\ Len(rows') = Len(rows) + 1
           /\ rows' # <<>> /\ rows'[Len(rows')] = row
           /\ \A j \in 1..Len(rows) : rows'[j] = rows[j]
           /\ history' = seen[r] \cup {Len(rows')}
           /\ payload' = [payload EXCEPT ![r] =
                [cycle |-> cycle[r], healthy |-> row.healthy,
                 complete |-> Complete(seen[r] \cup {Len(rows')}, rows'), at |-> now]]
<1>1. PICK healthy \in BOOLEAN :
        LET all == Append(rows, Row(r, healthy))
            mine == seen[r] \cup {Len(all)} IN
        /\ rows' = all
        /\ history' = mine
        /\ payload' = [payload EXCEPT ![r] =
             [cycle |-> cycle[r], healthy |-> healthy, complete |-> Complete(mine, all),
              at |-> now]]
  BY DEF Replace
<1>. DEFINE row == Row(r, healthy)
<1>3. /\ row \in Rows /\ rows' = Append(rows, row) /\ Len(rows') = Len(rows) + 1
      /\ rows' # <<>> /\ rows'[Len(rows')] = row
      /\ \A j \in 1..Len(rows) : rows'[j] = rows[j]
  BY <1>1, RowTyped
<1>4. history' = seen[r] \cup {Len(rows')}
  BY <1>1
<1>6. /\ row.cycle = cycle[r] /\ row.by = r /\ row.alone = (r \in alone) /\ row.at = now
      /\ row.healthy = healthy
  BY DEF Row
<1>5. payload' = [payload EXCEPT ![r] =
        [cycle |-> cycle[r], healthy |-> row.healthy,
         complete |-> Complete(seen[r] \cup {Len(rows')}, rows'), at |-> now]]
  BY <1>1, <1>6
<1>. HIDE DEF row
<1>. QED
  BY <1>3, <1>4, <1>5, <1>6

LEMMA FollowedRun ==
  ASSUME TypeOK, Followed, NEW r \in Runs, Refresh(r)
  PROVE  Followed'
<1>1. pc \in [Runs -> Steps] /\ cycle \in [Runs -> Nat] /\ alone \subseteq Runs
      /\ seen \in [Runs -> SUBSET (1..Len(rows))]
  BY DEF TypeOK
<1>2. CASE Begin(r)
  BY <1>1, <1>2, FollowedElsewhere DEF Begin, Goes, After, Core
<1>3. CASE Refused(r) \/ Die(r)
  BY <1>1, <1>3, FollowedElsewhere DEF Refused, Die, GoesOn, InLoop, Ends, Forgets,
       Goes, After, Core
<1>4. CASE Passes(r)
  BY <1>1, <1>4, FollowedElsewhere DEF Passes, Goes, After, Core
<1>5. CASE Drain(r)
  BY <1>1, <1>5, FollowedElsewhere DEF Drain, Goes, After, Core
<1>6. CASE Opens(r)
  <2>1. pc' = [pc EXCEPT ![r] = "drain"] /\ UNCHANGED <<cycle, seen, committed, manifest, rows, history, settled>>
        /\ alone' = IF WriterSeen(r) THEN {} ELSE {r}
    BY <1>6 DEF Opens, Goes
  <2>2. OnlyOne'
    BY <1>1, <2>1 DEF OnlyOne, WriterSeen
  <2>3. Carried'
    BY <1>1, <2>1 DEF Carried, After
  <2>4. Quiet'
    BY <1>1, <2>1 DEF Followed, Quiet, OutputsAgree, After
  <2>. QED
    BY <2>2, <2>3, <2>4 DEF Followed
<1>7. CASE Commit(r)
  <2>1. pc[r] = "commit" /\ pc' = [pc EXCEPT ![r] = "publish"] /\ committed' = cycle[r]
        /\ settled' = FALSE /\ UNCHANGED <<cycle, manifest, alone>>
    BY <1>7 DEF Commit, Goes
  <2>2. OnlyOne'
    BY <1>1, <2>1 DEF Followed, OnlyOne, Core
  <2>3. Carried'
    <3>. SUFFICES ASSUME NEW o \in alone, pc'[o] \in After
         PROVE  committed' = cycle[o] /\ pc'[o] = "publish"
      BY <2>1 DEF Carried, After
    <3>1. CASE o = r
      BY <1>1, <2>1, <3>1
    <3>2. CASE o # r
      <4>1. pc[o] \in Core
        BY <1>1, <2>1, <3>2, AfterIsCore
      <4>. QED
        BY <2>1, <3>2, <4>1 DEF Followed, OnlyOne, Core
    <3>. QED
      BY <3>1, <3>2
  <2>4. Quiet'
    BY <2>1 DEF Quiet
  <2>. QED
    BY <2>2, <2>3, <2>4 DEF Followed
<1>8. ASSUME pc[r] \in After, UNCHANGED <<cycle, committed, alone, settled>>,
             NEW step \in After, pc' = [pc EXCEPT ![r] = step],
             r \in alone => Carried'
      PROVE  Followed'
  <2>1. OnlyOne'
    BY <1>1, <1>8, AfterIsCore DEF Followed, OnlyOne
  <2>2. Carried'
    <3>. SUFFICES ASSUME r \notin alone PROVE Carried'
      BY <1>8
    <3>. SUFFICES ASSUME NEW o \in alone PROVE pc'[o] \notin After
      BY <1>1, <1>8 DEF Carried, After
    <3>. QED
      BY <1>1, <1>8, AfterIsCore DEF Followed, OnlyOne
  <2>3. Quiet'
    BY <1>8 DEF Followed, Quiet
  <2>. QED
    BY <2>1, <2>2, <2>3 DEF Followed
<1>9. \A o \in alone : r \in alone /\ pc[r] \in After /\ o # r => pc[o] \notin After
  BY <1>1, AfterIsCore DEF Followed, OnlyOne
<1>10. CASE Publish(r)
  <2>1. pc[r] = "publish" /\ pc' = [pc EXCEPT ![r] = "archive"] /\ manifest' = cycle[r]
        /\ UNCHANGED <<cycle, seen, committed, rows, history, alone, settled>>
    BY <1>10 DEF Publish, PublishesAll, Goes
  <2>2. r \in alone => Carried'
    BY <1>1, <1>9, <2>1 DEF Followed, Carried, After
  <2>. QED
    BY <1>8, <2>1, <2>2 DEF After
<1>11. CASE Archive(r)
  <2>1. pc[r] = "archive" /\ pc' = [pc EXCEPT ![r] = "record"]
        /\ UNCHANGED <<cycle, seen, committed, manifest, rows, history, alone, settled>>
    BY <1>11 DEF Archive, Goes
  <2>2. r \in alone => Carried'
    BY <1>1, <1>9, <2>1 DEF Followed, Carried, After
  <2>. QED
    BY <1>8, <2>1, <2>2 DEF After
<1>12. CASE ReadHistory(r)
  <2>1. pc[r] = "record" /\ pc' = [pc EXCEPT ![r] = "replace"]
        /\ seen' = [seen EXCEPT ![r] = history']
        /\ UNCHANGED <<cycle, committed, manifest, rows, alone, settled>>
    BY <1>12 DEF ReadHistory, Goes
  <2>2. r \in alone => Carried'
    BY <1>1, <1>9, <2>1 DEF Followed, Carried, After
  <2>. QED
    BY <1>8, <2>1, <2>2 DEF After
<1>14. CASE Replace(r)
  <2>1. pc[r] = "replace" /\ pc' = [pc EXCEPT ![r] = "report"]
        /\ UNCHANGED <<cycle, committed, manifest, alone, settled>>
    BY <1>14 DEF Replace, Goes
  <2>2. r \in alone => LastRow(cycle[r])'
    BY <1>14, <2>1, Replaced DEF LastRow
  <2>3. r \in alone => Carried'
    BY <1>1, <1>9, <2>1, <2>2 DEF Followed, Carried, After
  <2>. QED
    BY <1>8, <2>1, <2>3 DEF After
<1>15. CASE Beaten(r)
  <2>1. /\ pc[r] = "replace" /\ r \notin alone
        /\ UNCHANGED <<committed, manifest, alone, settled>>
        /\ \A o \in Runs \ {r} : pc'[o] = pc[o]
        /\ pc'[r] \in {"idle", "finish"}
    BY <1>1, <1>15 DEF Beaten, Ends, Goes
  <2>2. pc'[r] \notin Core
    BY <2>1 DEF Core
  <2>3. OnlyOne'
    BY <1>1, <2>1, <2>2 DEF Followed, OnlyOne
  <2>4. Carried'
    <3>1. \A o \in alone : pc'[o] \notin After
      BY <1>1, <2>1, AfterIsCore DEF Followed, OnlyOne, Core
    <3>. QED
      BY <2>1, <3>1 DEF Carried, After
  <2>5. Quiet'
    BY <2>1 DEF Followed, Quiet, After
  <2>. QED
    BY <2>3, <2>4, <2>5 DEF Followed
<1>13. CASE Report(r)
  <2>1. /\ pc[r] = "report" /\ settled' = (r \in alone)
        /\ UNCHANGED <<committed, manifest, rows, history, alone>>
        /\ \A o \in Runs \ {r} : pc'[o] = pc[o] /\ cycle'[o] = cycle[o] /\ seen'[o] = seen[o]
        /\ pc'[r] \in {"idle", "diagnose", "finish"}
    BY <1>1, <1>13 DEF Report, Ends, Goes, Forgets
  <2>2. pc'[r] \notin Core
    BY <2>1 DEF Core
  <2>3. OnlyOne'
    BY <1>1, <2>1, <2>2 DEF Followed, OnlyOne
  <2>4. Carried'
    BY <1>1, <2>1, <2>2, AfterIsCore DEF Followed, Carried, LastRow
  <2>5. Quiet'
    <3>. SUFFICES ASSUME r \in alone PROVE OutputsAgree' /\ \A o \in Runs : pc'[o] \notin After
      BY <2>1 DEF Quiet
    <3>1. committed = cycle[r] /\ manifest = cycle[r] /\ LastRow(cycle[r])
      BY <2>1 DEF Followed, Carried, After
    <3>2. \A o \in Runs : pc'[o] \notin After
      BY <1>1, <2>1, <2>2, AfterIsCore DEF Followed, OnlyOne, Core
    <3>. QED
      BY <2>1, <3>1, <3>2 DEF OutputsAgree, LastRow
  <2>. QED
    BY <2>3, <2>4, <2>5 DEF Followed
<1>. QED
  BY <1>2, <1>3, <1>4, <1>5, <1>6, <1>7, <1>10, <1>11, <1>12, <1>13, <1>14,
     <1>15 DEF Refresh

LEMMA FollowedKept == TypeOK /\ Followed /\ [Next]_vars => Followed'
<1>. SUFFICES ASSUME TypeOK, Followed, [Next]_vars PROVE Followed'
  OBVIOUS
<1>1. pc \in [Runs -> Steps] /\ cycle \in [Runs -> Nat] /\ Service \in Runs
      /\ seen \in [Runs -> SUBSET (1..Len(rows))]
  BY AfterIsCore DEF TypeOK
<1>2. CASE UNCHANGED vars
  BY <1>2 DEF vars, Followed, OnlyOne, Carried, Quiet, LastRow, OutputsAgree
<1>3. CASE Tick
  BY <1>3 DEF Tick, Followed, OnlyOne, Carried, Quiet, LastRow, OutputsAgree
<1>4. CASE StageBegins \/ StageEnds \/ Locks
  BY <1>1, <1>4, FollowedElsewhere DEF StageBegins, StageEnds, Locks, Goes, After, Core
<1>5. CASE Diagnose
  BY <1>1, <1>5, FollowedElsewhere DEF Diagnose, Goes, After, Core
<1>6. CASE Defers
  BY <1>1, <1>6, FollowedElsewhere DEF Defers, Ends, Goes, After, Core, Forgets
<1>7. CASE AppendShadow
  BY <1>1, <1>7, FollowedElsewhere DEF AppendShadow, Ends, Goes, After, Core, Forgets
<1>8. CASE Finishes
  BY <1>1, <1>8, FollowedElsewhere DEF Finishes, Goes, After, Core
<1>9. CASE LoopDies
  BY <1>1, <1>9, FollowedElsewhere DEF LoopDies, Goes, After, Core, Forgets
<1>. QED
  BY <1>2, <1>3, <1>4, <1>5, <1>6, <1>7, <1>8, <1>9, FollowedRun DEF Next

LEMMA FollowedInit == Init => Followed
<1>. SUFFICES ASSUME Init PROVE Followed
  OBVIOUS
<1>1. OnlyOne /\ Carried
  BY DEF Init, OnlyOne, Carried
<1>2. Quiet
  BY DEF Init, Quiet, OutputsAgree, After
<1>. QED
  BY <1>1, <1>2 DEF Followed

LEMMA FollowedAgrees == Followed => OutputsAgree
  BY DEF Followed, Quiet, OutputsAgree

\* Once the cycle committed last has ended without another beside it, the manifest
\* and the last row of the history are of that cycle.
THEOREM OutputsFollow == Spec => []OutputsAgree
  BY TypeInit, TypeInvariant, FollowedInit, FollowedKept, FollowedAgrees, PTL DEF Spec

-----------------------------------------------------------------------------
(* The gate's report *)

\* The rows up to the end that were put beside no other refresh are in the file:
\* each of those refreshes had read what was in it when it replaced it.
LastKept ==
  \A i \in 1..Len(rows) :
    (\A j \in i..Len(rows) : rows[j].alone) => i..Len(rows) \subseteq history

\* A report that would open the gate has a row of its cycle and of its time that
\* ends a streak.
Credit(all, p) ==
  p.healthy /\ p.complete =>
    \E i \in 1..Len(all) :
      /\ all[i].cycle = p.cycle /\ all[i].healthy /\ all[i].at = p.at
      /\ i >= Required
      /\ (\A j \in Streak(i) : all[j].alone) => \A j \in Streak(i) : all[j].healthy

\* So have all the reports that are in memory anywhere.
Credited == Credit(rows, report) /\ \A r \in Runs : Credit(rows, payload[r])

LEMMA NoCredit == \A all : Credit(all, NoReport)
  BY DEF Credit, NoReport

\* Rows that are added take no credit away.
LEMMA CreditStays ==
  ASSUME NEW n \in Nat, NEW all, Len(all) = n, NEW more, Len(more) = n + 1,
         \A j \in 1..n : more[j] = all[j], NEW p, Credit(all, p)
  PROVE  Credit(more, p)
<1>. SUFFICES ASSUME p.healthy, p.complete
     PROVE  \E i \in 1..Len(more) :
              /\ more[i].cycle = p.cycle /\ more[i].healthy /\ more[i].at = p.at
              /\ i >= Required
              /\ (\A j \in Streak(i) : more[j].alone) => \A j \in Streak(i) : more[j].healthy
  BY DEF Credit
<1>1. PICK i \in 1..n :
        /\ all[i].cycle = p.cycle /\ all[i].healthy /\ all[i].at = p.at
        /\ i >= Required
        /\ (\A j \in Streak(i) : all[j].alone) => \A j \in Streak(i) : all[j].healthy
  BY DEF Credit
<1>2. Streak(i) \subseteq 1..n
  BY <1>1 DEF Streak
<1>3. i \in 1..Len(more) /\ more[i] = all[i] /\ \A j \in Streak(i) : more[j] = all[j]
  BY <1>2
<1>. QED
  BY <1>1, <1>3

\* As many rows as are required, the last of those up to n, among which are the
\* last that are required up to n: they are these.
LEMMA LastOnes ==
  ASSUME NEW n \in Nat \ {0}, NEW S \in SUBSET (1..n), NEW j \in S,
         Cardinality({i \in S : i >= j}) = Required
  PROVE  Required <= n /\ (Streak(n) \subseteq S => Streak(n) \subseteq {i \in S : i >= j})
<1>. DEFINE last == {i \in S : i >= j}
<1>1. j \in 1..n /\ last \subseteq j..n
  <2>1. \A i \in S : i \in 1..n
    OBVIOUS
  <2>2. ASSUME NEW i \in S, i >= j
        PROVE  i \in j..n
    BY <2>1, <2>2
  <2>. QED
    BY <2>1, <2>2
<1>2. IsFiniteSet(j..n) /\ Cardinality(j..n) = n - j + 1
  BY <1>1, FS_Interval
<1>3. Cardinality(last) <= n - j + 1
  BY <1>1, <1>2, FS_Subset
<1>4. Required <= n - j + 1
  BY <1>3
<1>5. Required <= n
  BY <1>1, <1>4
<1>6. ASSUME NEW i \in Streak(n)
      PROVE  i >= j
  BY <1>1, <1>4, <1>6 DEF Streak
<1>. QED
  BY <1>5, <1>6

\* The report a run makes of what it put in the history has credit.
LEMMA CreditEarned ==
  ASSUME TypeOK, TypeOK', Followed, LastKept, NEW r \in Runs, Replace(r)
  PROVE  Credit(rows', payload'[r])
<1>1. PICK row \in Rows :
        /\ row.cycle = cycle[r] /\ row.by = r /\ row.alone = (r \in alone) /\ row.at = now
        /\ rows' = Append(rows, row) /\ Len(rows') = Len(rows) + 1
        /\ rows' # <<>> /\ rows'[Len(rows')] = row
        /\ \A j \in 1..Len(rows) : rows'[j] = rows[j]
        /\ history' = seen[r] \cup {Len(rows')}
        /\ payload' = [payload EXCEPT ![r] =
             [cycle |-> cycle[r], healthy |-> row.healthy,
              complete |-> Complete(seen[r] \cup {Len(rows')}, rows'), at |-> now]]
  BY Replaced
<1>. DEFINE n == Len(rows')
            mine == seen[r] \cup {n}
<1>2. payload'[r] = [cycle |-> cycle[r], healthy |-> row.healthy,
                     complete |-> Complete(mine, rows'), at |-> now]
  BY <1>1 DEF TypeOK
<1>. SUFFICES ASSUME row.healthy, Complete(mine, rows')
     PROVE  \E i \in 1..n :
              /\ rows'[i].cycle = cycle[r] /\ rows'[i].healthy /\ rows'[i].at = now
              /\ i >= Required
              /\ (\A j \in Streak(i) : rows'[j].alone) => \A j \in Streak(i) : rows'[j].healthy
  BY <1>2 DEF Credit
<1>3. Len(rows) \in Nat /\ n = Len(rows) + 1 /\ n \in Nat \ {0} /\ n \in 1..n
  <2>1. Len(rows) \in Nat
    BY DEF TypeOK
  <2>2. n = Len(rows) + 1
    BY <1>1
  <2>. HIDE DEF n
  <2>. QED
    BY <2>1, <2>2
<1>4. mine \in SUBSET (1..n)
  <2>1. seen[r] \subseteq 1..Len(rows)
    BY DEF TypeOK
  <2>. QED
    BY <1>3, <2>1
<1>5. PICK k \in mine : /\ Cardinality({i \in mine : i >= k}) = Required
                        /\ \A i \in {i \in mine : i >= k} : rows'[i].healthy
  BY DEF Complete
<1>6. Required <= n /\ (Streak(n) \subseteq mine => Streak(n) \subseteq {i \in mine : i >= k})
  <2>1. Cardinality({i \in mine : i >= k}) = Required
    BY <1>5
  <2>. HIDE DEF n, mine
  <2>. QED
    BY <1>3, <1>4, <2>1, LastOnes
<1>7. ASSUME \A j \in Streak(n) : rows'[j].alone
      PROVE  Streak(n) \subseteq mine
  <2>1. n \in Streak(n)
    BY <1>3 DEF Streak
  <2>2. r \in alone
    BY <1>1, <1>7, <2>1
  <2>3. seen[r] = history
    BY <2>2 DEF Followed, Carried, Replace
  <2>4. Streak(n) = {n} \/ Streak(n) = ((n - Required + 1)..Len(rows)) \cup {n}
    BY <1>3, <1>6 DEF Streak
  <2>5. CASE Required = 1
    <3>1. Streak(n) = {n}
      BY <1>3, <2>5 DEF Streak
    <3>. QED
      BY <3>1
  <2>6. CASE Required # 1
    <3>. DEFINE i == n - Required + 1
    <3>1. i \in 1..Len(rows)
      BY <1>3, <1>6, <2>6
    <3>2. i..Len(rows) \subseteq Streak(n) /\ i..Len(rows) \subseteq 1..Len(rows)
      BY <1>3, <3>1 DEF Streak
    <3>3. \A j \in i..Len(rows) : rows[j].alone
      BY <1>1, <1>7, <3>2
    <3>4. i..Len(rows) \subseteq history
      BY <3>1, <3>3 DEF LastKept
    <3>. QED
      BY <2>3, <2>4, <3>4
  <2>. QED
    BY <2>5, <2>6
<1>8. rows'[n].cycle = cycle[r] /\ rows'[n].healthy /\ rows'[n].at = now
  BY <1>1
<1>9. (\A j \in Streak(n) : rows'[j].alone) => \A j \in Streak(n) : rows'[j].healthy
  BY <1>5, <1>6, <1>7
<1>. QED
  BY <1>3, <1>6, <1>8, <1>9

LEMMA LastReplaced ==
  ASSUME TypeOK, Followed, LastKept, NEW r \in Runs, Replace(r)
  PROVE  LastKept'
<1>1. PICK row \in Rows :
        /\ row.cycle = cycle[r] /\ row.by = r /\ row.alone = (r \in alone) /\ row.at = now
        /\ rows' = Append(rows, row) /\ Len(rows') = Len(rows) + 1
        /\ rows' # <<>> /\ rows'[Len(rows')] = row
        /\ \A j \in 1..Len(rows) : rows'[j] = rows[j]
        /\ history' = seen[r] \cup {Len(rows')}
        /\ payload' = [payload EXCEPT ![r] =
             [cycle |-> cycle[r], healthy |-> row.healthy,
              complete |-> Complete(seen[r] \cup {Len(rows')}, rows'), at |-> now]]
  BY Replaced
<1>2. Len(rows) \in Nat
  BY DEF TypeOK
<1>. SUFFICES ASSUME NEW i \in 1..Len(rows'), \A j \in i..Len(rows') : rows'[j].alone
     PROVE  i..Len(rows') \subseteq history'
  BY DEF LastKept
<1>3. Len(rows') \in i..Len(rows')
  BY <1>1, <1>2
<1>4. r \in alone
  BY <1>1, <1>3
<1>5. history' = history \cup {Len(rows')}
  BY <1>1, <1>4 DEF Followed, Carried, Replace
<1>6. i..Len(rows') = (i..Len(rows)) \cup {Len(rows')}
  BY <1>1, <1>2
<1>7. CASE i = Len(rows')
  BY <1>1, <1>2, <1>5, <1>7
<1>8. CASE i # Len(rows')
  <2>1. i \in 1..Len(rows) /\ i..Len(rows) \subseteq 1..Len(rows)
    BY <1>1, <1>2, <1>8
  <2>2. \A j \in i..Len(rows) : rows[j].alone
    BY <1>1, <1>6, <2>1
  <2>. QED
    BY <1>5, <1>6, <2>1, <2>2 DEF LastKept
<1>. QED
  BY <1>7, <1>8

\* Steps that put nothing in the history, and make no new report.
LEMMA CreditElsewhere ==
  ASSUME Credited, LastKept, rows' = rows, history' = history,
         report' = report \/ \E r \in Runs : report' = payload[r],
         \A r \in Runs : payload'[r] = payload[r] \/ payload'[r] = report
                         \/ payload'[r] = NoReport
  PROVE  Credited' /\ LastKept'
<1>1. Credit(rows, report')
  BY DEF Credited
<1>2. \A r \in Runs : Credit(rows, payload'[r])
  BY NoCredit DEF Credited
<1>3. LastKept'
  BY DEF LastKept
<1>. QED
  BY <1>1, <1>2, <1>3 DEF Credited

LEMMA CreditKept ==
  TypeOK /\ Followed /\ Credited /\ LastKept /\ [Next]_vars => Credited' /\ LastKept'
<1>. SUFFICES ASSUME TypeOK, Followed, Credited, LastKept, [Next]_vars PROVE Credited' /\ LastKept'
  OBVIOUS
<1>. USE TypeInvariant
<1>0. payload \in [Runs -> Reports] /\ Service \in Runs
  BY StepsNamed DEF TypeOK
<1>1. CASE UNCHANGED vars \/ Tick
  BY <1>1, CreditElsewhere DEF vars, Tick
<1>2. ASSUME NEW r \in Runs, Refresh(r)
      PROVE  Credited' /\ LastKept'
  <2>1. CASE Begin(r) \/ Passes(r) \/ Opens(r) \/ Drain(r) \/ Commit(r) \/ Publish(r)
             \/ Archive(r)
    BY <2>1, CreditElsewhere DEF Begin, Passes, Opens, Drain, Commit, Publish, Archive
  <2>5. CASE ReadHistory(r)
    <3>1. UNCHANGED <<rows, report, payload>>
          /\ (history' = history \/ (rows # <<>> /\ ~rows[Len(rows)].alone))
      BY <2>5 DEF ReadHistory, Spoiled
    <3>2. rows # <<>> => \A i \in 1..Len(rows) : Len(rows) \in i..Len(rows)
      BY DEF TypeOK
    <3>3. LastKept'
      BY <3>1, <3>2 DEF LastKept
    <3>. QED
      BY <3>1, <3>3 DEF Credited
  <2>6. CASE Beaten(r)
    <3>1. PICK healthy \in BOOLEAN : rows' = Append(rows, Row(r, healthy))
      BY <2>6 DEF Beaten
    <3>2. /\ Len(rows) \in Nat /\ Len(rows') = Len(rows) + 1
          /\ rows'[Len(rows')] = Row(r, healthy)
          /\ \A j \in 1..Len(rows) : rows'[j] = rows[j]
      BY <3>1, RowTyped
    <3>3. report' = report /\ \A o \in Runs : payload'[o] = payload[o] \/ payload'[o] = NoReport
      BY <1>0, <2>6 DEF Beaten, Ends, Forgets
    <3>4. Credited'
      BY <3>2, <3>3, CreditStays, NoCredit DEF Credited
    <3>5. ~rows'[Len(rows')].alone
      <4>1. Row(r, healthy).alone = (r \in alone) /\ r \notin alone
        BY <2>6 DEF Beaten, Row
      <4>. QED
        BY <3>2, <4>1
    <3>6. \A i \in 1..Len(rows') : Len(rows') \in i..Len(rows')
      BY <3>2
    <3>7. LastKept'
      BY <3>5, <3>6 DEF LastKept
    <3>. QED
      BY <3>4, <3>7
  <2>2. CASE Refused(r) \/ Die(r)
    <3>1. UNCHANGED <<rows, history, report>>
          /\ \A o \in Runs : payload'[o] = payload[o] \/ payload'[o] = NoReport
      BY <1>0, <2>2 DEF Refused, Die, Ends, Forgets
    <3>. QED
      BY <3>1, CreditElsewhere
  <2>3. CASE Report(r)
    <3>1. UNCHANGED <<rows, history>> /\ report' = payload[r]
          /\ \A o \in Runs : payload'[o] = payload[o] \/ payload'[o] = NoReport
      BY <1>0, <2>3 DEF Report, Ends, Forgets
    <3>. QED
      BY <3>1, CreditElsewhere
  <2>4. CASE Replace(r)
    <3>1. Credit(rows', payload'[r]) /\ LastKept'
      BY <2>4, CreditEarned, LastReplaced
    <3>2. /\ Len(rows) \in Nat /\ Len(rows') = Len(rows) + 1
          /\ \A j \in 1..Len(rows) : rows'[j] = rows[j]
          /\ \A o \in Runs \ {r} : payload'[o] = payload[o]
          /\ report' = report
      BY <1>0, <2>4, Replaced DEF TypeOK, Replace
    <3>3. Credit(rows', report')
      BY <3>2, CreditStays DEF Credited
    <3>4. ASSUME NEW o \in Runs, o # r
          PROVE  Credit(rows', payload'[o])
      BY <3>2, <3>4, CreditStays DEF Credited
    <3>. QED
      BY <3>1, <3>3, <3>4 DEF Credited
  <2>. QED
    BY <1>2, <2>1, <2>2, <2>3, <2>4, <2>5, <2>6 DEF Refresh
<1>3. CASE StageBegins \/ StageEnds \/ Locks \/ Finishes
  BY <1>3, CreditElsewhere DEF StageBegins, StageEnds, Locks, Finishes
<1>4. CASE Defers \/ LoopDies
  <2>1. UNCHANGED <<rows, history, report>>
        /\ \A o \in Runs : payload'[o] = payload[o] \/ payload'[o] = NoReport
    BY <1>0, <1>4 DEF Defers, LoopDies, Ends, Forgets
  <2>. QED
    BY <2>1, CreditElsewhere
<1>5. CASE Diagnose
  <2>1. UNCHANGED <<rows, history, report>>
        /\ \A o \in Runs : payload'[o] = payload[o] \/ payload'[o] = report
    BY <1>0, <1>5 DEF Diagnose
  <2>. QED
    BY <2>1, CreditElsewhere
<1>6. CASE AppendShadow
  <2>1. UNCHANGED <<rows, history>> /\ report' = payload[Service]
        /\ \A o \in Runs : payload'[o] = payload[o] \/ payload'[o] = NoReport
    BY <1>0, <1>6 DEF AppendShadow, WritesBack, Ends, Forgets
  <2>. QED
    BY <1>0, <2>1, CreditElsewhere
<1>. QED
  BY <1>1, <1>2, <1>3, <1>4, <1>5, <1>6 DEF Next

LEMMA CreditInit == Init => Credited /\ LastKept
<1>. SUFFICES ASSUME Init PROVE Credited /\ LastKept
  OBVIOUS
<1>1. Credited
  BY NoCredit DEF Init, Credited
<1>2. Len(rows) = 0
  BY DEF Init
<1>. QED
  BY <1>1, <1>2 DEF LastKept

-----------------------------------------------------------------------------
(* The gate's health file *)

\* A cycle of the loop that has put its row in the history, and has not failed.
Open == IF pc[Service] = "report" \/ (pc[Service] = "finish" /\ ~health.failed) THEN 1 ELSE 0

\* The health file counts no cycle that put nothing in the history.
Tallied ==
  IF local
  THEN pc[Service] \notin {"diagnose", "append"} /\ health.streak + Open <= Cardinality(Counted)
  ELSE pc[Service] # "finish" /\ health.streak = 0

LEMMA CountedFinite ==
  /\ TypeOK => IsFiniteSet(Counted) /\ Cardinality(Counted) \in Nat
  /\ TypeOK' => IsFiniteSet(Counted') /\ Cardinality(Counted') \in Nat
<1>1. ASSUME NEW n \in Nat, NEW S \in SUBSET (1..n)
      PROVE  IsFiniteSet(S) /\ Cardinality(S) \in Nat
  <2>1. IsFiniteSet(1..n)
    BY FS_Interval
  <2>. QED
    BY <2>1, FS_Subset, FS_CardinalityType
<1>2. (TypeOK => Len(rows) \in Nat) /\ (TypeOK' => Len(rows') \in Nat)
  BY DEF TypeOK
<1>3. Counted \in SUBSET (1..Len(rows)) /\ Counted' \in SUBSET (1..Len(rows'))
  BY DEF Counted
<1>. QED
  BY <1>1, <1>2, <1>3

\* Steps that neither count a cycle nor put it in the history.
LEMMA TallyElsewhere ==
  ASSUME TypeOK, TypeOK', Tallied, UNCHANGED <<local, rows, since>>,
         health'.streak = health.streak,
         local => pc'[Service] \notin {"diagnose", "append"} /\ Open' <= Open,
         ~local => pc'[Service] # "finish"
  PROVE  Tallied'
<1>1. Counted' = Counted
  BY DEF Counted
<1>2. health.streak \in Nat /\ Open \in {0, 1} /\ Open' \in {0, 1}
  BY DEF TypeOK, Healths, Open
<1>3. CASE local
  <2>1. health.streak + Open' <= Cardinality(Counted)
    BY <1>2, <1>3, CountedFinite DEF Tallied
  <2>. QED
    BY <1>1, <1>3, <2>1 DEF Tallied
<1>4. CASE ~local
  BY <1>4 DEF Tallied
<1>. QED
  BY <1>3, <1>4

LEMMA TallyReplaced ==
  ASSUME TypeOK, TypeOK', Tallied, NEW r \in Runs, Replace(r)
  PROVE  Tallied'
<1>0. pc \in [Runs -> Steps] /\ Service \in Runs /\ health.streak \in Nat
  BY StepsNamed DEF TypeOK, Healths
<1>1. PICK row \in Rows :
        /\ row.by = r /\ Len(rows') = Len(rows) + 1 /\ rows'[Len(rows')] = row
        /\ \A j \in 1..Len(rows) : rows'[j] = rows[j]
  BY Replaced
<1>2. Len(rows) \in Nat /\ since \in 0..Len(rows) /\ since' = since /\ health' = health
      /\ local' = local
  BY DEF TypeOK, Replace
<1>3. pc[r] = "replace" /\ pc' = [pc EXCEPT ![r] = "report"]
  BY DEF Replace, Goes
<1>4. Counted' = IF r = Service THEN Counted \cup {Len(rows')} ELSE Counted
  BY <1>1, <1>2 DEF Counted
<1>5. CASE r = Service
  <2>1. Len(rows') \notin Counted
    BY <1>1, <1>2 DEF Counted
  <2>2. Cardinality(Counted') = Cardinality(Counted) + 1
    BY <1>4, <1>5, <2>1, CountedFinite, FS_AddElement
  <2>3. Open = 0 /\ Open' = 1 /\ pc'[Service] = "report"
    BY <1>0, <1>3, <1>5 DEF Open
  <2>. QED
    BY <1>0, <1>2, <2>2, <2>3, CountedFinite DEF Tallied
<1>6. CASE r # Service
  <2>1. Counted' = Counted /\ Open' = Open /\ pc'[Service] = pc[Service]
    BY <1>0, <1>2, <1>3, <1>4, <1>6 DEF Open
  <2>. QED
    BY <1>2, <2>1 DEF Tallied
<1>. QED
  BY <1>5, <1>6

LEMMA TallyBeaten ==
  ASSUME TypeOK, TypeOK', Tallied, NEW r \in Runs, Beaten(r)
  PROVE  Tallied'
<1>0. pc \in [Runs -> Steps] /\ Service \in Runs /\ health \in Healths /\ Open \in {0, 1}
  BY StepsNamed DEF TypeOK, Open
<1>1. PICK healthy \in BOOLEAN : rows' = Append(rows, Row(r, healthy))
  BY DEF Beaten
<1>2. /\ 1..Len(rows) \subseteq 1..Len(rows') /\ \A j \in 1..Len(rows) : rows'[j] = rows[j]
  BY <1>1, RowTyped
<1>3. UNCHANGED <<local, since>> /\ pc[r] = "replace" /\ Fails(r)
      /\ pc' = [pc EXCEPT ![r] = IF InLoop(r) THEN "finish" ELSE "idle"]
  BY DEF Beaten, Ends, Goes
<1>4. Counted \subseteq Counted'
  BY <1>2, <1>3 DEF Counted
<1>5. Cardinality(Counted) <= Cardinality(Counted')
  BY <1>4, CountedFinite, FS_Subset
<1>6. health'.streak = health.streak /\ (InLoop(r) => health'.failed)
      /\ (~InLoop(r) => health' = health)
  BY <1>0, <1>3 DEF Fails, Healths
<1>7. CASE local
  <2>1. Open' <= Open /\ Open' \in {0, 1}
    BY <1>0, <1>3, <1>6, <1>7 DEF Open, InLoop
  <2>2. pc'[Service] \notin {"diagnose", "append"}
    BY <1>0, <1>3, <1>7 DEF Tallied
  <2>3. health.streak + Open <= Cardinality(Counted) /\ health.streak \in Nat
    BY <1>0, <1>7 DEF Tallied, Healths
  <2>4. health'.streak + Open' <= Cardinality(Counted')
    BY <1>0, <1>5, <1>6, <2>1, <2>3, CountedFinite
  <2>. QED
    BY <1>3, <1>7, <2>2, <2>4 DEF Tallied
<1>8. CASE ~local
  BY <1>0, <1>3, <1>6, <1>8 DEF Tallied, InLoop
<1>. QED
  BY <1>7, <1>8

\* The loop ends a cycle.
LEMMA TallyFinishes ==
  ASSUME TypeOK, TypeOK', Tallied, Finishes
  PROVE  Tallied'
<1>0. pc \in [Runs -> Steps] /\ Service \in Runs /\ health.streak \in Nat
  BY StepsNamed DEF TypeOK, Healths
<1>1. pc[Service] = "finish" /\ pc'[Service] = "idle" /\ local /\ UNCHANGED <<local, rows>>
  BY <1>0 DEF Finishes, Goes, Tallied
<1>2. PICK good \in BOOLEAN :
        /\ good => ~health.failed
        /\ health' = [status |-> IF good THEN "HEALTHY" ELSE "DEGRADED",
                      streak |-> IF good THEN health.streak + 1 ELSE 0, failed |-> FALSE]
        /\ since' = IF good THEN since ELSE Len(rows)
  BY DEF Finishes
<1>3. Open' = 0
  BY <1>1 DEF Open
<1>4. CASE good
  <2>1. Counted' = Counted /\ Open = 1 /\ health'.streak = health.streak + 1
    BY <1>1, <1>2, <1>4 DEF Counted, Open
  <2>. QED
    BY <1>0, <1>1, <1>3, <2>1, CountedFinite DEF Tallied
<1>5. CASE ~good
  <2>1. health'.streak = 0 /\ 0 <= Cardinality(Counted')
    BY <1>2, <1>5, CountedFinite
  <2>. QED
    BY <1>1, <1>3, <2>1 DEF Tallied
<1>. QED
  BY <1>4, <1>5

LEMMA TallyKept == TypeOK /\ Tallied /\ [Next]_vars => Tallied'
<1>. SUFFICES ASSUME TypeOK, Tallied, [Next]_vars PROVE Tallied'
  OBVIOUS
<1>. USE TypeInvariant
<1>0. pc \in [Runs -> Steps] /\ Service \in Runs /\ Open \in {0, 1} /\ health \in Healths
  BY StepsNamed DEF TypeOK, Open
<1>1. CASE UNCHANGED vars \/ Tick
  <2>1. UNCHANGED <<local, rows, since, health, pc>>
    BY <1>1 DEF vars, Tick
  <2>2. Open' = Open /\ Counted' = Counted
    BY <2>1 DEF Open, Counted
  <2>. QED
    BY <2>1, <2>2 DEF Tallied
<1>2. ASSUME NEW r \in Runs, Refresh(r)
      PROVE  Tallied'
  <2>1. CASE Begin(r)
    <3>1. UNCHANGED <<local, rows, since>> /\ health'.streak = health.streak
      BY <1>0, <2>1 DEF Begin, Healths
    <3>2. CASE r = Service
      BY <1>0, <2>1, <3>1, <3>2, TallyElsewhere DEF Begin, Goes, Open
    <3>3. CASE r # Service
      BY <1>0, <2>1, <3>1, <3>3, TallyElsewhere DEF Begin, Goes, Open, InLoop, Tallied
    <3>. QED
      BY <3>2, <3>3
  <2>2. CASE Passes(r) \/ Opens(r) \/ Drain(r) \/ Commit(r) \/ Publish(r) \/ Archive(r)
             \/ ReadHistory(r)
    <3>1. UNCHANGED <<local, rows, since, health>>
      BY <2>2 DEF Passes, Opens, Drain, Commit, Publish, Archive, ReadHistory
    <3>2. PICK step \in {"open", "drain", "commit", "publish", "archive", "record", "replace"} :
            pc' = [pc EXCEPT ![r] = step]
      BY <2>2 DEF Passes, Opens, Drain, Commit, Publish, Archive, ReadHistory, Goes
    <3>. QED
      BY <1>0, <3>1, <3>2, TallyElsewhere DEF Open, Tallied
  <2>3. CASE Refused(r) \/ Die(r)
    <3>1. UNCHANGED <<local, rows, since>> /\ health'.streak = health.streak
          /\ Fails(r)
      BY <1>0, <2>3 DEF Refused, Die, Fails, Healths
    <3>2. PICK step \in {"idle", "lock", "finish"} :
            pc' = [pc EXCEPT ![r] = step] /\ (step = "finish" => InLoop(r))
      BY <2>3 DEF Refused, Die, Ends, Goes
    <3>3. CASE InLoop(r)
      <4>1. health'.failed
        BY <1>0, <3>1, <3>3 DEF Fails, Healths
      <4>. QED
        BY <1>0, <3>1, <3>2, <3>3, <4>1, TallyElsewhere DEF InLoop, Open
    <3>4. CASE ~InLoop(r)
      <4>1. health' = health
        BY <1>0, <3>1, <3>4 DEF Fails, Healths
      <4>. QED
        BY <1>0, <3>1, <3>2, <3>4, <4>1, TallyElsewhere DEF InLoop, Open, Tallied
    <3>. QED
      BY <3>3, <3>4
  <2>4. CASE Report(r)
    <3>1. UNCHANGED <<local, rows, since, health>> /\ pc[r] = "report"
      BY <2>4 DEF Report
    <3>2. pc' = [pc EXCEPT ![r] = IF r = Service /\ ~local THEN "diagnose"
                                  ELSE IF InLoop(r) THEN "finish" ELSE "idle"]
      BY <2>4 DEF Report, Ends, Goes
    <3>. QED
      BY <1>0, <3>1, <3>2, TallyElsewhere DEF Open, InLoop, Tallied
  <2>5. CASE Replace(r)
    BY <2>5, TallyReplaced
  <2>6. CASE Beaten(r)
    BY <2>6, TallyBeaten
  <2>. QED
    BY <1>2, <2>1, <2>2, <2>3, <2>4, <2>5, <2>6 DEF Refresh
<1>3. CASE StageBegins \/ StageEnds \/ Locks
  <2>1. UNCHANGED <<local, rows, since>> /\ health'.streak = health.streak
    BY <1>0, <1>3 DEF StageBegins, StageEnds, Locks, Fails, Healths
  <2>2. PICK step \in {"staging", "lock", "gate"} : pc' = [pc EXCEPT ![Service] = step]
    BY <1>3 DEF StageBegins, StageEnds, Locks, Goes
  <2>. QED
    BY <1>0, <2>1, <2>2, TallyElsewhere DEF Open
<1>4. CASE Defers
  <2>1. UNCHANGED <<local, rows, since>> /\ health'.streak = health.streak
        /\ (local => health'.failed)
    BY <1>0, <1>4 DEF Defers, Fails, Healths, InLoop
  <2>2. pc' = [pc EXCEPT ![Service] = IF local THEN "finish" ELSE "idle"]
    BY <1>4 DEF Defers, Ends, Goes, InLoop
  <2>. QED
    BY <1>0, <2>1, <2>2, TallyElsewhere DEF Open
<1>5. CASE Diagnose \/ AppendShadow
  <2>1. UNCHANGED <<local, rows, since, health>> /\ pc[Service] \in {"diagnose", "append"}
    BY <1>5 DEF Diagnose, AppendShadow
  <2>2. ~local
    BY <2>1 DEF Tallied
  <2>3. pc'[Service] # "finish"
    BY <1>0, <1>5, <2>2 DEF Diagnose, AppendShadow, Ends, Goes, InLoop
  <2>. QED
    BY <2>1, <2>2, <2>3, TallyElsewhere
<1>6. CASE Finishes
  BY <1>6, TallyFinishes
<1>7. CASE LoopDies
  <2>1. UNCHANGED <<local, rows, since, health>> /\ pc' = [pc EXCEPT ![Service] = "idle"]
    BY <1>7 DEF LoopDies, Goes
  <2>. QED
    BY <1>0, <2>1, TallyElsewhere DEF Open
<1>. QED
  BY <1>1, <1>2, <1>3, <1>4, <1>5, <1>6, <1>7 DEF Next

LEMMA TallyInit == Init => Tallied
<1>. SUFFICES ASSUME Init PROVE Tallied
  OBVIOUS
<1>1. pc[Service] = "idle" /\ health.streak = 0 /\ Open = 0 /\ rows = <<>>
  BY StepsNamed DEF Init, NoHealth, Open
<1>2. Counted = {}
  BY <1>1 DEF Counted
<1>3. Cardinality(Counted) = 0
  BY <1>2, FS_EmptySet
<1>. QED
  BY <1>1, <1>3 DEF Tallied

LEMMA CreditEarns == TypeOK /\ Credited /\ Tallied => GateEarned
<1>. SUFFICES ASSUME TypeOK, Credited, Tallied PROVE GateEarned
  OBVIOUS
<1>1. ReportGate => Earned(report.cycle)
  BY DEF Credited, Credit, ReportGate, Earned
<1>2. HealthGate => Cardinality(Counted) >= Required
  <2>1. health.streak \in Nat /\ Open \in {0, 1}
    BY DEF TypeOK, Healths, Open
  <2>. QED
    BY <2>1, CountedFinite DEF HealthGate, Tallied
<1>. QED
  BY <1>1, <1>2 DEF GateEarned

\* The gate to paper orders is open by the report only for a cycle recorded as
\* healthy not too long ago, at the end of a streak of healthy cycles if each was
\* recorded beside no other refresh; and by the health file only when as many
\* cycles of the loop were recorded since one of them failed.
THEOREM GateIsEarned == Spec => []GateEarned
  BY TypeInit, TypeInvariant, FollowedInit, FollowedKept, CreditInit, CreditKept,
     TallyInit, TallyKept, CreditEarns, PTL DEF Spec

-----------------------------------------------------------------------------
(* Quotes that are lost *)

\* Refreshes by hand that may still move a file.
Hands == {r \in Operators : pc[r] \in {"gate", "open", "drain", "commit", "publish", "archive"}}

\* Quotes that were moved away without having been imported.
Lost == archived \ stored

\* A staging whose file was moved away under it loses what it is writing.
Owed == IF pc[Service] = "staging" /\ file = NoFile THEN 1 ELSE 0

\* Every loss is paid for by a refresh by hand, of which each may cause one.
Paid == IsFiniteSet(Hands) /\ Cardinality(Lost) + Cardinality(Hands) + Owed <= byHand

\* The file the service moves is the one it has imported: only the service stages.
OwnFile ==
  /\ pc[Service] \in {"commit", "publish", "archive"} => file \in {took[Service], NoFile}
  /\ pc[Service] \in {"publish", "archive"} => Quotes(took[Service].fetch) \subseteq stored
  /\ pc[Service] = "staging" => file \in {Torn, NoFile}

LEMMA NoQuotes == Quotes(0) = {} /\ NoFile.fetch = 0 /\ Torn.fetch = 0 /\ NoFile # Torn
  BY DEF Quotes, NoFile, Torn

LEMMA OwnFileInit == Init => OwnFile
  BY StepsNamed DEF Init, OwnFile

LEMMA OwnFileKept == TypeOK /\ OwnFile /\ [Next]_vars => OwnFile'
<1>. SUFFICES ASSUME TypeOK, OwnFile, [Next]_vars PROVE OwnFile'
  OBVIOUS
<1>0. pc \in [Runs -> Steps] /\ took \in [Runs -> Files] /\ Service \in Runs
  BY StepsNamed DEF TypeOK
<1>1. CASE UNCHANGED vars
  BY <1>1 DEF vars, OwnFile
<1>2. ASSUME NEW r \in Runs, Refresh(r)
      PROVE  OwnFile'
  <2>1. CASE Begin(r) \/ Passes(r) \/ Opens(r)
    BY <1>0, <2>1 DEF OwnFile, Begin, Passes, Opens, Goes
  <2>2. CASE Refused(r) \/ Beaten(r) \/ Die(r)
    BY <1>0, <2>2 DEF OwnFile, Refused, Beaten, Die, GoesOn, InLoop, Mishap, Ends, Goes, Forgets
  <2>3. CASE Drain(r)
    BY <1>0, <2>3 DEF OwnFile, Drain, LeavesFile, Goes
  <2>4. CASE Commit(r)
    BY <1>0, <2>4 DEF OwnFile, Commit, Goes
  <2>5. CASE Publish(r)
    BY <1>0, <2>5 DEF OwnFile, Publish, Goes
  <2>6. CASE Archive(r)
    BY <1>0, <2>6 DEF OwnFile, Archive, Goes
  <2>7. CASE ReadHistory(r) \/ Replace(r)
    BY <1>0, <2>7 DEF OwnFile, ReadHistory, Replace, Goes
  <2>8. CASE Report(r)
    BY <1>0, <2>8 DEF OwnFile, Report, Ends, Goes, Forgets
  <2>. QED
    BY <1>2, <2>1, <2>2, <2>3, <2>4, <2>5, <2>6, <2>7, <2>8 DEF Refresh
<1>3. CASE StageBegins \/ StageEnds
  BY <1>0, <1>3 DEF OwnFile, StageBegins, StageEnds, Goes
<1>4. CASE Defers \/ Locks \/ Diagnose \/ AppendShadow \/ Finishes \/ LoopDies
  BY <1>0, <1>4 DEF OwnFile, Defers, Locks, Diagnose, AppendShadow, Finishes, LoopDies, Mishap, Ends, Goes, Forgets
<1>5. CASE Tick
  BY <1>5 DEF OwnFile, Tick
<1>. QED
  BY <1>1, <1>2, <1>3, <1>4, <1>5 DEF Next

LEMMA FewFetches ==
  ASSUME NEW S \in SUBSET (1..MaxFetches)
  PROVE  IsFiniteSet(S) /\ Cardinality(S) \in Nat
<1>1. IsFiniteSet(1..MaxFetches)
  BY FS_Interval
<1>. QED
  BY <1>1, FS_Subset, FS_CardinalityType

LEMMA LostFinite ==
  /\ TypeOK => IsFiniteSet(Lost) /\ Cardinality(Lost) \in Nat
  /\ TypeOK' => IsFiniteSet(Lost') /\ Cardinality(Lost') \in Nat
<1>1. TypeOK => Lost \in SUBSET (1..MaxFetches)
  BY DEF TypeOK, Lost
<1>2. TypeOK' => Lost' \in SUBSET (1..MaxFetches)
  BY DEF TypeOK, Lost
<1>. QED
  BY <1>1, <1>2, FewFetches

LEMMA OneMore ==
  ASSUME NEW S, IsFiniteSet(S), NEW f, NEW T \in SUBSET (S \cup {f})
  PROVE  Cardinality(T) <= Cardinality(S) + 1
<1>1. IsFiniteSet(S \cup {f}) /\ Cardinality(S \cup {f}) \in {Cardinality(S), Cardinality(S) + 1}
  BY FS_AddElement
<1>2. IsFiniteSet(T) /\ Cardinality(T) <= Cardinality(S \cup {f})
  BY <1>1, FS_Subset
<1>. QED
  BY <1>1, <1>2, FS_CardinalityType

\* Steps that lose nothing and begin nothing.
LEMMA PaidElsewhere ==
  ASSUME TypeOK, TypeOK', Paid, Lost' \subseteq Lost, Hands' \subseteq Hands,
         Owed' <= Owed, byHand' = byHand
  PROVE  Paid'
<1>1. IsFiniteSet(Hands) /\ Cardinality(Lost) + Cardinality(Hands) + Owed <= byHand
  BY DEF Paid
<1>2. IsFiniteSet(Hands') /\ Cardinality(Hands') <= Cardinality(Hands)
  BY <1>1, FS_Subset
<1>3. Cardinality(Lost') <= Cardinality(Lost)
  BY LostFinite, FS_Subset
<1>4. Cardinality(Hands) \in Nat /\ Cardinality(Hands') \in Nat /\ Cardinality(Lost) \in Nat
      /\ Cardinality(Lost') \in Nat
  BY <1>1, <1>2, <1>3, LostFinite, FS_Subset, FS_CardinalityType
<1>5. Owed \in Nat /\ Owed' \in Nat /\ byHand \in Nat
  BY DEF Owed, TypeOK
<1>. QED
  BY <1>1, <1>2, <1>3, <1>4, <1>5 DEF Paid

LEMMA PaidBegin ==
  ASSUME TypeOK, Paid, NEW r \in Runs, Begin(r)
  PROVE  Paid'
<1>0. pc \in [Runs -> Steps] /\ Service \in Runs /\ Operators \subseteq Runs
  BY DEF TypeOK, Runs
<1>1. Lost' = Lost /\ Owed' = Owed
  BY <1>0 DEF Begin, Goes, Lost, Owed
<1>2. CASE r = Service
  <2>1. Hands' = Hands /\ byHand' = byHand
    BY <1>0, <1>2 DEF Begin, Goes, Hands
  <2>. QED
    BY <1>1, <2>1 DEF Paid
<1>3. CASE r # Service
  <2>1. r \notin Hands /\ Hands' = Hands \cup {r} /\ byHand' = byHand + 1
    BY <1>0, <1>3 DEF Begin, Goes, Hands, Runs
  <2>2. IsFiniteSet(Hands') /\ Cardinality(Hands') = Cardinality(Hands) + 1
    BY <2>1, FS_AddElement DEF Paid
  <2>3. Cardinality(Hands) \in Nat /\ Cardinality(Lost) \in Nat /\ Owed \in Nat /\ byHand \in Nat
    BY LostFinite, FS_CardinalityType DEF Paid, Owed, TypeOK
  <2>. QED
    BY <1>1, <2>1, <2>2, <2>3 DEF Paid
<1>. QED
  BY <1>2, <1>3

\* A staging that fills a file where it was moved to loses its quotes.
LEMMA PaidStaging ==
  ASSUME TypeOK, TypeOK', Paid, StageEnds
  PROVE  Paid'
<1>0. pc \in [Runs -> Steps] /\ Service \in Runs /\ Service \notin Operators
  BY StepsNamed DEF TypeOK
<1>1. Hands' = Hands /\ byHand' = byHand /\ Owed' = 0
  BY <1>0 DEF StageEnds, Goes, Hands, Owed
<1>2. CASE file # NoFile
  <2>1. Lost' = Lost
    BY <1>2 DEF StageEnds, Lost
  <2>2. 0 <= Owed
    BY DEF Owed
  <2>. QED
    BY <1>1, <2>1, <2>2, PaidElsewhere
<1>3. CASE file = NoFile
  <2>1. PICK f : archived' = archived \cup Quotes(f)
    BY <1>3 DEF StageEnds
  <2>2. Lost' \subseteq Lost \cup {f}
    BY <2>1 DEF StageEnds, Lost, Quotes
  <2>3. Cardinality(Lost') <= Cardinality(Lost) + 1
    BY <2>2, LostFinite, OneMore
  <2>4. Owed = 1
    BY <1>3 DEF StageEnds, Owed
  <2>5. Cardinality(Hands) \in Nat /\ Cardinality(Lost) \in Nat /\ Cardinality(Lost') \in Nat
        /\ byHand \in Nat
    BY LostFinite, FS_CardinalityType DEF Paid, TypeOK
  <2>. QED
    BY <1>1, <2>3, <2>4, <2>5 DEF Paid
<1>. QED
  BY <1>2, <1>3

\* A refresh by hand moves whatever has the name, and may do so no more.
LEMMA PaidArchive ==
  ASSUME TypeOK, TypeOK', Paid, OwnFile, NEW r \in Runs, Archive(r)
  PROVE  Paid'
<1>0. pc \in [Runs -> Steps] /\ Service \in Runs /\ Operators \subseteq Runs
      /\ Service \notin Operators
  BY DEF TypeOK, Runs
<1>1. byHand' = byHand /\ stored' = stored
  BY DEF Archive
<1>2. CASE r = Service
  <2>1. Lost' = Lost
    BY <1>1, <1>2, NoQuotes DEF Archive, OwnFile, Lost
  <2>2. Hands' = Hands
    BY <1>0, <1>2 DEF Archive, Goes, Hands
  <2>3. Owed' <= Owed
    BY <1>0, <1>2 DEF Archive, Goes, Owed
  <2>. QED
    BY <1>1, <2>1, <2>2, <2>3, PaidElsewhere
<1>3. CASE r # Service
  <2>1. r \in Hands /\ Hands' = Hands \ {r}
    BY <1>0, <1>3 DEF Archive, Goes, Hands, Runs
  <2>2. IsFiniteSet(Hands') /\ Cardinality(Hands') = Cardinality(Hands) - 1
    BY <2>1, FS_RemoveElement DEF Paid
  <2>3. Cardinality(Lost') + Owed' <= Cardinality(Lost) + Owed + 1
    <3>0. Cardinality(Lost) \in Nat /\ Cardinality(Lost') \in Nat /\ Owed \in Nat
          /\ pc'[Service] = pc[Service]
      BY <1>0, <1>3, LostFinite DEF Owed, Archive, Goes
    <3>1. CASE ~Moves(r)
      BY <1>1, <3>0, <3>1 DEF Archive, Lost, Owed
    <3>2. CASE Moves(r) /\ pc[Service] = "staging"
      <4>1. Lost' = Lost
        BY <1>1, <3>2, NoQuotes DEF Archive, Moves, OwnFile, Lost
      <4>2. Owed' \in {0, 1}
        BY DEF Owed
      <4>. QED
        BY <3>0, <4>1, <4>2
    <3>3. CASE Moves(r) /\ pc[Service] # "staging"
      <4>1. Lost' \subseteq Lost \cup {file.fetch}
        BY <1>1, <3>3 DEF Archive, Lost, Quotes
      <4>2. Cardinality(Lost') <= Cardinality(Lost) + 1
        BY <4>1, LostFinite, OneMore
      <4>3. Owed' = 0
        BY <3>0, <3>3 DEF Owed
      <4>. QED
        BY <3>0, <4>2, <4>3
    <3>. QED
      BY <3>1, <3>2, <3>3
  <2>4. Cardinality(Hands) \in Nat /\ Cardinality(Lost) \in Nat /\ Cardinality(Lost') \in Nat
        /\ byHand \in Nat /\ Owed \in Nat /\ Owed' \in Nat
    BY LostFinite, FS_CardinalityType DEF Paid, TypeOK, Owed
  <2>. QED
    BY <1>1, <2>2, <2>3, <2>4 DEF Paid
<1>. QED
  BY <1>2, <1>3

LEMMA PaidKept == TypeOK /\ OwnFile /\ Paid /\ [Next]_vars => Paid'
<1>. SUFFICES ASSUME TypeOK, OwnFile, Paid, [Next]_vars PROVE Paid'
  OBVIOUS
<1>. USE TypeInvariant
<1>0. pc \in [Runs -> Steps] /\ Service \in Runs /\ Operators \subseteq Runs
      /\ Service \notin Operators /\ Owed <= Owed /\ 0 <= Owed
  BY DEF TypeOK, Runs, Owed
<1>1. CASE UNCHANGED vars \/ Tick
  BY <1>1 DEF vars, Tick, Paid, Hands, Lost, Owed
<1>2. ASSUME NEW r \in Runs, Refresh(r)
      PROVE  Paid'
  <2>1. CASE Begin(r)
    BY <2>1, PaidBegin
  <2>2. CASE Archive(r)
    BY <2>2, PaidArchive
  <2>3. ASSUME Lost' \subseteq Lost, byHand' = byHand, file' = file,
               \A o \in Runs \ {r} : pc'[o] = pc[o],
               pc'[r] # "staging", r \in Hands' => r \in Hands
        PROVE  Paid'
    <3>1. Hands' \subseteq Hands
      BY <1>0, <2>3 DEF Hands
    <3>2. Owed' <= Owed
      BY <1>0, <2>3 DEF Owed
    <3>. QED
      BY <2>3, <3>1, <3>2, PaidElsewhere
  <2>4. CASE Refused(r) \/ Beaten(r) \/ Die(r)
    BY <1>0, <2>3, <2>4 DEF Refused, Beaten, Die, GoesOn, InLoop, Mishap, Ends, Goes, Lost, Hands, Forgets
  <2>5. CASE Passes(r) \/ Opens(r)
    BY <1>0, <2>3, <2>5 DEF Passes, Opens, Goes, Lost, Hands
  <2>6. CASE Drain(r) \/ Publish(r)
    BY <1>0, <2>3, <2>6 DEF Drain, LeavesFile, Publish, Goes, Lost, Hands
  <2>7. CASE Commit(r)
    BY <1>0, <2>3, <2>7 DEF Commit, Goes, Lost, Hands
  <2>8. CASE ReadHistory(r) \/ Replace(r)
    BY <1>0, <2>3, <2>8 DEF ReadHistory, Replace, Goes, Lost, Hands
  <2>9. CASE Report(r)
    BY <1>0, <2>3, <2>9 DEF Report, Ends, Goes, Lost, Hands, Forgets
  <2>. QED
    BY <1>2, <2>1, <2>2, <2>4, <2>5, <2>6, <2>7, <2>8, <2>9 DEF Refresh
<1>3. CASE StageEnds
  BY <1>3, PaidStaging
<1>4. CASE StageBegins
  <2>1. Lost' = Lost /\ Hands' = Hands /\ byHand' = byHand /\ Owed' = 0
    BY <1>0, <1>4, NoQuotes DEF StageBegins, Goes, Lost, Hands, Owed
  <2>. QED
    BY <1>0, <2>1, PaidElsewhere
<1>5. CASE Defers \/ Locks \/ Diagnose \/ AppendShadow \/ Finishes \/ LoopDies
  <2>1. Lost' = Lost /\ Hands' = Hands /\ byHand' = byHand /\ Owed' = 0
    BY <1>0, <1>5 DEF Defers, Locks, Diagnose, AppendShadow, Finishes, LoopDies, Mishap, Ends, Goes, Lost, Hands, Owed, Forgets
  <2>. QED
    BY <1>0, <2>1, PaidElsewhere
<1>. QED
  BY <1>1, <1>2, <1>3, <1>4, <1>5 DEF Next

LEMMA PaidInit == Init => Paid
<1>. SUFFICES ASSUME Init PROVE Paid
  OBVIOUS
<1>1. Hands = {} /\ Lost = {} /\ Owed = 0 /\ byHand = 0
  BY DEF Init, Hands, Lost, Owed, Runs
<1>. QED
  BY <1>1, FS_EmptySet DEF Paid

LEMMA PaidBounds == TypeOK /\ Paid => QuotesLostOnlyByHand
<1>. SUFFICES ASSUME TypeOK, Paid PROVE QuotesLostOnlyByHand
  OBVIOUS
<1>1. Cardinality(Hands) \in Nat /\ Cardinality(Lost) \in Nat /\ byHand \in Nat /\ Owed \in Nat
  BY LostFinite, FS_CardinalityType DEF Paid, TypeOK, Owed
<1>. QED
  BY <1>1 DEF Paid, QuotesLostOnlyByHand, Lost

\* Quotes are moved away without having been imported at most once for each
\* refresh by hand.
THEOREM LossesAreByHand == Spec => []QuotesLostOnlyByHand
  BY TypeInit, TypeInvariant, OwnFileInit, OwnFileKept, PaidInit, PaidKept, PaidBounds, PTL
     DEF Spec
-----------------------------------------------------------------------------
(* Quotes that are imported again *)

\* Refreshes that have yet to commit, and those that have yet to move the file
\* they imported.
Importing == {r \in Runs : pc[r] \in {"drain", "commit"}}
Movers == {r \in Runs : pc[r] \in {"publish", "archive"} /\ took[r] # NoFile}

\* Quotes that are stored already are in the file, or in what is about to commit.
Here == Quotes(file.fetch) \cap stored # {}
Held == \E r \in Runs : pc[r] = "commit" /\ Quotes(took[r].fetch) \cap stored # {}

\* How many repeats are under way: each refresh that has yet to commit may be
\* one, but the first only when stored quotes are left to be found.
Risk(I, moving, here, held) ==
  IF I = {} THEN IF ~moving /\ here THEN 1 ELSE 0
  ELSE Cardinality(I) - (IF moving \/ here \/ held THEN 0 ELSE 1)
AtRisk == Risk(Importing, Movers # {}, Here, Held)

\* Every repeat, those under way included, is paid for by a mishap.
Budget == IsFiniteSet(Importing) /\ repeats + AtRisk <= mishaps

OneWrites == \A r, o \in Runs : pc[r] = "commit" /\ pc[o] = "commit" => r = o

\* Quotes are numbered as they are fetched.
Numbered ==
  /\ stored \subseteq 1..fetches /\ file.fetch <= fetches
  /\ \A r \in Runs : took[r].fetch <= fetches

LEMMA RiskValue ==
  ASSUME NEW I, IsFiniteSet(I), NEW m \in BOOLEAN, NEW h \in BOOLEAN, NEW c \in BOOLEAN
  PROVE  /\ Risk(I, m, h, c) \in Nat /\ Cardinality(I) \in Nat
         /\ I = {} => /\ Risk(I, m, h, c) <= 1
                      /\ m \/ ~h => Risk(I, m, h, c) = 0
                      /\ ~m /\ h => Risk(I, m, h, c) = 1
         /\ I # {} => /\ Cardinality(I) >= 1
                      /\ Risk(I, m, h, c) \in {Cardinality(I) - 1, Cardinality(I)}
                      /\ m \/ h \/ c => Risk(I, m, h, c) = Cardinality(I)
                      /\ ~m /\ ~h /\ ~c => Risk(I, m, h, c) = Cardinality(I) - 1
<1>1. Cardinality(I) \in Nat /\ (I # {} => Cardinality(I) # 0)
  BY FS_CardinalityType, FS_EmptySet
<1>. QED
  BY <1>1 DEF Risk

LEMMA RiskNow ==
  /\ (Movers # {}) \in BOOLEAN /\ Here \in BOOLEAN /\ Held \in BOOLEAN
  /\ (Movers' # {}) \in BOOLEAN /\ Here' \in BOOLEAN /\ Held' \in BOOLEAN
  BY DEF Here, Held

LEMMA RiskBounds ==
  /\ IsFiniteSet(Importing) =>
       /\ AtRisk \in Nat /\ Cardinality(Importing) \in Nat
       /\ Importing = {} => AtRisk <= 1
       /\ Importing # {} => AtRisk \in {Cardinality(Importing) - 1, Cardinality(Importing)}
  /\ IsFiniteSet(Importing') =>
       /\ AtRisk' \in Nat /\ Cardinality(Importing') \in Nat
       /\ Importing' = {} => AtRisk' <= 1
       /\ Importing' # {} => AtRisk' \in {Cardinality(Importing') - 1, Cardinality(Importing')}
<1>1. AtRisk = Risk(Importing, Movers # {}, Here, Held)
      /\ AtRisk' = Risk(Importing', Movers' # {}, Here', Held')
  BY DEF AtRisk
<1>. QED
  BY <1>1, RiskValue, RiskNow

\* With the same refreshes importing, less left to be found is less at risk.
LEMMA RiskFalls ==
  ASSUME NEW I, IsFiniteSet(I),
         NEW m \in BOOLEAN, NEW h \in BOOLEAN, NEW c \in BOOLEAN,
         NEW n \in BOOLEAN, NEW k \in BOOLEAN, NEW d \in BOOLEAN,
         n => m, k => h, d => c \/ h, ~n => ~m \/ ~k
  PROVE  Risk(I, n, k, d) <= Risk(I, m, h, c)
<1>1. CASE I = {}
  BY <1>1, RiskValue
<1>2. CASE I # {}
  BY <1>2, RiskValue
<1>. QED
  BY <1>1, <1>2

LEMMA Cheaper ==
  ASSUME NEW a \in Nat, NEW x \in Nat, NEW y \in Nat, NEW m \in Nat, a + x <= m, y <= x
  PROVE  a + y <= m
  OBVIOUS

LEMMA BudgetFalls ==
  ASSUME TypeOK, TypeOK', Budget,
         Importing' = Importing, Movers' # {} => Movers # {}, Here' => Here, Held' => Held \/ Here,
         Movers' = {} => Movers = {} \/ ~Here',
         repeats' = repeats, mishaps' = mishaps
  PROVE  Budget'
<1>1. IsFiniteSet(Importing) /\ IsFiniteSet(Importing') /\ repeats + AtRisk <= mishaps
  BY DEF Budget
<1>2. AtRisk' <= AtRisk
  BY <1>1, RiskFalls, RiskNow DEF AtRisk
<1>3. AtRisk \in Nat /\ AtRisk' \in Nat
  BY <1>1, RiskBounds
<1>4. repeats \in Nat /\ mishaps \in Nat
  BY DEF TypeOK
<1>5. repeats' + AtRisk' <= mishaps'
  <2>1. repeats + AtRisk' <= mishaps
    BY <1>1, <1>2, <1>3, <1>4, Cheaper
  <2>. QED
    BY <2>1
<1>. QED
  BY <1>1, <1>5 DEF Budget

LEMMA BudgetTyped ==
  ASSUME TypeOK, Budget
  PROVE  IsFiniteSet(Importing) /\ AtRisk \in Nat /\ repeats \in Nat /\ mishaps \in Nat
         /\ repeats + AtRisk <= mishaps
  BY RiskValue, RiskNow DEF Budget, AtRisk, TypeOK

\* A refresh that opens the database alone risks what is there to be found; one
\* that opens it beside another is a mishap.
LEMMA BudgetOpens ==
  ASSUME TypeOK, Budget, NEW r \in Runs, Opens(r)
  PROVE  Budget'
<1>0. pc \in [Runs -> Steps] /\ pc[r] = "open"
  BY DEF TypeOK, Opens
<1>1. r \notin Importing /\ Importing' = Importing \cup {r} /\ Movers' = Movers
      /\ Here' = Here /\ Held' = Held /\ repeats' = repeats
  BY <1>0 DEF Opens, Goes, Importing, Movers, Here, Held
<1>2. IsFiniteSet(Importing') /\ Cardinality(Importing') = Cardinality(Importing) + 1
      /\ Importing' # {} /\ Cardinality(Importing) \in Nat
  BY <1>1, BudgetTyped, FS_AddElement, FS_CardinalityType
<1>3. CASE WriterSeen(r)
  <2>1. mishaps' = mishaps + 1
    BY <1>3 DEF Opens
  <2>2. AtRisk' <= AtRisk + 1 /\ AtRisk' \in Nat
    <3>1. CASE Importing = {}
      <4>1. Cardinality(Importing') = 1
        BY <1>2, <3>1, FS_EmptySet
      <4>2. AtRisk' \in {0, 1}
        BY <1>2, <4>1, RiskBounds
      <4>. QED
        BY <4>2, BudgetTyped
    <3>2. CASE Importing # {}
      <4>1. Risk(Importing', Movers # {}, Here, Held) = Risk(Importing, Movers # {}, Here, Held) + 1
        BY <1>2, <3>2, BudgetTyped, RiskValue, RiskNow DEF Risk
      <4>. QED
        BY <1>1, <4>1, BudgetTyped DEF AtRisk
    <3>. QED
      BY <3>1, <3>2
  <2>. QED
    BY <1>1, <1>2, <2>1, <2>2, BudgetTyped DEF Budget
<1>4. CASE ~WriterSeen(r)
  <2>1. mishaps' = mishaps
    BY <1>4 DEF Opens
  <2>2. Importing = {} /\ Movers = {} /\ ~Held
    BY <1>0, <1>4 DEF WriterSeen, Importing, Movers, Held, Core
  <2>3. AtRisk' = AtRisk
    <3>1. Cardinality(Importing') = 1
      BY <1>2, <2>2, FS_EmptySet
    <3>2. AtRisk = IF Here THEN 1 ELSE 0
      BY <2>2 DEF AtRisk, Risk
    <3>3. AtRisk' = IF Here THEN 1 ELSE 0
      BY <1>1, <1>2, <2>2, <3>1 DEF AtRisk, Risk
    <3>. QED
      BY <3>2, <3>3
  <2>. QED
    BY <1>1, <1>2, <2>1, <2>3, BudgetTyped DEF Budget
<1>. QED
  BY <1>3, <1>4

\* One refresh fewer imports, and it repeats nothing.
LEMMA BudgetLess ==
  ASSUME TypeOK, TypeOK', Budget, NEW r \in Importing, Importing' = Importing \ {r},
         Importing' = {} /\ Movers' = {} /\ Here' => Movers = {} /\ Here,
         repeats' = repeats, mishaps' = mishaps
  PROVE  Budget'
<1>1. IsFiniteSet(Importing') /\ Cardinality(Importing') = Cardinality(Importing) - 1
      /\ Cardinality(Importing) \in Nat /\ Importing # {}
  BY BudgetTyped, FS_RemoveElement, FS_CardinalityType
<1>2. AtRisk' <= AtRisk
  <2>1. CASE Importing' = {}
    <3>1. Cardinality(Importing) = 1
      BY <1>1, <2>1, FS_EmptySet
    <3>2. AtRisk = IF Movers # {} \/ Here \/ Held THEN 1 ELSE 0
      BY <1>1, <3>1 DEF AtRisk, Risk
    <3>3. AtRisk' = IF Movers' = {} /\ Here' THEN 1 ELSE 0
      BY <2>1 DEF AtRisk, Risk
    <3>. QED
      BY <2>1, <3>2, <3>3
  <2>2. CASE Importing' # {}
    <3>1. AtRisk' <= Cardinality(Importing')
      BY <1>1, <2>2, RiskBounds
    <3>2. AtRisk >= Cardinality(Importing) - 1
      BY <1>1, BudgetTyped, RiskBounds
    <3>. QED
      BY <1>1, <3>1, <3>2, RiskBounds, BudgetTyped
  <2>. QED
    BY <2>1, <2>2
<1>3. AtRisk' \in Nat
  BY <1>1, RiskBounds
<1>. QED
  BY <1>1, <1>2, <1>3, BudgetTyped DEF Budget

\* A commit that repeats quotes was at risk in full, and there are fewer after it.
LEMMA BudgetCommit ==
  ASSUME TypeOK, TypeOK', Budget, OneWrites, NEW r \in Runs, Commit(r)
  PROVE  Budget'
<1>0. pc \in [Runs -> Steps] /\ took \in [Runs -> Files] /\ pc[r] = "commit"
  BY DEF TypeOK, Commit
<1>. DEFINE again == Quotes(took[r].fetch) \cap stored
<1>1. r \in Importing /\ Importing' = Importing \ {r} /\ mishaps' = mishaps
      /\ took' = took /\ file' = file /\ repeats' = repeats + Cardinality(again)
  BY <1>0 DEF Commit, Goes, Importing
<1>2. Movers' = IF took[r] # NoFile THEN Movers \cup {r} ELSE Movers
  BY <1>0 DEF Commit, Goes, Movers
<1>3. CASE again = {}
  <2>1. repeats' = repeats
    <3>1. Cardinality(again) = 0
      BY <1>3, FS_EmptySet
    <3>. QED
      BY <1>1, <3>1, BudgetTyped
  <2>2. took[r] = NoFile => Here' = Here
    BY <1>1, NoQuotes DEF Commit, Here
  <2>3. Movers' = {} /\ Here' => Movers = {} /\ Here
    <3>1. CASE took[r] = NoFile
      BY <1>2, <2>2, <3>1
    <3>2. CASE took[r] # NoFile
      BY <1>2, <3>2
    <3>. QED
      BY <3>1, <3>2
  <2>. HIDE DEF again
  <2>. QED
    BY <1>1, <2>1, <2>3, BudgetLess
<1>4. CASE again # {}
  <2>1. again = {took[r].fetch} /\ repeats' = repeats + 1
    <3>1. again = {took[r].fetch}
      BY <1>4 DEF Quotes
    <3>2. Cardinality(again) = 1
      BY <3>1, FS_Singleton
    <3>. QED
      BY <1>1, <3>1, <3>2
  <2>2. took[r] # NoFile /\ r \in Movers'
    BY <1>2, <1>4, NoQuotes
  <2>3. Held
    BY <1>0, <1>4 DEF Held
  <2>4. IsFiniteSet(Importing') /\ Cardinality(Importing') = Cardinality(Importing) - 1
        /\ Cardinality(Importing) \in Nat /\ Importing # {}
    BY <1>1, BudgetTyped, FS_RemoveElement, FS_CardinalityType
  <2>5. AtRisk = Cardinality(Importing)
    BY <2>3, <2>4 DEF AtRisk, Risk
  <2>6. AtRisk' = Cardinality(Importing')
    <3>1. Importing' = {} => Cardinality(Importing') = 0
      BY FS_EmptySet
    <3>2. Movers' # {}
      BY <2>2
    <3>. QED
      BY <2>4, <3>1, <3>2 DEF AtRisk, Risk
  <2>. QED
    BY <1>1, <2>1, <2>4, <2>5, <2>6, BudgetTyped DEF Budget
<1>. QED
  BY <1>3, <1>4

\* Once the last of those that move the file has done so, there is none.
LEMMA BudgetArchive ==
  ASSUME TypeOK, TypeOK', Budget, NEW r \in Runs, Archive(r)
  PROVE  Budget'
<1>0. pc \in [Runs -> Steps] /\ took \in [Runs -> Files] /\ pc[r] = "archive"
  BY DEF TypeOK, Archive
<1>1. Importing' = Importing /\ Movers' = Movers \ {r} /\ Held' = Held
      /\ stored' = stored /\ repeats' = repeats /\ mishaps' = mishaps
  BY <1>0 DEF Archive, Goes, Importing, Movers, Held
<1>2. CASE took[r] = NoFile
  <2>1. Movers' = Movers /\ Here' = Here
    BY <1>1, <1>2 DEF Archive, Moves, Movers, Here
  <2>. QED
    BY <1>1, <2>1, BudgetFalls
<1>3. CASE took[r] # NoFile
  <2>1. file' = NoFile /\ ~Here'
    BY <1>3, NoQuotes DEF Archive, Moves, Here
  <2>2. Movers # {}
    BY <1>0, <1>3 DEF Movers
  <2>. QED
    BY <1>1, <2>1, <2>2, BudgetFalls
<1>. QED
  BY <1>2, <1>3

\* A refresh that dies before its commit repeats nothing; one that dies after it
\* leaves the file, which is a mishap.
LEMMA BudgetDie ==
  ASSUME TypeOK, TypeOK', Budget, NEW r \in Runs, Die(r) \/ (r = Service /\ LoopDies)
  PROVE  Budget'
<1>0. pc \in [Runs -> Steps] /\ took \in [Runs -> Files]
  BY DEF TypeOK
<1>4. PICK step \in {"idle", "finish", "lock"} : pc' = [pc EXCEPT ![r] = step]
  BY DEF Die, LoopDies, Ends, Goes
<1>5. /\ \A o \in Runs \ {r} : took'[o] = took[o]
      /\ UNCHANGED <<file, stored, repeats>> /\ Mishap(r)
  BY <1>0 DEF Die, LoopDies, Ends, Forgets
<1>1. /\ Importing' = Importing \ {r} /\ Movers' = Movers \ {r} /\ Here' = Here
      /\ repeats' = repeats /\ (Held' => Held)
  <2>1. Importing' = Importing \ {r}
    BY <1>0, <1>4 DEF Importing
  <2>2. Movers' = Movers \ {r}
    BY <1>0, <1>4, <1>5 DEF Movers
  <2>3. Held' => Held
    BY <1>0, <1>4, <1>5 DEF Held
  <2>. QED
    BY <1>5, <2>1, <2>2, <2>3 DEF Here
<1>2. CASE pc[r] \in {"publish", "archive"}
  <2>1. Importing' = Importing /\ mishaps' = mishaps + 1
    BY <1>1, <1>2, <1>5 DEF Mishap, Importing
  <2>2. AtRisk' <= AtRisk + 1 /\ AtRisk' \in Nat
    <3>1. IsFiniteSet(Importing')
      BY <2>1, BudgetTyped
    <3>. QED
      BY <2>1, <3>1, BudgetTyped, RiskBounds
  <2>. QED
    BY <1>1, <2>1, <2>2, BudgetTyped DEF Budget
<1>3. CASE pc[r] \notin {"publish", "archive"}
  <2>1. Movers' = Movers /\ mishaps' = mishaps
    BY <1>1, <1>3, <1>5 DEF Mishap, Movers
  <2>2. CASE r \in Importing
    BY <1>1, <2>1, <2>2, BudgetLess
  <2>3. CASE r \notin Importing
    BY <1>1, <2>1, <2>3, BudgetFalls
  <2>. QED
    BY <2>2, <2>3
<1>. QED
  BY <1>2, <1>3

LEMMA BudgetKept == TypeOK /\ Budget /\ OneWrites /\ Numbered /\ [Next]_vars => Budget'
<1>. SUFFICES ASSUME TypeOK, Budget, OneWrites, Numbered, [Next]_vars PROVE Budget'
  OBVIOUS
<1>. USE TypeInvariant
<1>0. pc \in [Runs -> Steps] /\ took \in [Runs -> Files] /\ Service \in Runs
  BY StepsNamed DEF TypeOK
<1>1. CASE UNCHANGED vars \/ Tick
  BY <1>1, BudgetFalls DEF vars, Tick, Importing, Movers, Here, Held
<1>2. ASSUME NEW r \in Runs, Refresh(r)
      PROVE  Budget'
  <2>1. CASE Opens(r)
    BY <2>1, BudgetOpens
  <2>2. CASE Commit(r)
    BY <2>2, BudgetCommit
  <2>3. CASE Archive(r)
    BY <2>3, BudgetArchive
  <2>4. CASE Die(r)
    BY <2>4, BudgetDie
  <2>5. CASE Drain(r)
    <3>1. Importing' = Importing /\ Movers' = Movers /\ Here' = Here
          /\ repeats' = repeats /\ mishaps' = mishaps
      BY <1>0, <2>5 DEF Drain, LeavesFile, Goes, Importing, Movers, Here
    <3>2. Held' => Held \/ Here
      BY <1>0, <2>5 DEF Drain, LeavesFile, Goes, Here, Held
    <3>. QED
      BY <3>1, <3>2, BudgetFalls
  <2>6. ASSUME Importing' = Importing, Movers' = Movers, Held' = Held, UNCHANGED quoteVars,
               repeats' = repeats, mishaps' = mishaps
        PROVE  Budget'
    BY <2>6, BudgetFalls DEF Here
  <2>7. CASE Begin(r) \/ Passes(r)
    BY <1>0, <2>6, <2>7 DEF Begin, Passes, Goes, Importing, Movers, Held
  <2>8. CASE Refused(r) \/ Beaten(r)
    BY <1>0, <2>6, <2>8 DEF Refused, Beaten, Ends, Goes, Importing, Movers, Held, Forgets
  <2>9. CASE Publish(r)
    BY <1>0, <2>6, <2>9 DEF Publish, Goes, Importing, Movers, Held
  <2>10. CASE ReadHistory(r) \/ Replace(r)
    BY <1>0, <2>6, <2>10 DEF ReadHistory, Replace, Goes, Importing, Movers, Held
  <2>11. CASE Report(r)
    BY <1>0, <2>6, <2>11 DEF Report, Ends, Goes, Importing, Movers, Held, Forgets
  <2>. QED
    BY <1>2, <2>1, <2>2, <2>3, <2>4, <2>5, <2>7, <2>8, <2>9, <2>10, <2>11 DEF Refresh
<1>3. CASE StageBegins \/ StageEnds
  <2>1. /\ Importing' = Importing /\ Movers' = Movers /\ Held' = Held
        /\ repeats' = repeats /\ mishaps' = mishaps
    BY <1>0, <1>3 DEF StageBegins, StageEnds, Goes, Importing, Movers, Held
  <2>2. Here' => Here
    <3>1. CASE StageBegins
      BY <3>1, NoQuotes DEF StageBegins, Here
    <3>2. CASE StageEnds
      <4>1. stored' = stored /\ (file' = file \/ file' = Staged(0) \/ file' = Staged(fetches + 1))
        BY <3>2 DEF StageEnds
      <4>2. fetches + 1 \notin stored
        BY DEF Numbered, TypeOK
      <4>. QED
        BY <4>1, <4>2, NoQuotes DEF Here, Staged, Quotes
    <3>. QED
      BY <1>3, <3>1, <3>2
  <2>. QED
    BY <2>1, <2>2, BudgetFalls
<1>4. CASE Defers \/ Locks \/ Diagnose \/ AppendShadow \/ Finishes
  <2>1. Importing' = Importing /\ Movers' = Movers /\ Held' = Held /\ Here' = Here
        /\ repeats' = repeats /\ mishaps' = mishaps
    BY <1>0, <1>4 DEF Defers, Locks, Diagnose, AppendShadow, Finishes, Ends, Goes, Importing,
         Movers, Held, Here, Forgets
  <2>. QED
    BY <2>1, BudgetFalls
<1>5. CASE LoopDies
  BY <1>0, <1>5, BudgetDie
<1>. QED
  BY <1>1, <1>2, <1>3, <1>4, <1>5 DEF Next

LEMMA OneWritesKept == TypeOK /\ OneWrites /\ [Next]_vars => OneWrites'
<1>. SUFFICES ASSUME TypeOK, OneWrites, [Next]_vars PROVE OneWrites'
  OBVIOUS
<1>0. pc \in [Runs -> Steps] /\ Service \in Runs
  BY StepsNamed DEF TypeOK
<1>1. ASSUME NEW r \in Runs, \A o \in Runs \ {r} : pc'[o] = pc[o],
             pc'[r] = "commit" => \A o \in Runs \ {r} : pc[o] # "commit"
      PROVE  OneWrites'
  BY <1>1 DEF OneWrites
<1>2. CASE UNCHANGED vars \/ Tick
  BY <1>2 DEF vars, Tick, OneWrites
<1>3. ASSUME NEW r \in Runs, Refresh(r)
      PROVE  OneWrites'
  <2>1. CASE Begin(r) \/ Passes(r) \/ Opens(r) \/ Drain(r) \/ Commit(r) \/ Publish(r)
    BY <1>0, <1>1, <2>1 DEF Begin, Passes, Opens, Drain, Commit, Publish, Goes
  <2>2. CASE Archive(r) \/ ReadHistory(r) \/ Replace(r) \/ Report(r) \/ Refused(r)
             \/ Beaten(r) \/ Die(r)
    BY <1>0, <1>1, <2>2 DEF Archive, ReadHistory, Replace, Report, Refused, Beaten, Die, GoesOn, InLoop, Mishap, Ends, Goes, Forgets
  <2>. QED
    BY <1>3, <2>1, <2>2 DEF Refresh
<1>4. CASE StageBegins \/ StageEnds \/ Defers \/ Locks \/ Diagnose \/ AppendShadow \/ Finishes \/ LoopDies
  BY <1>0, <1>1, <1>4 DEF StageBegins, StageEnds, Defers, Locks, Diagnose, AppendShadow, Finishes, LoopDies, Mishap, Ends, Goes, Forgets
<1>. QED
  BY <1>2, <1>3, <1>4 DEF Next

LEMMA NumberedKept == TypeOK /\ Numbered /\ [Next]_vars => Numbered'
<1>. SUFFICES ASSUME TypeOK, Numbered, [Next]_vars PROVE Numbered'
  OBVIOUS
<1>0. pc \in [Runs -> Steps] /\ took \in [Runs -> Files] /\ Service \in Runs
      /\ fetches \in Nat /\ file.fetch \in Nat
  BY StepsNamed DEF TypeOK, Files
<1>6. ASSUME NEW r \in Runs, UNCHANGED quoteVars,
             took' = took \/ took' = [took EXCEPT ![r] = NoFile]
      PROVE  Numbered'
  <2>1. \A o \in Runs : took'[o].fetch <= fetches
    BY <1>0, <1>6, NoQuotes DEF Numbered
  <2>. QED
    BY <1>6, <2>1 DEF Numbered
<1>1. CASE UNCHANGED vars \/ Tick
  BY <1>1 DEF vars, Tick, Numbered
<1>2. ASSUME NEW r \in Runs, Refresh(r)
      PROVE  Numbered'
  <2>1. CASE Begin(r) \/ Passes(r) \/ Opens(r) \/ Publish(r) \/ ReadHistory(r) \/ Replace(r)
    BY <2>1 DEF Begin, Passes, Opens, Publish, ReadHistory, Replace, Numbered
  <2>2. CASE Refused(r) \/ Beaten(r) \/ Report(r) \/ Die(r)
    <3>1. UNCHANGED quoteVars /\ (took' = took \/ took' = [took EXCEPT ![r] = NoFile])
      BY <2>2 DEF Refused, Beaten, Report, Die, GoesOn, InLoop, Mishap, Ends, Forgets
    <3>. QED
      BY <1>6, <3>1
  <2>3. CASE Drain(r)
    BY <1>0, <2>3 DEF Drain, LeavesFile, Numbered
  <2>4. CASE Commit(r)
    <3>1. Quotes(took[r].fetch) \subseteq 1..fetches
      BY <1>0 DEF Quotes, Numbered, Files
    <3>. QED
      BY <2>4, <3>1 DEF Commit, Numbered
  <2>5. CASE Archive(r)
    BY <1>0, <2>5, NoQuotes DEF Archive, Numbered
  <2>. QED
    BY <1>2, <2>1, <2>2, <2>3, <2>4, <2>5 DEF Refresh
<1>3. CASE StageBegins
  BY <1>0, <1>3, NoQuotes DEF StageBegins, Numbered
<1>4. CASE StageEnds
  <2>1. /\ fetches' \in {fetches, fetches + 1} /\ stored' = stored /\ took' = took
        /\ file' = file \/ file' = Staged(0) \/ (file' = Staged(fetches + 1) /\ fetches' = fetches + 1)
    BY <1>4 DEF StageEnds
  <2>2. file'.fetch <= fetches'
    BY <1>0, <2>1 DEF Staged, Numbered
  <2>3. 1..fetches \subseteq 1..fetches'
    BY <1>0, <2>1
  <2>4. \A r \in Runs : took[r].fetch <= fetches'
    BY <1>0, <2>1 DEF Numbered, Files
  <2>. QED
    BY <2>1, <2>2, <2>3, <2>4 DEF Numbered
<1>5. CASE Defers \/ Locks \/ Diagnose \/ AppendShadow \/ Finishes \/ LoopDies
  <2>1. UNCHANGED quoteVars /\ (took' = took \/ took' = [took EXCEPT ![Service] = NoFile])
    BY <1>5 DEF Defers, Locks, Diagnose, AppendShadow, Finishes, LoopDies, Mishap, Ends, Forgets
  <2>. QED
    BY <1>0, <1>6, <2>1
<1>. QED
  BY <1>1, <1>2, <1>3, <1>4, <1>5 DEF Next

LEMMA BudgetInit == Init => Budget /\ OneWrites /\ Numbered
<1>. SUFFICES ASSUME Init PROVE Budget /\ OneWrites /\ Numbered
  OBVIOUS
<1>1. Importing = {} /\ ~Here /\ repeats = 0 /\ mishaps = 0
  BY NoQuotes DEF Init, Importing, Here
<1>2. AtRisk = 0
  BY <1>1 DEF AtRisk, Risk
<1>3. OneWrites /\ Numbered
  BY NoQuotes DEF Init, OneWrites, Numbered
<1>. QED
  BY <1>1, <1>2, <1>3, FS_EmptySet DEF Budget

LEMMA BudgetBounds == TypeOK /\ Budget => QuotesRepeatOnlyAfterMishaps
  BY BudgetTyped DEF QuotesRepeatOnlyAfterMishaps

\* Quotes are imported again at most once for each refresh that died between its
\* commit and moving the file, or that opened the database beside another.
THEOREM RepeatsNeedMishaps == Spec => []QuotesRepeatOnlyAfterMishaps
  BY TypeInit, TypeInvariant, BudgetInit, BudgetKept, OneWritesKept, NumberedKept,
     BudgetBounds, PTL DEF Spec
=============================================================================
