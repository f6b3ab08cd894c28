------------------------------ MODULE DeclaredRun ------------------------------
(***************************************************************************)
(* A declared historical run: the durable inputs a binding pins            *)
(* (declarations, datasets, configurations), their verified restoration    *)
(* (materialization), the hand-off to the run (composition, runs, series)  *)
(* and the ledger session it opens over the ledger store (sessions,        *)
(* persistence, analytics).  The stores are files other programs may       *)
(* rewrite or damage while a run is under way; the process may die between *)
(* any two steps.  A digest stands for the content it is taken of.         *)
(***************************************************************************)
EXTENDS OutcomeTracking

CONSTANTS
    Unreadable,         \* a file whose bytes fail the checks of its loader
    Histories,          \* what the market did: sequences of candles
    Datasets,           \* the datasets a caller declares, prefixes of histories
    Configurations,     \* records of chain (a threshold) and horizon
    Bindings            \* records of dataset and configuration

\* What the declared series consist of: times and prices in a unit small enough for all.
Candles == [openedAt : Nat, low : Nat, close : Nat, high : Nat, score : Nat]

ASSUME DeclaredRunAssumption ==
    /\ Histories \subseteq Seq(Candles) /\ Datasets \subseteq Seq(Candles)
    /\ Configurations \subseteq [chain : Nat, horizon : Nat \ {0}]
    /\ Bindings \subseteq [dataset : Datasets, configuration : Configurations]
    /\ \A dataset \in Datasets :
          Len(dataset) > 0 /\ \E history \in Histories : IsPrefix(dataset, history)

VARIABLES
    files,      \* the four stores, one key each
    writing,    \* the ledger in the .partial file of a save, or None
    run         \* the run in progress

declared == <<files, writing, run>>

Inputs == {"binding", "dataset", "configuration"}
Declarable == [binding |-> Bindings, dataset |-> Datasets, configuration |-> Configurations]

NoRun == [phase |-> "idle", why |-> None, binding |-> None, dataset |-> None,
          configuration |-> None, stored |-> None, lifecycle |-> None, verified |-> FALSE]

Init ==
    /\ files = [path \in Inputs \union {"ledger"} |-> None]
    /\ writing = None
    /\ run = NoRun

-----------------------------------------------------------------------------
(* The stores.  A save writes a sibling file and swaps it into place, so a *)
(* reader sees the old content or the new.  For the inputs a caller saves  *)
(* that is one step; for the ledger the two halves are kept apart.         *)

Readable(path) == files[path] \notin {None, Unreadable}

\* load_ledger_bytes: a document passes the constructors, or the load raises.
LoadedLedger ==
    IF Readable("ledger") /\ ~SnapshotIsValid(files["ledger"]) THEN Unreadable ELSE files["ledger"]

SaveInput(path, content) ==
    /\ content # files[path]
    /\ files' = [files EXCEPT ![path] = content]
    /\ UNCHANGED <<writing, run>>

\* Fault: a file is truncated or altered by someone else.
Damage(path) ==
    /\ files[path] \notin {None, Unreadable}
    /\ files' = [files EXCEPT ![path] = Unreadable]
    /\ UNCHANGED <<writing, run>>

\* Fault: the ledger is edited into another well-formed document that carries its own digest.
Edited(ledger) ==
    IF ledger.finalized = <<>> THEN {}
    ELSE {[ledger EXCEPT !.observations = Front(@)], [ledger EXCEPT !.finalized = Front(@)],
          [ledger EXCEPT !.finalized = Tail(@)], [ledger EXCEPT !.finalized[1].status = "FLAT"]}

\* The ledgers runs write; a document is edited once.
Genuine == {LedgerOf(prefix, configuration) :
                prefix \in UNION {{SubSeq(h, 1, n) : n \in DOMAIN h} : h \in Histories},
                configuration \in Configurations}

\* What stands for no document, or for one that cannot be read, is not a ledger; what stands
\* for no value is not one.
ASSUME FilesAssumption ==
    /\ None \notin Genuine /\ Unreadable \notin Genuine
    /\ None \notin {"candidate", "never"}
    /\ None \notin Nat /\ None \notin Nat \X Nat /\ None \notin [price : Nat, index : Nat]
    /\ None \notin [prefix : Seq(Candles), chain : Nat]

Edit ==
    /\ Readable("ledger") /\ run = NoRun
    /\ files["ledger"] \in Genuine
    /\ \E ledger \in Edited(files["ledger"]) : files' = [files EXCEPT !["ledger"] = ledger]
    /\ UNCHANGED <<writing, run>>

\* Fault: the process dies; the partial file it may leave is never read.
Crash ==
    /\ run # NoRun
    /\ run' = NoRun /\ writing' = None
    /\ UNCHANGED files

WriteSnapshot(snapshot) == writing' = snapshot /\ UNCHANGED files

-----------------------------------------------------------------------------
(* materialize_declared_inputs: three loads, then the comparison.          *)

Refuse(reason) == run' = [run EXCEPT !.phase = "refused", !.why = reason, !.lifecycle = None]

Load(path, before, after) ==
    /\ run.phase = before
    /\ IF Readable(path)
       THEN run' = [run EXCEPT !.phase = after, ![path] = files[path]]
       ELSE Refuse("input")
    /\ UNCHANGED <<files, writing>>

LoadBinding == Load("binding", "idle", "bound")
LoadDataset == Load("dataset", "bound", "dataset")
LoadConfiguration == Load("configuration", "dataset", "loaded")

\* VerifiedRunInputs.__post_init__
InputsAreDeclared ==
    /\ run.dataset = run.binding.dataset
    /\ run.configuration = run.binding.configuration

Verify ==
    /\ run.phase = "loaded"
    /\ IF InputsAreDeclared THEN run' = [run EXCEPT !.phase = "verified"] ELSE Refuse("differs")
    /\ UNCHANGED <<files, writing>>

-----------------------------------------------------------------------------
(* execute_verified_run, run_declared_history and open_ledger_session.     *)

Settings == [horizon |-> run.configuration.horizon]
SeriesFrames == FramesOf(run.dataset, run.configuration.chain)
Replayed == run.lifecycle.tracker.count
Snapshot == SnapshotLedger(run.lifecycle)

\* Variant: the dataset is loaded once more when the run starts.
ExecutedDatasetReloaded == IF Readable("dataset") THEN files["dataset"] ELSE run.dataset

ExecutedDataset == run.dataset

Open ==
    /\ run.phase = "verified"
    /\ LET stored == LoadedLedger
           fresh == NewLifecycle(Settings)
       IN  IF stored = Unreadable THEN Refuse("ledger")
           ELSE IF stored # None /\ stored.settings # Settings THEN Refuse("settings")
           ELSE run' = [run EXCEPT !.phase = "replaying", !.stored = stored,
                            !.dataset = ExecutedDataset, !.lifecycle = fresh,
                            !.verified = stored = None \/ SnapshotLedger(fresh) = stored]
    /\ UNCHANGED <<files, writing>>

\* Variant: only the publications are counted.
CountsMatchObserved(lifecycle, stored) ==
    Len(lifecycle.observer.observations) = Len(stored.observations)

CountsMatch(lifecycle, stored) ==
    /\ Len(lifecycle.observer.observations) = Len(stored.observations)
    /\ Len(FinalizedOutcomes(lifecycle.observer)) = Len(stored.finalized)

ReplayFrame ==
    /\ run.phase = "replaying" /\ Replayed < Len(run.dataset)
    /\ LET frame == SeriesFrames[Replayed + 1]
           next == UpdateLifecycle(run.lifecycle, frame)
           candidate == ~run.verified /\ CountsMatch(next, run.stored)
       IN  /\ LifecycleAccepts(run.lifecycle, frame)
           /\ IF candidate /\ SnapshotLedger(next) # run.stored
              THEN Refuse("candidate")
              ELSE run' = [run EXCEPT !.lifecycle = next, !.verified = @ \/ candidate]
    /\ UNCHANGED <<files, writing>>

\* Variant: a history that never reproduced the stored ledger is run all the same.
EndOfReplayTrusting ==
    /\ run.phase = "replaying" /\ Replayed = Len(run.dataset)
    /\ run' = [run EXCEPT !.phase = "saving"] /\ WriteSnapshot(Snapshot)

EndOfReplay ==
    /\ run.phase = "replaying" /\ Replayed = Len(run.dataset)
    /\ IF run.verified
       THEN run' = [run EXCEPT !.phase = "saving"] /\ WriteSnapshot(Snapshot)
       ELSE Refuse("never") /\ UNCHANGED <<files, writing>>

Replace ==
    /\ run.phase = "saving"
    /\ files' = [files EXCEPT !["ledger"] = writing]
    /\ writing' = None
    /\ run' = [run EXCEPT !.phase = "open"]

\* The save raises before the swap: no session if it was opening, else the session stays.
SaveFails ==
    /\ run.phase = "saving"
    /\ writing' = None
    /\ IF Replayed = Len(run.dataset)
       THEN Refuse("save")
       ELSE run' = [run EXCEPT !.phase = "open"]
    /\ UNCHANGED files

-----------------------------------------------------------------------------
(* The session after it is open: update and persist.                       *)

Continue(history) ==
    /\ run.phase = "open" /\ IsPrefix(run.dataset, history)
    /\ \E frame \in ToSet(FramesOf(history, run.configuration.chain)) :
          /\ LifecycleAccepts(run.lifecycle, frame)
          /\ IsPrefix(run.lifecycle.tracker.latest.prefix, frame.prefix)
          /\ run' = [run EXCEPT !.lifecycle = UpdateLifecycle(@, frame)]
    /\ UNCHANGED <<files, writing>>

Persist ==
    /\ run.phase = "open" /\ Replayed > Len(run.dataset)
    /\ run' = [run EXCEPT !.phase = "saving"] /\ WriteSnapshot(Snapshot)

\* The caller is done with the session, or with the refusal.
Close ==
    /\ run.phase \in {"open", "refused"}
    /\ run' = NoRun
    /\ UNCHANGED <<files, writing>>

\* An input changes while the run may still read it, the dataset until the run starts:
\* a later change commutes with everything the run does.
Exposed(path) ==
    run.phase \in (CASE path = "binding" -> {"idle"}
                     [] path = "configuration" -> {"idle", "bound", "dataset"}
                     [] path = "dataset" -> {"idle", "bound", "dataset", "loaded", "verified"})

Next ==
    \/ \E path \in Inputs :
          /\ Exposed(path)
          /\ Damage(path) \/ \E content \in Declarable[path] : SaveInput(path, content)
    \/ run.phase # "saving" /\ Damage("ledger")
    \/ Edit \/ Crash
    \/ LoadBinding \/ LoadDataset \/ LoadConfiguration \/ Verify
    \/ Open \/ ReplayFrame \/ EndOfReplay \/ Replace \/ SaveFails
    \/ \E history \in Histories : Continue(history)
    \/ Persist \/ Close

Spec == Init /\ [][Next]_declared

-----------------------------------------------------------------------------
(* What a history says of itself, read off the candles directly.           *)

Published(history, configuration) ==
    {i \in DOMAIN history : history[i].score >= configuration.chain}

Decided(history, configuration) ==
    {i \in Published(history, configuration) : i + configuration.horizon <= Len(history)}

Window(history, i, configuration) == {history[j] : j \in i + 1 .. i + configuration.horizon}

\* The final of the BUY at i: its status and its two extremes.
SaysOf(final, history, configuration) ==
    LET i == final.reference.index + 1
        window == Window(history, i, configuration)
        gain == history[i + configuration.horizon].close - history[i].close
    IN  /\ i \in Decided(history, configuration)
        /\ final.status = (IF gain > 0 THEN "WIN" ELSE IF gain < 0 THEN "LOSS" ELSE "FLAT")
        /\ \A candle \in window : candle.high <= final.mfe.price /\ candle.low >= final.mae.price
        /\ history[final.mfe.index + 1].high = final.mfe.price
        /\ history[final.mae.index + 1].low = final.mae.price
        /\ \A j \in i + 1 .. final.mfe.index : history[j].high < final.mfe.price
        /\ \A j \in i + 1 .. final.mae.index : history[j].low > final.mae.price

\* recover_lifecycle: a whole history reproduces a ledger exactly.
Recovers(history, configuration, ledger) == LedgerOf(history, configuration) = ledger

SomePrefixRecovers ==
    \E n \in 0 .. Len(run.dataset) :
        Recovers(SubSeq(run.dataset, 1, n), run.configuration, run.stored)

Fed == run.lifecycle.tracker.latest.prefix
Session == run.phase \in {"saving", "open"}

-----------------------------------------------------------------------------
(* Properties.                                                             *)

\* Every BUY whose horizon lies inside the history has exactly one final, with the status
\* and the first extremes the candles show; every other BUY is open (advance_outcome,
\* SignalOutcomeLifecycle.update).  And every record satisfies its constructor.
FinalsMatchTheMarket ==
    Session =>
        /\ {o.reference.index + 1 : o \in ToSet(Snapshot.observations)}
              = Published(Fed, run.configuration)
        /\ {o.reference.index + 1 : o \in ToSet(Snapshot.finalized)}
              = Decided(Fed, run.configuration)
        /\ \A final \in ToSet(Snapshot.finalized) : SaysOf(final, Fed, run.configuration)
        /\ \A record \in ToSet(run.lifecycle.tracker.records) : OutcomeIsValid(record)
        /\ SnapshotIsValid(Snapshot)

\* Whatever happens to the stores while a run is under way, the ledger it holds is that of
\* the dataset and the configuration its binding pinned (VerifiedRunInputs,
\* execute_verified_run).
RunUsesDeclaredInputs ==
    Session =>
        /\ IsPrefix(run.binding.dataset, Fed)
        /\ Snapshot = LedgerOf(Fed, run.binding.configuration)

\* The check at the first match of the counts decides as a full search would: a session
\* opens over a stored ledger iff some prefix of the history recovers exactly that ledger
\* (open_ledger_session, recover_lifecycle).
ResumesIffReproduced ==
    /\ Session /\ run.stored # None => SomePrefixRecovers
    /\ run.why \in {"candidate", "never"} => ~SomePrefixRecovers

\* The ledger in the store only ever grows: no run, crash or failed save takes back an
\* observation or a final, or changes one (open_ledger_session, FileLedgerStore.save).
\* Only a hand from outside does that.
Extends(new, old) ==
    /\ new.settings = old.settings
    /\ IsPrefix(old.observations, new.observations)
    /\ ToSet(old.finalized) \subseteq ToSet(new.finalized)

LedgerNeverGoesBack ==
    [][ files["ledger"] \notin {None, Unreadable} =>
            \/ run' = run
            \/ /\ files'["ledger"] # Unreadable
               /\ Extends(files'["ledger"], files["ledger"]) ]_declared

\* A ledger restored from the store reports what the live observer reports, and every
\* publication is counted once, as open or under its class, in the totals as in one of the
\* months (RestoredAnalyticsLedger, AnalyticsSummary.__post_init__, MonthlyReport.__post_init__).
LiveReport == MonthlyReport(CurrentVersions(run.lifecycle.observer))
LiveStats ==
    LET live == run.lifecycle.observer
    IN  StrategyStats(FinalizedOutcomes(live), Len(OpenOutcomes(live)))

ReportsSurviveTheStore ==
    Session =>
        /\ RestoredReport(Snapshot) = LiveReport
        /\ RestoredStats(Snapshot) = LiveStats
        /\ SummaryIsValid(LiveStats) /\ MonthsSumTo(LiveReport, LiveStats)

\* The ledger of a session, live or restored, tells what the market did.
LedgerTellsTheMarket == FinalsMatchTheMarket /\ ReportsSurviveTheStore
=============================================================================
