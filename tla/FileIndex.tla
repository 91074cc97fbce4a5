----------------------------- MODULE FileIndex -----------------------------
(***************************************************************************)
(* The index of file summaries: the polling watcher, the task that turns   *)
(* its events into durable observations (and that runs the repository scan *)
(* when the daemon starts), the summary worker with its channel and its    *)
(* map of pending files, and the tables file_summaries and                 *)
(* pending_summary_work.  People edit the files all the while.             *)
(*                                                                         *)
(* A stamp stands for the modification time and size of a file, and for    *)
(* its text: the code takes equal time and size for equal text, and so     *)
(* does the model.  Every edit makes a new stamp.  The polling watcher     *)
(* reports no renames, so observe_exact_rename is not reached.  Storage    *)
(* errors, projects that are inactive and legacy absolute paths are left   *)
(* out; so are tombstones, which nothing reads.                            *)
(***************************************************************************)
EXTENDS Integers, FiniteSets, Sequences, SequencesExt

CONSTANTS
    Paths,        \* the files of one repository, ordered as the walk stages them
    Touched,      \* those of them people change
    MaxPending,   \* max_pending_files: bound of the channel and of the map
    MaxUpsets     \* bound on edits, pauses and ends of the daemon, together

ASSUME IndexAssumption ==
    /\ Paths \subseteq Nat /\ IsFiniteSet(Paths) /\ Touched \subseteq Paths
    /\ MaxPending \in Nat \ {0} /\ MaxUpsets \in Nat

VARIABLES
    disk,      \* path -> its kind ("absent", "text", "excluded") and stamp
    seen,      \* the snapshot the watcher compares with, Unwatched before the first
    events,    \* the channel of watcher events
    hand,      \* where the event task is, and with what
    scan,      \* the scan in progress: paths left to visit, staged, observed since
    summary,   \* file_summaries: path -> stamp of the text summarised, or None
    work,      \* pending_summary_work: path -> status, or "none"
    line,      \* the rows of pending_summary_work in observation order
    queue,     \* the channel of summary requests
    pend,      \* the map of pending files
    job,       \* where the worker is, and with what
    paused,    \* CommandState.paused
    upsets,    \* edits, pauses and ends of the daemon so far
    wanted,    \* history: the last observation of the path found it eligible
    steady     \* history: paths nobody has touched since the scan began

tables == <<summary, work, line>>
daemon == <<seen, events, hand, scan, queue, pend, job>>
vars == <<disk, daemon, tables, paused, upsets, wanted, steady>>

None == 0
Unwatched == [p \in Paths |-> [kind |-> "unknown", stamp |-> 0]]
At(where, p) == [at |-> where, path |-> p, change |-> "none", list |-> <<>>]
Sending(l) == [at |-> "send", path |-> 0, change |-> "none", list |-> l]
IdleHand == At("idle", 0)
IdleJob == [at |-> "idle", path |-> 0, stamp |-> 0, batch |-> {}]
NoScan == [todo |-> {}, staged |-> {}, later |-> {}]

Open(p) == work[p] \in {"pending", "failed"}

(***************************************************************************)
(* list_pending_summary_work: the open rows, oldest observation first.     *)
(***************************************************************************)
PendingWork(w, l) == SelectSeq(l, LAMBDA p : w[p] \in {"pending", "failed"})

(***************************************************************************)
(* refill_from_durable: as many of the oldest open rows as the map has     *)
(* room for; a row that is already in the map takes room as well.          *)
(***************************************************************************)
\* Fault: only rows that were never attempted are taken up again.
RefillPendingOnly(m, w, l) ==
    LET rows == SelectSeq(l, LAMBDA p : w[p] = "pending")
        room == MaxPending - Cardinality(m)
    IN m \cup {rows[i] : i \in 1 .. (IF room < Len(rows) THEN room ELSE Len(rows))}

Refill(m, w, l) ==
    LET rows == PendingWork(w, l)
        room == MaxPending - Cardinality(m)
    IN m \cup {rows[i] : i \in 1 .. (IF room < Len(rows) THEN room ELSE Len(rows))}

(***************************************************************************)
(* The state of a daemon that has just started: the worker has filled its  *)
(* map from the table, the watcher has announced the repository.           *)
(***************************************************************************)
Boot(w, l) ==
    /\ seen' = Unwatched /\ events' = <<>>
    /\ hand' = At("discovered", 0)
    /\ scan' = NoScan /\ queue' = <<>>
    /\ pend' = Refill({}, w, l) /\ job' = IdleJob

Init ==
    /\ disk \in [Paths -> {[kind |-> "absent", stamp |-> 0], [kind |-> "text", stamp |-> 1]}]
    /\ summary = [p \in Paths |-> None] /\ work = [p \in Paths |-> "none"]
    /\ line = <<>>
    /\ seen = Unwatched /\ events = <<>>
    /\ hand = At("discovered", 0)
    /\ scan = NoScan /\ queue = <<>> /\ pend = {} /\ job = IdleJob
    /\ paused = FALSE /\ upsets = 0
    /\ wanted = {} /\ steady = {}

-----------------------------------------------------------------------------
(***************************************************************************)
(* The surroundings: edits, the polling watcher, time, the pause command.  *)
(***************************************************************************)
Edit(p, kind) ==
    /\ upsets < MaxUpsets /\ ~(kind = "absent" /\ disk[p].kind = "absent")
    /\ disk' = [disk EXCEPT ![p] = [kind |-> kind,
                                    stamp |-> IF kind = "absent" THEN 0 ELSE upsets + 2]]
    /\ upsets' = upsets + 1
    /\ steady' = steady \ {p}
    /\ UNCHANGED <<daemon, tables, paused, wanted>>

(***************************************************************************)
(* watcher.watch takes the first snapshot, after the repository was        *)
(* announced and while the scan may be under way.                          *)
(***************************************************************************)
Watch ==
    /\ seen = Unwatched
    /\ seen' = disk
    /\ UNCHANGED <<disk, events, hand, scan, queue, pend, job, tables, paused, upsets, wanted, steady>>

Translate(old, new) ==
    CASE old.kind = "absent" -> "created"
      [] old.kind # "absent" /\ new.kind = "absent" -> "removed"
      [] OTHER -> "changed"

(***************************************************************************)
(* A poll finds a file that differs from the snapshot; bridge_thread       *)
(* passes the event on and blocks rather than lose it.                     *)
(***************************************************************************)
Poll(p) ==
    /\ seen # Unwatched /\ disk[p] # seen[p]
    /\ seen' = [seen EXCEPT ![p] = disk[p]]
    /\ events' = Append(events, [kind |-> Translate(seen[p], disk[p]), path |-> p])
    /\ UNCHANGED <<disk, hand, scan, queue, pend, job, tables, paused, upsets, wanted, steady>>

SetPaused ==
    /\ paused' = ~paused
    /\ ~paused => upsets < MaxUpsets
    /\ upsets' = IF paused THEN upsets ELSE upsets + 1
    /\ UNCHANGED <<disk, daemon, tables, wanted, steady>>

(***************************************************************************)
(* The daemon is shut down or dies, and starts again.  A worker that       *)
(* flushes its map before it ends is a Tick before this step.              *)
(***************************************************************************)
Restart ==
    /\ upsets < MaxUpsets /\ upsets' = upsets + 1
    /\ Boot(work, line) /\ paused' = FALSE /\ steady' = {}
    /\ UNCHANGED <<disk, tables, wanted>>

-----------------------------------------------------------------------------
(***************************************************************************)
(* The transactions of the lifecycle repository.  Observed puts a row at   *)
(* the end of the observation order.                                       *)
(***************************************************************************)
Observed(l, p) == Append(SelectSeq(l, LAMBDA q : q # p), p)

\* Fault: a modification retires the summary and leaves the old row as it is.
ObserveChangeQuietly(p, change) ==
    /\ summary' = IF change = "modify" THEN [summary EXCEPT ![p] = None] ELSE summary
    /\ work' = [work EXCEPT ![p] = IF @ = "none" THEN "pending" ELSE @]
    /\ line' = Observed(line, p)
    /\ wanted' = wanted \cup {p}

ObserveChange(p, change) ==
    /\ summary' = IF change = "modify" THEN [summary EXCEPT ![p] = None] ELSE summary
    /\ work' = [work EXCEPT ![p] = "pending"]
    /\ line' = Observed(line, p)
    /\ wanted' = wanted \cup {p}

RetireAbsent(p) ==
    /\ summary' = [summary EXCEPT ![p] = None]
    /\ work' = [work EXCEPT ![p] = IF Open(p) THEN "superseded" ELSE @]
    /\ wanted' = wanted \ {p}

(***************************************************************************)
(* handle_watcher_events, one event after the other.  The file is looked   *)
(* at first; each of the later steps takes the database lock for itself,   *)
(* and the worker takes it in between.                                     *)
(***************************************************************************)
Handle ==
    /\ hand.at = "idle" /\ events # <<>>
    /\ LET e == Head(events)
           kind == disk[e.path].kind
       IN hand' = IF e.kind = "removed" /\ kind # "absent" THEN IdleHand
                  ELSE At(IF kind = "text" THEN "lookup" ELSE "retire", e.path)
    /\ events' = Tail(events)
    /\ UNCHANGED <<disk, seen, scan, queue, pend, job, tables, paused, upsets, wanted, steady>>

Retire ==
    /\ hand.at \in {"retire", "exclude"}
    /\ RetireAbsent(hand.path)
    /\ hand' = At(IF hand.at = "exclude" THEN "scan" ELSE "idle", 0)
    /\ scan' = [scan EXCEPT !.later = IF hand.at = "exclude" THEN @ \cup {hand.path} ELSE @]
    /\ UNCHANGED <<disk, seen, events, line, queue, pend, job, paused, upsets, steady>>

Lookup ==
    /\ hand.at = "lookup"
    /\ hand' = [hand EXCEPT !.at = "observe",
                            !.change = IF summary[hand.path] # None THEN "modify" ELSE "create"]
    /\ UNCHANGED <<disk, seen, events, scan, queue, pend, job, tables, paused, upsets, wanted, steady>>

Observe ==
    /\ hand.at = "observe"
    /\ ObserveChange(hand.path, hand.change)
    /\ hand' = Sending(<<hand.path>>)
    /\ UNCHANGED <<disk, seen, events, scan, queue, pend, job, paused, upsets, steady>>

(***************************************************************************)
(* tx.try_send: a request that finds the channel full is dropped.  After a *)
(* scan there is one for every open row.                                   *)
(***************************************************************************)
Send ==
    /\ hand.at = "send"
    /\ IF hand.list = <<>>
       THEN hand' = IdleHand /\ UNCHANGED queue
       ELSE /\ queue' = IF Len(queue) < MaxPending THEN Append(queue, Head(hand.list)) ELSE queue
            /\ hand' = IF Len(hand.list) = 1 THEN IdleHand ELSE [hand EXCEPT !.list = Tail(@)]
    /\ UNCHANGED <<disk, seen, events, scan, pend, job, tables, paused, upsets, wanted, steady>>

-----------------------------------------------------------------------------
(***************************************************************************)
(* run_repository_scan, in the same task.                                  *)
(***************************************************************************)
StartScan ==
    /\ hand.at = "discovered"
    /\ hand' = At("scan", 0)
    /\ scan' = [todo |-> Paths, staged |-> {}, later |-> {}]
    /\ steady' = Paths
    /\ UNCHANGED <<disk, seen, events, queue, pend, job, tables, paused, upsets, wanted>>

Visit(p) ==
    /\ hand.at = "scan" /\ p \in scan.todo
    /\ scan' = [scan EXCEPT !.todo = @ \ {p},
                            !.staged = IF disk[p].kind = "text" THEN @ \cup {p} ELSE @]
    /\ hand' = IF disk[p].kind = "excluded" THEN At("exclude", p) ELSE hand
    /\ UNCHANGED <<disk, seen, events, queue, pend, job, tables, paused, upsets, wanted, steady>>

(***************************************************************************)
(* The walk or a file cannot be read: the run is marked incomplete and     *)
(* nothing is reconciled.                                                  *)
(***************************************************************************)
\* Fault: the entry that failed is passed over and the walk goes on.
ScanFailsQuietly ==
    /\ hand.at = "scan" /\ scan.todo # {}
    /\ \E p \in scan.todo : scan' = [scan EXCEPT !.todo = @ \ {p}]
    /\ UNCHANGED <<disk, seen, events, hand, queue, pend, job, tables, paused, upsets, wanted, steady>>

ScanFails ==
    /\ hand.at = "scan" /\ scan.todo # {}
    /\ hand' = IdleHand /\ scan' = NoScan /\ steady' = {}
    /\ UNCHANGED <<disk, seen, events, queue, pend, job, tables, paused, upsets, wanted>>

(***************************************************************************)
(* mark_scan_enumeration_complete and reconcile_repository_scan, under one *)
(* lock: a staged path without a summary becomes pending work; an active   *)
(* summary of a path that was not staged is retired when the file is gone. *)
(* A path observed since the scan began is left to that observation.       *)
(***************************************************************************)
ToCreate == {p \in scan.staged \ scan.later : summary[p] = None}
ToRetire == {p \in Paths \ (scan.staged \cup scan.later) :
                summary[p] # None /\ disk[p].kind = "absent"}

Reconciled(created, gone) ==
    /\ summary' = [p \in Paths |-> IF p \in gone THEN None ELSE summary[p]]
    /\ work' = [p \in Paths |-> IF p \in created THEN "pending"
                               ELSE IF p \in gone /\ Open(p) THEN "superseded" ELSE work[p]]
    /\ line' = SelectSeq(line, LAMBDA q : q \notin created) \o SetToSortSeq(created, <)
    /\ wanted' = (wanted \cup created) \ gone

Reconcile ==
    /\ hand.at = "scan" /\ scan.todo = {}
    /\ Reconciled(ToCreate, ToRetire)
    /\ hand' = Sending(PendingWork(work', line'))
    /\ scan' = NoScan /\ steady' = {}
    /\ UNCHANGED <<disk, seen, events, queue, pend, job, paused, upsets>>

(***************************************************************************)
(* Each path is a transaction of its own, in path order, the new ones      *)
(* first: a daemon that dies on the way leaves the rest undone.            *)
(***************************************************************************)
ReconcileCutShort ==
    /\ hand.at = "scan" /\ scan.todo = {}
    /\ upsets < MaxUpsets /\ upsets' = upsets + 1
    /\ \E created \in SUBSET ToCreate, gone \in SUBSET ToRetire :
          /\ \A p \in created, q \in ToCreate \ created : p < q
          /\ \A p \in gone, q \in ToRetire \ gone : p < q
          /\ gone # {} => created = ToCreate
          /\ Reconciled(created, gone)
    /\ Boot(work', line') /\ paused' = FALSE /\ steady' = {}
    /\ UNCHANGED disk

-----------------------------------------------------------------------------
(***************************************************************************)
(* SummaryWorker::run.  Receive and Tick are the arms of its select; a     *)
(* tick flushes the files that have been quiet, one after the other, and   *)
(* fills the map again.                                                    *)
(***************************************************************************)
Receive ==
    /\ job.at = "idle" /\ queue # <<>>
    /\ LET p == Head(queue) IN
       pend' = IF Cardinality(pend) >= MaxPending /\ p \notin pend THEN pend ELSE pend \cup {p}
    /\ queue' = Tail(queue)
    /\ UNCHANGED <<disk, seen, events, hand, scan, job, tables, paused, upsets, wanted, steady>>

Tick(ready) ==
    /\ job.at = "idle" /\ ready \subseteq pend
    /\ job' = [job EXCEPT !.at = "flush", !.batch = IF paused THEN {} ELSE ready]
    /\ UNCHANGED <<disk, seen, events, hand, scan, queue, pend, tables, paused, upsets, wanted, steady>>

EndTick ==
    /\ job.at = "flush" /\ job.batch = {}
    /\ pend' = Refill(pend, work, line)
    /\ job' = IdleJob
    /\ UNCHANGED <<disk, seen, events, hand, scan, queue, tables, paused, upsets, wanted, steady>>

Done == [at |-> "flush", path |-> 0, stamp |-> 0, batch |-> job.batch]

(***************************************************************************)
(* process_one: look at the file, give up without a word when it is gone   *)
(* or too large; compare with the summary; read; look again; commit.  What *)
(* is excluded is either too large or no text, and the second shows when   *)
(* it is read.                                                             *)
(***************************************************************************)
Process(p) ==
    /\ job.at = "flush" /\ p \in job.batch
    /\ pend' = pend \ {p}
    /\ LET next == [job EXCEPT !.batch = @ \ {p}] IN
       \/ disk[p].kind # "text" /\ job' = next
       \/ /\ disk[p].kind # "absent"
          /\ job' = [next EXCEPT !.at = "check", !.path = p, !.stamp = disk[p].stamp]
    /\ UNCHANGED <<disk, seen, events, hand, scan, queue, tables, paused, upsets, wanted, steady>>

Check ==
    /\ job.at = "check"
    /\ \/ job' = [job EXCEPT !.at = "read"] /\ summary[job.path] # job.stamp
       \/ job' = Done /\ summary[job.path] = job.stamp
    /\ UNCHANGED <<disk, seen, events, hand, scan, queue, pend, tables, paused, upsets, wanted, steady>>

(***************************************************************************)
(* A summary of the same stamp that is older than the staleness threshold  *)
(* is made again.                                                          *)
(***************************************************************************)
CheckAged ==
    /\ job.at = "check" /\ summary[job.path] = job.stamp
    /\ job' = [job EXCEPT !.at = "read"]
    /\ UNCHANGED <<disk, seen, events, hand, scan, queue, pend, tables, paused, upsets, wanted, steady>>

(***************************************************************************)
(* read_to_string and the second look.  fail_summary_work sets the row to  *)
(* failed, whatever it was.                                                *)
(***************************************************************************)
Read ==
    /\ job.at = "read"
    /\ IF disk[job.path].kind = "text"
       THEN job' = [job EXCEPT !.at = "verify"] /\ UNCHANGED work
       ELSE /\ work' = [work EXCEPT ![job.path] = IF @ = "none" THEN @ ELSE "failed"]
            /\ job' = Done
    /\ UNCHANGED <<disk, seen, events, hand, scan, queue, pend, summary, line,
                   paused, upsets, wanted, steady>>

Verify ==
    /\ job.at = "verify"
    /\ IF disk[job.path].stamp = job.stamp
       THEN job' = [job EXCEPT !.at = "commit"] /\ UNCHANGED work
       ELSE /\ work' = [work EXCEPT ![job.path] = IF @ = "none" THEN @ ELSE "failed"]
            /\ job' = Done
    /\ UNCHANGED <<disk, seen, events, hand, scan, queue, pend, summary, line,
                   paused, upsets, wanted, steady>>

(***************************************************************************)
(* commit_summary_work: one row per path, so the condition on its order    *)
(* always holds and the row is completed whatever was observed meanwhile.  *)
(***************************************************************************)
Commit ==
    /\ job.at = "commit"
    /\ summary' = [summary EXCEPT ![job.path] = job.stamp]
    /\ work' = [work EXCEPT ![job.path] = IF @ = "none" THEN @ ELSE "completed"]
    /\ job' = Done
    /\ UNCHANGED <<disk, seen, events, hand, scan, queue, pend, line, paused, upsets, wanted, steady>>

-----------------------------------------------------------------------------
EventTask == Handle \/ Retire \/ Lookup \/ Observe \/ Send \/ StartScan \/ ScanFails \/ Reconcile
                \/ \E p \in Paths : Visit(p)

Worker == EndTick \/ Check \/ CheckAged \/ Read \/ Verify \/ Commit \/ \E p \in Paths : Process(p)

Next ==
    \/ \E p \in Touched, kind \in {"absent", "text", "excluded"} : Edit(p, kind)
    \/ Watch \/ (\E p \in Paths : Poll(p)) \/ SetPaused \/ Restart \/ ReconcileCutShort
    \/ EventTask
    \/ Worker \/ Receive \/ \E ready \in SUBSET pend : Tick(ready)

Spec == Init /\ [][Next]_vars

(***************************************************************************)
(* The runtime polls both tasks; the select of the worker picks among its  *)
(* ready arms at random, so neither the channel nor the ticker is kept out *)
(* for good, and a file nobody touches is quiet at some tick.  The watcher *)
(* polls on a timer; a summary that is checked again and again is old one  *)
(* day.  Nothing is assumed of people, of the pause command or of the end  *)
(* of the daemon.                                                          *)
(***************************************************************************)
FairSpec ==
    /\ Spec
    /\ WF_vars(EventTask) /\ WF_vars(Worker) /\ SF_vars(Receive) /\ SF_vars(Tick(pend))
    /\ WF_vars(Watch) /\ SF_vars(CheckAged) /\ \A p \in Paths : WF_vars(Poll(p))

-----------------------------------------------------------------------------
(***************************************************************************)
(* The type of the state.                                                  *)
(***************************************************************************)
TypeOK ==
    /\ disk \in [Paths -> [kind : {"absent", "text", "excluded"}, stamp : 0 .. MaxUpsets + 1]]
    /\ summary \in [Paths -> 0 .. MaxUpsets + 1]
    /\ work \in [Paths -> {"none", "pending", "failed", "superseded", "completed"}]
    /\ pend \subseteq Paths /\ Cardinality(pend) <= MaxPending /\ Len(queue) <= MaxPending
    /\ paused \in BOOLEAN /\ wanted \subseteq Paths /\ steady \subseteq Paths

(***************************************************************************)
(* A file that was last observed as eligible has a summary or work that is *)
(* still open, whatever the channel drops, the daemon loses when it ends   *)
(* and the worker and the event task do to one row in turn                 *)
(* (lifecycle.rs, observe_change, retire_absent, commit_summary_work).     *)
(***************************************************************************)
NothingForgotten == \A p \in wanted : summary[p] # None \/ Open(p)

(***************************************************************************)
(* Work that is open for a readable file is done at last unless the worker *)
(* is paused or work is open for a file there is nothing to read of, which *)
(* the worker takes up for ever: a request that the channel or the map was *)
(* too full for, a failed attempt and work a dead daemon left behind are   *)
(* taken up again (summary_worker.rs, refill_from_durable, flush_quiet).   *)
(***************************************************************************)
OpenWorkIsDone ==
    \A p \in Paths : (Open(p) /\ disk[p].kind = "text")
                       ~> \/ ~Open(p) \/ disk[p].kind # "text" \/ paused
                          \/ \E q \in Paths : Open(q) /\ disk[q].kind # "text"

(***************************************************************************)
(* A scan that is reconciled accounts for every path nobody touched while  *)
(* it ran: a readable file has a summary or open work, a file that is gone *)
(* has no summary (lifecycle.rs, reconcile_repository_scan).  A walk that  *)
(* failed is never reconciled.                                             *)
(***************************************************************************)
ScanAccounts ==
    [][(hand.at = "scan" /\ scan.todo = {} /\ hand'.at = "send")
        => \A p \in steady :
              /\ disk[p].kind = "text" => (summary'[p] # None \/ work'[p] \in {"pending", "failed"})
              /\ disk[p].kind = "absent" => summary'[p] = None]_vars
=============================================================================
