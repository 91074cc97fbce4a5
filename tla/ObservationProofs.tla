-------------------------- MODULE ObservationProofs ------------------------
(***************************************************************************)
(* Proofs about the two components that act on contents of files they      *)
(* looked at before, while the files change.                               *)
(*                                                                         *)
(* FileIndex: nothing observed is forgotten and a scan accounts for what   *)
(* it walked, for any files, any bound of the channel and any number of    *)
(* edits, pauses and restarts.                                             *)
(*                                                                         *)
(* Review: what a clean cycle says of the candidate is true of the         *)
(* worktree, for any policy, plan, findings and limits, and any number of  *)
(* remediations, crashes and resumes.                                      *)
(***************************************************************************)
EXTENDS FileIndex, Review, SequenceTheorems, TLAPS

----------------------------------------------------------------------------
(* The file index.                                                         *)

(* The parts of the type that the invariants rest on. *)
FilesTyped ==
  /\ disk \in [Paths -> [kind : {"absent", "text", "excluded"}, stamp : Nat]]
  /\ summary \in [Paths -> Nat]
  /\ work \in [Paths -> {"none", "pending", "failed", "superseded", "completed"}]
  /\ hand \in [at : {"idle", "discovered", "lookup", "observe", "send", "retire", "scan", "exclude"},
               path : Paths \cup {0}, change : {"none", "create", "modify"}, list : {hand.list}]
  /\ scan \in [todo : SUBSET Paths, staged : SUBSET Paths, later : SUBSET Paths]
  /\ job \in [at : {"idle", "flush", "check", "read", "verify", "commit"},
              path : Paths \cup {0}, stamp : Nat, batch : {job.batch}]
  /\ upsets \in Nat /\ wanted \subseteq Paths /\ steady \subseteq Paths

EventsTyped == events \in Seq([kind : {"created", "removed", "changed"}, path : Paths])

(* A file that is there has a stamp, and so has the one the worker has in  *)
(* hand: what is committed is never mistaken for no summary.               *)
StampsAreReal ==
  /\ \A p \in Paths : disk[p].kind # "absent" => disk[p].stamp # None
  /\ job.at \in {"check", "read", "verify", "commit"} => job.stamp # None /\ job.path \in Paths

(* The event task has a path in hand whenever it acts on one. *)
PathInHand == hand.at \in {"lookup", "observe", "retire", "exclude"} => hand.path \in Paths

(* Of the files nobody touched since the scan began, the scan has staged   *)
(* the readable ones it has visited and set aside only excluded ones.      *)
ScanIsFaithful ==
  hand.at \in {"scan", "exclude"} => \A p \in steady :
    /\ disk[p].kind = "text" => p \in scan.todo \cup scan.staged
    /\ p \in scan.staged => disk[p].kind = "text"
    /\ p \in scan.later \/ (hand.at = "exclude" /\ p = hand.path) => disk[p].kind = "excluded"

IndexInv ==
  /\ FilesTyped
  /\ EventsTyped
  /\ StampsAreReal
  /\ PathInHand
  /\ ScanIsFaithful
  /\ NothingForgotten

-----------------------------------------------------------------------------
(* A daemon that has just started has nothing in hand. *)
LEMMA InitInv == Init => IndexInv
<1> SUFFICES ASSUME Init PROVE IndexInv
  OBVIOUS
<1>1. hand = [at |-> "discovered", path |-> 0, change |-> "none", list |-> <<>>]
  BY DEF Init, At
<1>2. job = [at |-> "idle", path |-> 0, stamp |-> 0, batch |-> {}]
  BY DEF Init, IdleJob
<1>3. FilesTyped
  <2>1. disk \in [Paths -> [kind : {"absent", "text", "excluded"}, stamp : Nat]]
    BY DEF Init
  <2>2. hand \in [at : {"idle", "discovered", "lookup", "observe", "send", "retire", "scan", "exclude"},
                  path : Paths \cup {0}, change : {"none", "create", "modify"}, list : {hand.list}]
    BY <1>1
  <2> QED BY <1>2, <2>1, <2>2 DEF Init, FilesTyped, NoScan, None
<1>4. StampsAreReal
  BY <1>2 DEF Init, StampsAreReal, None
<1>5. PathInHand /\ ScanIsFaithful /\ NothingForgotten
  BY <1>1 DEF Init, PathInHand, ScanIsFaithful, NothingForgotten
<1>6. EventsTyped
  BY DEF Init, EventsTyped
<1> QED BY <1>3, <1>4, <1>5, <1>6 DEF IndexInv

(* Nothing that leaves the files, the tables, the event task and the       *)
(* worker as they are can disturb the invariant.                           *)
LEMMA FrameInv ==
  ASSUME IndexInv, UNCHANGED <<disk, summary, work, hand, scan, job, wanted, steady>>, upsets' \in Nat,
         EventsTyped'
  PROVE  IndexInv'
  BY DEF IndexInv, FilesTyped, EventsTyped, StampsAreReal, PathInHand, ScanIsFaithful,
         NothingForgotten, Open

(* A step of the worker that only moves on, with a real stamp in hand.     *)
LEMMA JobInv ==
  ASSUME IndexInv, UNCHANGED <<disk, events, summary, work, hand, scan, wanted, steady, upsets>>,
         job' \in [at : {"idle", "flush", "check", "read", "verify", "commit"},
                   path : Paths \cup {0}, stamp : Nat, batch : {job'.batch}],
         job'.at \in {"check", "read", "verify", "commit"} => job'.stamp # None /\ job'.path \in Paths
  PROVE  IndexInv'
  BY DEF IndexInv, FilesTyped, EventsTyped, StampsAreReal, PathInHand, ScanIsFaithful,
         NothingForgotten, Open

(* Done, the place the worker returns to. *)
LEMMA DoneType == Done = [at |-> "flush", path |-> 0, stamp |-> 0, batch |-> job.batch]
  BY DEF Done

(* What a reconciliation writes, the whole of it or a part. *)
LEMMA ReconciledKeeps ==
  ASSUME IndexInv, NEW created \in SUBSET ToCreate, NEW gone \in SUBSET ToRetire,
         Reconciled(created, gone)
  PROVE  /\ summary' \in [Paths -> Nat] /\ wanted' \subseteq Paths
         /\ work' \in [Paths -> {"none", "pending", "failed", "superseded", "completed"}]
         /\ NothingForgotten'
<1>1. created \subseteq Paths /\ gone \subseteq Paths /\ created \cap gone = {}
  BY DEF IndexInv, FilesTyped, ToCreate, ToRetire
<1>2. summary' = [p \in Paths |-> IF p \in gone THEN None ELSE summary[p]]
  BY DEF Reconciled
<1>3. \A p \in Paths : work'[p] = IF p \in created THEN "pending"
                                  ELSE IF p \in gone /\ Open(p) THEN "superseded" ELSE work[p]
  BY <1>1 DEF Reconciled
<1>4. DOMAIN work' = Paths /\ work' = [p \in Paths |-> work'[p]]
  BY DEF Reconciled
<1>5. wanted' = (wanted \cup created) \ gone
  BY DEF Reconciled
<1>6. summary' \in [Paths -> Nat] /\ wanted' \subseteq Paths
  BY <1>1, <1>2, <1>5 DEF IndexInv, FilesTyped, None
<1>7. \A p \in Paths : work'[p] \in {"none", "pending", "failed", "superseded", "completed"}
  BY <1>3 DEF IndexInv, FilesTyped
<1>8. work' \in [Paths -> {"none", "pending", "failed", "superseded", "completed"}]
  BY <1>4, <1>7
<1>9. NothingForgotten'
  BY <1>1, <1>2, <1>3, <1>5 DEF IndexInv, NothingForgotten, Open, FilesTyped
<1> QED BY <1>6, <1>8, <1>9

(* The surroundings and a restart preserve the invariant. *)
LEMMA SurroundingsInv ==
  ASSUME IndexInv,
         \/ \E p \in Touched, kind \in {"absent", "text", "excluded"} : Edit(p, kind)
         \/ Watch
         \/ \E p \in Paths : Poll(p)
         \/ SetPaused
         \/ Restart
         \/ ReconcileCutShort
  PROVE  IndexInv'
<1> USE DEF IndexInv
<1>1. ASSUME NEW p \in Touched, NEW kind \in {"absent", "text", "excluded"}, Edit(p, kind)
      PROVE  IndexInv'
  <2>0. p \in Paths
    BY IndexAssumption
  <2>1. /\ UNCHANGED <<hand, events, scan, job, summary, work, wanted>>
        /\ upsets' \in Nat /\ steady' = steady \ {p}
        /\ disk' = [disk EXCEPT ![p] = [kind |-> kind,
                                        stamp |-> IF kind = "absent" THEN 0 ELSE upsets + 2]]
    BY <1>1 DEF Edit, FilesTyped, daemon, tables
  <2>2. FilesTyped'
    BY <2>0, <2>1 DEF FilesTyped
  <2>3. StampsAreReal'
    BY <2>0, <2>1 DEF FilesTyped, StampsAreReal, None
  <2>4. EventsTyped' /\ PathInHand' /\ NothingForgotten'
    BY <2>1 DEF EventsTyped, PathInHand, NothingForgotten, Open
  <2>5. ScanIsFaithful'
    BY <2>0, <2>1 DEF FilesTyped, ScanIsFaithful
  <2> QED BY <2>2, <2>3, <2>4, <2>5
<1>2. CASE Watch
  BY <1>2, FrameInv DEF Watch, tables, FilesTyped, EventsTyped
<1>3. ASSUME NEW p \in Paths, Poll(p) PROVE IndexInv'
  <2>1. Translate(seen[p], disk[p]) \in {"created", "removed", "changed"}
    BY DEF Translate
  <2>2. EventsTyped'
    BY <1>3, <2>1 DEF Poll, EventsTyped
  <2> QED BY <1>3, <2>2, FrameInv DEF Poll, tables, FilesTyped
<1>4. CASE SetPaused
  BY <1>4, FrameInv DEF SetPaused, tables, daemon, FilesTyped, EventsTyped
<1>5. CASE Restart
  <2>1. /\ UNCHANGED <<disk, summary, work, wanted>> /\ upsets' \in Nat /\ steady' = {}
        /\ events' = <<>>
        /\ scan' = NoScan /\ job' = IdleJob
        /\ hand' = [at |-> "discovered", path |-> 0, change |-> "none", list |-> <<>>]
    <3>1. upsets' \in Nat
      BY <1>5 DEF Restart, FilesTyped
    <3> QED BY <1>5, <3>1 DEF Restart, Boot, tables, At
  <2>2. FilesTyped' /\ StampsAreReal'
    BY <2>1 DEF FilesTyped, StampsAreReal, NoScan, IdleJob
  <2>3. EventsTyped' /\ PathInHand' /\ ScanIsFaithful' /\ NothingForgotten'
    BY <2>1 DEF EventsTyped, PathInHand, ScanIsFaithful, NothingForgotten, Open
  <2> QED BY <2>2, <2>3
<1>6. CASE ReconcileCutShort
  <2>1. /\ UNCHANGED disk /\ upsets' \in Nat /\ steady' = {}
        /\ events' = <<>> /\ scan' = NoScan /\ job' = IdleJob
        /\ hand' = [at |-> "discovered", path |-> 0, change |-> "none", list |-> <<>>]
    BY <1>6 DEF ReconcileCutShort, FilesTyped, Boot, At
  <2>2. PICK created \in SUBSET ToCreate, gone \in SUBSET ToRetire : Reconciled(created, gone)
    BY <1>6 DEF ReconcileCutShort
  <2>3. /\ summary' \in [Paths -> Nat] /\ wanted' \subseteq Paths /\ NothingForgotten'
        /\ work' \in [Paths -> {"none", "pending", "failed", "superseded", "completed"}]
    BY <2>2, ReconciledKeeps
  <2>4. FilesTyped' /\ StampsAreReal'
    BY <2>1, <2>3 DEF FilesTyped, StampsAreReal, NoScan, IdleJob
  <2>5. EventsTyped' /\ PathInHand' /\ ScanIsFaithful'
    BY <2>1 DEF EventsTyped, PathInHand, ScanIsFaithful
  <2> QED BY <2>3, <2>4, <2>5
<1> QED BY <1>1, <1>2, <1>3, <1>4, <1>5, <1>6

(* The steps of the summary worker preserve the invariant. *)
LEMMA WorkerInv ==
  ASSUME IndexInv, Worker \/ Receive \/ \E ready \in SUBSET pend : Tick(ready)
  PROVE  IndexInv'
<1> USE DEF IndexInv
<1>1. CASE Receive
  BY <1>1, FrameInv DEF Receive, tables, FilesTyped, EventsTyped
<1>2. ASSUME NEW ready \in SUBSET pend, Tick(ready) PROVE IndexInv'
  BY <1>2, JobInv DEF Tick, tables, FilesTyped
<1>3. CASE EndTick
  BY <1>3, JobInv DEF EndTick, tables, IdleJob
<1>4. CASE Check
  BY <1>4, JobInv, DoneType DEF Check, tables, FilesTyped, StampsAreReal
<1>5. CASE CheckAged
  BY <1>5, JobInv DEF CheckAged, tables, FilesTyped, StampsAreReal
<1>6. ASSUME NEW p \in Paths, Process(p) PROVE IndexInv'
  <2>1. CASE job' = [job EXCEPT !.batch = @ \ {p}]
    BY <1>6, <2>1, JobInv DEF Process, tables, FilesTyped
  <2>2. CASE /\ disk[p].kind # "absent"
             /\ job' = [job EXCEPT !.batch = @ \ {p}, !.at = "check", !.path = p, !.stamp = disk[p].stamp]
    <3>1. disk[p].stamp \in Nat /\ disk[p].stamp # None
      BY <2>2 DEF FilesTyped, StampsAreReal
    <3> QED BY <1>6, <2>2, <3>1, JobInv DEF Process, tables, FilesTyped
  <2> QED BY <1>6, <2>1, <2>2 DEF Process
<1>7. ASSUME job.at \in {"read", "verify"}, job' = Done,
             work' = [work EXCEPT ![job.path] = IF @ = "none" THEN @ ELSE "failed"],
             UNCHANGED <<disk, events, summary, hand, scan, wanted, steady, upsets>>
      PROVE  IndexInv'
  <2>1. FilesTyped' /\ StampsAreReal'
    BY <1>7, DoneType DEF FilesTyped, StampsAreReal
  <2>2. EventsTyped' /\ PathInHand' /\ ScanIsFaithful'
    BY <1>7 DEF EventsTyped, PathInHand, ScanIsFaithful
  <2>3. NothingForgotten'
    BY <1>7 DEF NothingForgotten, Open, FilesTyped
  <2> QED BY <2>1, <2>2, <2>3
<1>8. CASE Read
  BY <1>7, <1>8, JobInv DEF Read, tables, FilesTyped, StampsAreReal
<1>9. CASE Verify
  BY <1>7, <1>9, JobInv DEF Verify, tables, FilesTyped, StampsAreReal
<1>10. CASE Commit
  <2>1. /\ UNCHANGED <<disk, events, hand, scan, wanted, steady, upsets>> /\ job' = Done
        /\ summary' = [summary EXCEPT ![job.path] = job.stamp]
        /\ work' = [work EXCEPT ![job.path] = IF @ = "none" THEN @ ELSE "completed"]
        /\ job.stamp # None /\ job.stamp \in Nat /\ job.path \in Paths
    BY <1>10 DEF Commit, FilesTyped, StampsAreReal
  <2>2. FilesTyped' /\ StampsAreReal'
    BY <2>1, DoneType DEF FilesTyped, StampsAreReal
  <2>3. EventsTyped' /\ PathInHand' /\ ScanIsFaithful'
    BY <2>1 DEF EventsTyped, PathInHand, ScanIsFaithful
  <2>4. NothingForgotten'
    BY <2>1 DEF NothingForgotten, Open, FilesTyped
  <2> QED BY <2>2, <2>3, <2>4
<1> QED BY <1>1, <1>2, <1>3, <1>4, <1>5, <1>6, <1>8, <1>9, <1>10 DEF Worker

(* The steps of the event task and of the scan preserve the invariant. *)
LEMMA EventTaskInv ==
  ASSUME IndexInv, EventTask
  PROVE  IndexInv'
<1> USE DEF IndexInv
<1> DEFINE Places == {"idle", "discovered", "lookup", "observe", "send", "retire", "scan", "exclude"}
           Hands(l) == [at : Places, path : Paths \cup {0}, change : {"none", "create", "modify"},
                        list : {l}]
<1>a. ASSUME NEW where \in Places, NEW p \in Paths \cup {0}, hand' = At(where, p)
      PROVE  hand' \in Hands(hand'.list) /\ hand'.at = where /\ hand'.path = p
  BY <1>a DEF At
<1>b. ASSUME NEW l, hand' = Sending(l)
      PROVE  hand' \in Hands(hand'.list) /\ hand'.at = "send"
  BY <1>b DEF Sending
<1>c. ASSUME UNCHANGED <<disk, summary, work, job, wanted, upsets>>, EventsTyped',
             scan' \in [todo : SUBSET Paths, staged : SUBSET Paths, later : SUBSET Paths],
             hand' \in Hands(hand'.list), steady' \subseteq Paths,
             hand'.at \in {"lookup", "observe", "retire"} => hand'.path \in Paths,
             hand'.at \notin {"scan", "exclude"}
      PROVE  IndexInv'
  <2>1. FilesTyped' /\ StampsAreReal' /\ PathInHand'
    BY <1>c DEF FilesTyped, StampsAreReal, PathInHand
  <2>2. ScanIsFaithful' /\ NothingForgotten'
    BY <1>c DEF ScanIsFaithful, NothingForgotten, Open
  <2> QED BY <1>c, <2>1, <2>2
<1>1. CASE Handle
  <2>1. events # <<>> /\ Head(events).path \in Paths /\ EventsTyped'
    <3> DEFINE Event == [kind : {"created", "removed", "changed"}, path : Paths]
    <3>1. events \in Seq(Event) /\ events # <<>> /\ events' = Tail(events)
      BY <1>1 DEF Handle, EventsTyped
    <3> HIDE DEF Event
    <3>2. Head(events) \in Event /\ Tail(events) \in Seq(Event)
      BY <3>1, HeadTailProperties
    <3> QED BY <3>1, <3>2 DEF EventsTyped, Event
  <2>2. \E where \in {"idle", "lookup", "retire"}, p \in Paths \cup {0} :
          /\ hand' = At(where, p)
          /\ where # "idle" => p \in Paths
    BY <1>1, <2>1 DEF Handle, IdleHand
  <2>3. hand' \in Hands(hand'.list) /\ hand'.at \in {"idle", "lookup", "retire"}
        /\ (hand'.at # "idle" => hand'.path \in Paths)
    BY <2>2, <1>a
  <2> QED BY <1>1, <1>c, <2>1, <2>3 DEF Handle, tables, FilesTyped
<1>2. CASE Retire
  <2>0. hand.path \in Paths
    BY <1>2 DEF Retire, PathInHand
  <2>1. /\ hand' \in Hands(hand'.list) /\ hand'.path = 0
        /\ hand'.at = IF hand.at = "exclude" THEN "scan" ELSE "idle"
    BY <1>2, <1>a DEF Retire
  <2>2. /\ UNCHANGED <<disk, events, job, upsets, steady>>
        /\ summary' = [summary EXCEPT ![hand.path] = None]
        /\ work' = [work EXCEPT ![hand.path] = IF Open(hand.path) THEN "superseded" ELSE @]
        /\ wanted' = wanted \ {hand.path}
        /\ scan' = [scan EXCEPT !.later = IF hand.at = "exclude" THEN @ \cup {hand.path} ELSE @]
    BY <1>2 DEF Retire, RetireAbsent
  <2>3. FilesTyped' /\ StampsAreReal' /\ EventsTyped' /\ PathInHand'
    BY <2>0, <2>1, <2>2 DEF FilesTyped, StampsAreReal, EventsTyped, PathInHand, None
  <2>4. ScanIsFaithful'
    BY <2>0, <2>1, <2>2 DEF ScanIsFaithful, FilesTyped
  <2>5. NothingForgotten'
    BY <2>0, <2>2 DEF NothingForgotten, Open, FilesTyped
  <2> QED BY <2>3, <2>4, <2>5
<1>3. CASE Lookup
  BY <1>3, <1>c DEF Lookup, tables, FilesTyped, EventsTyped, PathInHand
<1>4. CASE Observe
  <2>0. hand.path \in Paths
    BY <1>4 DEF Observe, PathInHand
  <2>1. hand' \in Hands(hand'.list) /\ hand'.at = "send"
    BY <1>4, <1>b DEF Observe
  <2>2. /\ UNCHANGED <<disk, events, scan, job, upsets, steady>>
        /\ summary' \in {summary, [summary EXCEPT ![hand.path] = None]}
        /\ work' = [work EXCEPT ![hand.path] = "pending"]
        /\ wanted' = wanted \cup {hand.path}
    BY <1>4 DEF Observe, ObserveChange
  <2>3. FilesTyped' /\ StampsAreReal' /\ EventsTyped' /\ PathInHand'
    BY <2>0, <2>1, <2>2 DEF FilesTyped, StampsAreReal, EventsTyped, PathInHand, None
  <2>4. ScanIsFaithful'
    BY <2>1 DEF ScanIsFaithful
  <2>5. NothingForgotten'
    BY <2>0, <2>2 DEF NothingForgotten, Open, FilesTyped
  <2> QED BY <2>3, <2>4, <2>5
<1>5. CASE Send
  <2>1. hand' = At("idle", 0) \/ hand' = [hand EXCEPT !.list = Tail(@)]
    BY <1>5 DEF Send, IdleHand
  <2>2. hand' \in Hands(hand'.list) /\ hand'.at \in {"idle", "send"}
    BY <1>5, <2>1, <1>a DEF Send, FilesTyped
  <2> QED BY <1>5, <1>c, <2>2 DEF Send, tables, FilesTyped, EventsTyped
<1>6. CASE StartScan
  <2>1. hand' \in Hands(hand'.list) /\ hand'.at = "scan"
    BY <1>6, <1>a DEF StartScan
  <2>2. /\ UNCHANGED <<disk, events, job, upsets, summary, work, wanted>> /\ steady' = Paths
        /\ scan' = [todo |-> Paths, staged |-> {}, later |-> {}]
    BY <1>6 DEF StartScan, tables
  <2>3. FilesTyped' /\ StampsAreReal' /\ EventsTyped' /\ PathInHand'
    BY <2>1, <2>2 DEF FilesTyped, StampsAreReal, EventsTyped, PathInHand
  <2>4. ScanIsFaithful' /\ NothingForgotten'
    BY <2>1, <2>2 DEF ScanIsFaithful, NothingForgotten, Open
  <2> QED BY <2>3, <2>4
<1>7. ASSUME NEW p \in Paths, Visit(p) PROVE IndexInv'
  <2>1. /\ hand' \in Hands(hand'.list)
        /\ IF disk[p].kind = "excluded" THEN hand'.at = "exclude" /\ hand'.path = p ELSE hand' = hand
    BY <1>7, <1>a DEF Visit, FilesTyped
  <2>2. /\ UNCHANGED <<disk, events, job, upsets, summary, work, wanted, steady>> /\ hand.at = "scan"
        /\ scan' = [scan EXCEPT !.todo = @ \ {p},
                                !.staged = IF disk[p].kind = "text" THEN @ \cup {p} ELSE @]
    BY <1>7 DEF Visit, tables
  <2>3. FilesTyped' /\ StampsAreReal' /\ EventsTyped' /\ PathInHand'
    BY <2>1, <2>2 DEF FilesTyped, StampsAreReal, EventsTyped, PathInHand
  <2>4. ScanIsFaithful'
    BY <2>1, <2>2 DEF ScanIsFaithful, FilesTyped
  <2>5. NothingForgotten'
    BY <2>2 DEF NothingForgotten, Open
  <2> QED BY <2>3, <2>4, <2>5
<1>8. CASE ScanFails
  <2>1. hand' \in Hands(hand'.list) /\ hand'.at = "idle"
    BY <1>8, <1>a DEF ScanFails, IdleHand
  <2> QED BY <1>8, <1>c, <2>1 DEF ScanFails, tables, NoScan, EventsTyped
<1>9. CASE Reconcile
  <2>1. hand' \in Hands(hand'.list) /\ hand'.at = "send"
    BY <1>9, <1>b DEF Reconcile
  <2>2. UNCHANGED <<disk, events, job, upsets>> /\ steady' = {} /\ scan' = NoScan
    BY <1>9 DEF Reconcile
  <2>3. summary' \in [Paths -> Nat] /\ wanted' \subseteq Paths /\ NothingForgotten'
        /\ work' \in [Paths -> {"none", "pending", "failed", "superseded", "completed"}]
    <3>1. ToCreate \cap ToRetire = {}
      BY DEF ToCreate, ToRetire
    <3> QED BY <1>9, <2>2, <3>1, ReconciledKeeps DEF Reconcile
  <2>4. FilesTyped' /\ StampsAreReal' /\ EventsTyped' /\ PathInHand'
    BY <2>1, <2>2, <2>3 DEF FilesTyped, StampsAreReal, EventsTyped, PathInHand, NoScan
  <2>5. ScanIsFaithful'
    BY <2>1 DEF ScanIsFaithful
  <2> QED BY <2>3, <2>4, <2>5
<1> QED BY <1>1, <1>2, <1>3, <1>4, <1>5, <1>6, <1>7, <1>8, <1>9 DEF EventTask

(* Every step preserves the invariant. *)
LEMMA NextInv == IndexInv /\ [Next]_vars => IndexInv'
<1>1. ASSUME IndexInv, UNCHANGED vars PROVE IndexInv'
  BY <1>1, FrameInv DEF vars, daemon, tables, IndexInv, FilesTyped, EventsTyped
<1> QED BY <1>1, SurroundingsInv, WorkerInv, EventTaskInv DEF Next

(* A file that the event task or a scan last found eligible has a summary  *)
(* or open work, whatever the channel drops, a restart loses and the       *)
(* worker and the event task do to its row in turn.                        *)
THEOREM NeverForgotten == Spec => []NothingForgotten
<1>1. IndexInv => NothingForgotten
  BY DEF IndexInv
<1> QED BY <1>1, InitInv, NextInv, PTL DEF Spec

(* Whatever reconcile_repository_scan is run on, it accounts for every     *)
(* path that nobody touched while the scan ran.                            *)
LEMMA ReconcileAccounts ==
  ASSUME IndexInv, Reconcile, NEW p \in steady
  PROVE  /\ disk[p].kind = "text" => summary'[p] # None \/ work'[p] \in {"pending", "failed"}
         /\ disk[p].kind = "absent" => summary'[p] = None
<1>1. p \in Paths /\ scan.staged \subseteq Paths
  BY DEF IndexInv, FilesTyped
<1>2. /\ disk[p].kind = "text" => p \in scan.staged
      /\ p \in scan.staged => disk[p].kind = "text"
      /\ p \in scan.later => disk[p].kind = "excluded"
  BY DEF IndexInv, ScanIsFaithful, Reconcile
<1>3. summary' = [q \in Paths |-> IF q \in ToRetire THEN None ELSE summary[q]]
  BY DEF Reconcile, Reconciled
<1>4. work' = [q \in Paths |-> IF q \in ToCreate THEN "pending"
                             ELSE IF q \in ToRetire /\ Open(q) THEN "superseded" ELSE work[q]]
  BY DEF Reconcile, Reconciled
<1>5. p \in ToCreate => work'[p] = "pending"
  <2>1. p \in ToCreate => p \notin ToRetire
    BY DEF IndexInv, ToCreate, ToRetire
  <2> QED BY <1>1, <1>4, <2>1
<1> QED BY <1>1, <1>2, <1>3, <1>5 DEF ToCreate, ToRetire

(* A scan that is reconciled accounts for what it walked; a scan that      *)
(* failed, or that somebody else's step ends, is not reconciled.           *)
THEOREM ScanAccounted == Spec => ScanAccounts
<1>1. IndexInv /\ [Next]_vars =>
        [(hand.at = "scan" /\ scan.todo = {} /\ hand'.at = "send")
          => \A p \in steady :
                /\ disk[p].kind = "text" => (summary'[p] # None \/ work'[p] \in {"pending", "failed"})
                /\ disk[p].kind = "absent" => summary'[p] = None]_vars
  <2> SUFFICES ASSUME IndexInv, Next, hand.at = "scan", scan.todo = {}, hand'.at = "send"
               PROVE  Reconcile
    BY ReconcileAccounts
  <2>1. CASE EventTask
    BY <2>1 DEF EventTask, Handle, Retire, Lookup, Observe, Send, StartScan, Visit, ScanFails
  <2>2. CASE \/ \E p \in Touched, kind \in {"absent", "text", "excluded"} : Edit(p, kind)
             \/ Watch \/ (\E p \in Paths : Poll(p)) \/ SetPaused
    BY <2>2 DEF Edit, Watch, Poll, SetPaused, daemon
  <2>3. CASE Restart \/ ReconcileCutShort
    BY <2>3 DEF Restart, ReconcileCutShort, Boot, At
  <2>4. CASE Worker \/ Receive \/ \E ready \in SUBSET pend : Tick(ready)
    BY <2>4 DEF Worker, EndTick, Check, CheckAged, Read, Verify, Commit, Process, Receive, Tick
  <2> QED BY <2>1, <2>2, <2>3, <2>4 DEF Next
<1> QED BY <1>1, InitInv, NextInv, PTL DEF Spec, ScanAccounts

----------------------------------------------------------------------------
(* The review coordinator.                                                 *)

(* The phases in which the worktree holds the candidate that was captured, *)
(* the ones in which its checks run, and the ones for which they passed.   *)
Checking == {"verify", "reverify"}
Passed   == {"tier", "review", "reviewing"}
Judged   == Checking \cup Passed

(* What the evidence of a cycle says of the candidate it captured: no      *)
(* check speaks of another one, and a required one without a result is     *)
(* still to run.                                                           *)
EvidenceAgrees(c) ==
  /\ \A k \in Checks : Evidence(c)[k].status # "none" => Evidence(c)[k].tested = c.captured
  /\ \A k \in Required : Evidence(c)[k].status = "none" => \E i \in c.todo : Plan[i] = k

RequiredPassed(c) == \A k \in Required : Evidence(c)[k].status = "passed"

(* The counter of remediations tells which evidence counts, and the cause  *)
(* whether a review was accepted: only after one are there findings.       *)
Bookkeeping(c, where) ==
  /\ where \in {"capture", "verify"} => c.rem = 0
  /\ where = "capture" => c.before = NoEvidence
  /\ where \in {"remediating", "recapture", "reverify"} => c.rem > 0
  /\ where \in {"capture", "verify", "tier"} => c.cause # "review"
  /\ c.cause # "review" => c.raised = {} /\ c.result = NoFindings

(* A cycle that is driven, over a worktree that holds x. *)
Driven(c, where, x) ==
  /\ c \in Cycles /\ c.state \notin Terminal
  /\ c.request \subseteq approved
  /\ c.raised \subseteq c.prior
  /\ Bookkeeping(c, where)
  /\ where \in Judged => c.captured = x /\ HasAuthority(x)
  /\ where \in Checking => EvidenceAgrees(c)
  /\ where \in Passed => RequiredPassed(c) /\ EvidenceAgrees(c)

(* The inductive invariant of a review cycle. *)
ReviewInv ==
  /\ ReviewTypeOK
  /\ pc # "idle" => Driven(cyc, pc, tree)
  /\ Clean => pc = "idle"
  /\ CleanIsTested /\ NoObjectionForgotten /\ CleanIsAuthorised

(* The sum of two usages is a usage. *)
LEMMA PlusTyped ==
  ASSUME NEW u \in Amounts, NEW v \in Amounts PROVE Plus(u, v) \in Amounts
<1> SUFFICES ASSUME NEW d \in Dims PROVE Plus(u, v)[d] \in Nat \cup {Unknown}
    BY DEF Plus, Amounts
<1>1. CASE u[d] = Unknown \/ v[d] = Unknown
  BY <1>1 DEF Plus
<1>2. CASE ~ (u[d] = Unknown \/ v[d] = Unknown)
  <2>1. u[d] \in Nat /\ v[d] \in Nat /\ SpendCap \in Nat
    BY <1>2, ReviewAssumption DEF Amounts
  <2> DEFINE sum == u[d] + v[d]
             S == {sum, SpendCap}
  <2>2. sum \in Nat
    BY <2>1
  <2> HIDE DEF sum
  <2>3. \E x \in S : \A y \in S : x <= y
    <3>1. CASE sum <= SpendCap
      BY <2>1, <2>2, <3>1
    <3>2. CASE SpendCap <= sum
      BY <2>1, <2>2, <3>2
    <3> QED BY <2>1, <2>2, <3>1, <3>2
  <2>4. Min(S) \in S
    BY <2>3 DEF Min
  <2>5. Plus(u, v)[d] = Min(S)
    BY <1>2 DEF Plus, sum
  <2> QED BY <2>1, <2>2, <2>4, <2>5
<1> QED BY <1>1, <1>2

LEMMA UsagesTyped ==
  /\ FailedUsage \in Amounts /\ CheckUsage \in Amounts
  /\ Initial \in Amounts /\ Usages \subseteq Amounts
BY ReviewAssumption DEF FailedUsage, CheckUsage, Amounts, Dims, Unknown

(* What a candidate's scope and tier are. *)
LEMMA ScopeTyped ==
  ASSUME NEW x \in Contents
  PROVE  /\ EvaluateScope(Candidate[x]) \subseteq ScopeFindings
         /\ SelectReviewTier(Candidate[x], EvaluateScope(Candidate[x])) \in Tiers
BY DEF ScopeFindings, Tiers

(* The decision about a subject that is let through, and what it rests on. *)
LEMMA DecisionsTyped ==
  ASSUME NEW s, NEW evidence
  PROVE  Decide(s, evidence) \in {"prohibited", "undeclared_expansion",
                                  "ambiguous_human_review"} \cup Authorised
<1>1. PathRule(s) \in {"undeclared_expansion"} \cup Authorised
  BY DEF PathRule, Authorised
<1>2. ClassGate(s, Classify(s.path), evidence)
        \in {"prohibited", "undeclared_expansion", "ambiguous_human_review", "none"}
            \cup Authorised
  BY DEF ClassGate, Authorised
<1> QED BY <1>1, <1>2 DEF Decide, Authorised

LEMMA AuthorisedIsGranted ==
  ASSUME NEW s, NEW evidence, Decide(s, evidence) \in Authorised
  PROVE  /\ ~ \E rule \in Policy.prohibited : Prohibits(rule, s)
         /\ \/ Policy.expected[s.path] # "none"
            \/ s.path \in Policy.allowed \cup Policy.surface
            \/ s.kind = "copied" /\ s.side = "old"
            \/ Dependency(Classify(s.path)) /\ evidence.newCrates = {}
<1> DEFINE class == Classify(s.path)
           gate == ClassGate(s, class, evidence)
<1>1. ~ \E rule \in Policy.prohibited : Prohibits(rule, s)
  BY DEF Decide, Authorised
<1>2. \/ s.kind = "copied" /\ s.side = "old"
      \/ gate \in Authorised
      \/ PathRule(s) \in Authorised
  BY DEF Decide, Authorised
<1>3. ASSUME gate \in Authorised
      PROVE  \/ Policy.expected[s.path] # "none"
             \/ s.path \in Policy.surface
             \/ Dependency(class) /\ evidence.newCrates = {}
  BY <1>3 DEF ClassGate, Authorised
<1>4. ASSUME PathRule(s) \in Authorised
      PROVE  Policy.expected[s.path] # "none" \/ s.path \in Policy.allowed
  BY <1>4 DEF PathRule, Authorised
<1> QED BY <1>1, <1>2, <1>3, <1>4

(* A candidate the scope gate lets pass has an authority for every change. *)
LEMMA GateGrants ==
  ASSUME NEW x \in Contents, ScopeStop(EvaluateScope(Candidate[x])) = "none",
         cyc.request \subseteq approved
  PROVE  HasAuthority(x)
<1> DEFINE evidence == Candidate[x].evidence
<1> SUFFICES ASSUME NEW change \in Candidate[x].changes, NEW s \in Subjects(change),
                    Finding(s, evidence) \notin approved
             PROVE  Decide(s, evidence) \in Authorised
    BY AuthorisedIsGranted DEF HasAuthority
<1> DEFINE finding == Finding(s, evidence)
<1>1. finding \in EvaluateScope(Candidate[x]) /\ finding.decision = Decide(s, evidence)
  BY DEF EvaluateScope, Finding
<1>2. \/ Disposition(EvaluateScope(Candidate[x])) = "contained"
      \/ HumanReviewAbsorbed(EvaluateScope(Candidate[x]), cyc.request)
  BY DEF ScopeStop
<1>3. CASE Disposition(EvaluateScope(Candidate[x])) = "contained"
  BY <1>1, <1>3, DecisionsTyped DEF Disposition
<1>4. CASE HumanReviewAbsorbed(EvaluateScope(Candidate[x]), cyc.request)
  BY <1>1, <1>4 DEF HumanReviewAbsorbed
<1> QED BY <1>2, <1>3, <1>4

(***************************************************************************)
(* Every step of the coordinator goes on with a cycle or stops with one.   *)
(***************************************************************************)
LEMMA Continues ==
  ASSUME ReviewInv, ~ Clean, NEW c, NEW where \in Phases \ {"idle"},
         Driven(c, where, tree'), Goto(c, where),
         UNCHANGED stored \/ \E s \in Cycles : s.state \notin Terminal /\ Save(s),
         tree' \in Contents, UNCHANGED approved, drives' \in 0 .. MaxDrives
  PROVE  ReviewInv'
<1>1. c \in Cycles /\ c.state \notin Terminal /\ "completed" \in Terminal
  BY DEF Driven, Terminal
<1>2. ReviewTypeOK'
  BY <1>1 DEF ReviewInv, ReviewTypeOK, Goto, Save
<1>3. Driven(cyc, pc, tree)'
  BY DEF Driven, Goto, HasAuthority
<1>4. ~ Clean'
  BY <1>1 DEF ReviewInv, Clean, Save
<1> QED BY <1>2, <1>3, <1>4 DEF ReviewInv, CleanIsTested, NoObjectionForgotten, CleanIsAuthorised

LEMMA StopsUnclean ==
  ASSUME ReviewInv, NEW c \in Cycles, NEW reason \in Reasons \ {"clean_review"},
         Stop(c, reason), tree' \in Contents, UNCHANGED <<approved, drives>>
  PROVE  ReviewInv'
<1> DEFINE s == [c EXCEPT !.state = "human_review_required", !.stop = reason]
<1>1. s \in Cycles /\ s.state = "human_review_required"
  <2>1. "human_review_required" \in States /\ reason \in Reasons \cup {"none"}
    BY DEF States, Terminal
  <2>2. s \in Cycles
    BY <2>1, Zenon DEF Cycles
  <2> QED BY <2>2 DEF Cycles
<1>2. stored' = s /\ pc' = "idle" /\ cyc' = NoCycle
  BY DEF Stop, Save, Goto
<1> HIDE DEF s
<1>3. ReviewTypeOK'
  BY <1>1, <1>2 DEF ReviewInv, ReviewTypeOK, Phases
<1>4. ~ Clean'
  BY <1>1, <1>2 DEF Clean
<1> QED BY <1>2, <1>3, <1>4
        DEF ReviewInv, CleanIsTested, NoObjectionForgotten, CleanIsAuthorised

LEMMA StopsClean ==
  ASSUME ReviewInv, NEW c \in Cycles, Stop(c, "clean_review"),
         UNCHANGED <<approved, tree, drives>>,
         c.captured = tree, HasAuthority(tree), RequiredPassed(c), EvidenceAgrees(c),
         \A f \in c.raised : c.result[f] # "absent", Blocking(c) = {}
  PROVE  ReviewInv'
<1> DEFINE s == [c EXCEPT !.state = "completed", !.stop = "clean_review"]
<1>1. s \in Cycles /\ s.state = "completed"
  <2>1. "completed" \in States /\ "clean_review" \in Reasons \cup {"none"}
    BY DEF States, Terminal, Reasons
  <2>2. s \in Cycles
    BY <2>1, Zenon DEF Cycles
  <2> QED BY <2>2 DEF Cycles
<1>2. stored' = s /\ pc' = "idle" /\ cyc' = NoCycle
  BY DEF Stop, Save, Goto
<1>3. /\ s.captured = c.captured /\ s.rem = c.rem /\ s.before = c.before /\ s.after = c.after
      /\ s.raised = c.raised /\ s.result = c.result /\ s.scope = c.scope
      /\ s.request = c.request
  BY DEF Cycles
<1> HIDE DEF s
<1>4. ReviewTypeOK'
  BY <1>1, <1>2 DEF ReviewInv, ReviewTypeOK, Phases
<1>5. CleanIsTested'
  <2> SUFFICES ASSUME NEW k \in Required
               PROVE  Evidence(s)[k] = [status |-> "passed", tested |-> tree]
      BY <1>2, <1>3 DEF CleanIsTested, Evidence
  <2>1. k \in Checks
    BY ReviewAssumption
  <2>2. Evidence(c)[k] \in [status : Results \cup {"none"}, tested : Contents \cup {"none"}]
    BY <2>1 DEF Cycles, Evidences, Evidence
  <2>3. Evidence(c)[k].status = "passed" /\ Evidence(c)[k].tested = tree
    BY <2>1 DEF RequiredPassed, EvidenceAgrees
  <2>4. Evidence(c)[k] = [status |-> "passed", tested |-> tree]
    BY <2>2, <2>3
  <2> QED BY <1>3, <2>4 DEF Evidence
<1>6. NoObjectionForgotten'
  BY <1>2, <1>3 DEF NoObjectionForgotten, Blocking, Adjudicated
<1>7. CleanIsAuthorised'
  BY DEF CleanIsAuthorised, HasAuthority
<1> QED BY <1>2, <1>4, <1>5, <1>6, <1>7 DEF ReviewInv

(* What a driven cycle keeps when only its counters, its usage or what the *)
(* coordinator says of it change.                                          *)
LEMMA Kept ==
  ASSUME NEW c, NEW where, NEW x, Driven(c, where, x),
         NEW d \in Cycles, d.state \notin Terminal, NEW next,
         d.request = c.request, d.raised = c.raised, d.prior = c.prior,
         d.cause = c.cause, d.result = c.result, d.rem = c.rem,
         d.before = c.before, d.after = c.after, d.captured = c.captured, d.todo = c.todo,
         next = where \/ (where \in Passed /\ next \in Passed \ {"tier"})
         \/ (where = "reviewing" /\ next = "review")
         \/ next = "remediate"
  PROVE  Driven(d, next, x)
BY DEF Driven, Bookkeeping, EvidenceAgrees, RequiredPassed, Evidence, Judged, Checking, Passed

LEMMA ContinuesSaved ==
  ASSUME ReviewInv, ~ Clean, NEW c, NEW where \in Phases \ {"idle"},
         Driven(c, where, tree'), SaveAndGoto(c, where),
         tree' \in Contents, UNCHANGED approved, drives' \in 0 .. MaxDrives
  PROVE  ReviewInv'
BY Continues DEF SaveAndGoto, Driven

LEMMA AtWork ==
  ASSUME ReviewInv, pc # "idle"
  PROVE  /\ Driven(cyc, pc, tree) /\ cyc \in Cycles /\ ~ Clean
         /\ tree \in Contents /\ drives \in 0 .. MaxDrives
BY DEF ReviewInv, ReviewTypeOK

LEMMA BeginKeeps == ASSUME ReviewInv, Begin PROVE ReviewInv'
<1>1. PICK limits \in Limits : SaveAndGoto(NewCycle(approved, limits), "capture")
  BY DEF Begin
<1> DEFINE c == NewCycle(approved, limits)
<1>2. NoEvidence \in Evidences /\ NoFindings \in [FindingIds -> Statuses]
  BY DEF NoEvidence, Evidences, NoFindings, Statuses
<1>3. c \in Cycles
  <2>1. /\ approved \subseteq ScopeFindings /\ Initial \in Amounts
        /\ 0 \in 0 .. MaxReviews /\ 0 \in 0 .. MaxRemediations
        /\ "collecting_evidence" \in States
    BY ReviewAssumption, LimitsAssumption DEF ReviewInv, ReviewTypeOK, States
  <2> QED BY <2>1, <1>2 DEF NewCycle, Cycles
<1>4. Driven(c, "capture", tree)
  BY <1>3 DEF Driven, NewCycle, Bookkeeping, Terminal, Judged, Checking, Passed
<1>5. ~ Clean
  BY DEF Begin, Clean
<1>6. drives' \in 0 .. MaxDrives /\ UNCHANGED <<approved, tree>> /\ tree \in Contents
  BY ReviewAssumption DEF Begin, ReviewInv, ReviewTypeOK
<1> QED BY <1>1, <1>4, <1>5, <1>6, ContinuesSaved DEF Phases

LEMMA EvidenceFailsKeeps == ASSUME ReviewInv, EvidenceFails PROVE ReviewInv'
<1>1. pc # "idle" /\ Stop(cyc, "evidence_failure") /\ UNCHANGED <<approved, tree, drives>>
  BY DEF EvidenceFails
<1> QED BY <1>1, AtWork, StopsUnclean DEF Reasons

(* What capturing the worktree makes of a cycle. *)
LEMMA CapturedIs ==
  ASSUME NEW c \in Cycles, tree \in Contents
  PROVE  LET findings == EvaluateScope(Candidate[tree])
             d == Captured(c, findings)
         IN  /\ d \in Cycles /\ d.captured = tree
             /\ d.state = c.state /\ d.request = c.request /\ d.raised = c.raised
             /\ d.prior = c.prior /\ d.cause = c.cause /\ d.result = c.result
             /\ d.rem = c.rem /\ d.before = c.before /\ d.after = c.after
             /\ d.failing = c.failing
<1> DEFINE findings == EvaluateScope(Candidate[tree])
           tier == SelectReviewTier(Candidate[tree], findings)
           scope == c.scope \cup findings
           d == [c EXCEPT !.captured = tree, !.scope = scope, !.tier = tier]
<1>1. c.scope \subseteq ScopeFindings
  BY DEF Cycles
<1>2. scope \in SUBSET ScopeFindings /\ tier \in Tiers \cup {"none"}
      /\ tree \in Contents \cup {"none"}
  BY <1>1, ScopeTyped
<1>3. Captured(c, findings) = d
  BY DEF Captured
<1> HIDE DEF scope, tier, findings
<1>4. d \in Cycles
  BY <1>2, Zenon DEF Cycles
<1>5. /\ d.captured = tree
      /\ d.state = c.state /\ d.request = c.request /\ d.raised = c.raised
      /\ d.prior = c.prior /\ d.cause = c.cause /\ d.result = c.result
      /\ d.rem = c.rem /\ d.before = c.before /\ d.after = c.after
      /\ d.failing = c.failing
  BY DEF Cycles
<1> QED BY <1>3, <1>4, <1>5 DEF findings

(* A refused candidate stops the cycle. *)
LEMMA ScopeStopReasons ==
  ASSUME NEW findings PROVE ScopeStop(findings) \in {"none", "scope_broadened", "scope_ambiguous"}
BY DEF ScopeStop

LEMMA CaptureKeeps == ASSUME ReviewInv, Capture PROVE ReviewInv'
<1> DEFINE findings == EvaluateScope(Candidate[tree])
           c == Captured(cyc, findings)
           d == [c EXCEPT !.state = "verifying", !.todo = DOMAIN Plan]
<1>1. /\ pc = "capture" /\ UNCHANGED <<approved, tree, drives>>
      /\ IF ScopeStop(findings) # "none" THEN Stop(c, ScopeStop(findings))
         ELSE SaveAndGoto(d, "verify")
  BY DEF Capture
<1>2. /\ Driven(cyc, pc, tree) /\ cyc \in Cycles /\ ~ Clean
      /\ tree \in Contents /\ drives \in 0 .. MaxDrives
  BY <1>1, AtWork
<1>3. /\ c \in Cycles /\ c.captured = tree
      /\ c.request = cyc.request /\ c.raised = cyc.raised
      /\ c.prior = cyc.prior /\ c.cause = cyc.cause /\ c.result = cyc.result
      /\ c.rem = cyc.rem /\ c.before = cyc.before
  BY <1>2, CapturedIs
<1> HIDE DEF c
<1>4. CASE ScopeStop(findings) # "none"
  BY <1>1, <1>2, <1>3, <1>4, ScopeStopReasons, StopsUnclean DEF Reasons
<1>5. CASE ScopeStop(findings) = "none"
  <2>1. d \in Cycles
    <3>1. "verifying" \in States /\ DOMAIN Plan \in SUBSET DOMAIN Plan
      BY DEF States
    <3> QED BY <1>3, <3>1, Zenon DEF Cycles
  <2>2. /\ d.state = "verifying" /\ d.todo = DOMAIN Plan
        /\ d.captured = c.captured /\ d.request = c.request /\ d.raised = c.raised
        /\ d.prior = c.prior /\ d.cause = c.cause /\ d.result = c.result
        /\ d.rem = c.rem /\ d.before = c.before
    BY <1>3 DEF Cycles
  <2> HIDE DEF d
  <2>3. HasAuthority(tree)
    BY <1>2, <1>5, GateGrants DEF Driven
  <2>4. /\ d.rem = 0 /\ d.before = NoEvidence /\ d.cause # "review"
        /\ d.cause # "review" => d.raised = {} /\ d.result = NoFindings
    BY <1>1, <1>2, <1>3, <2>2 DEF Driven, Bookkeeping
  <2>5. EvidenceAgrees(d)
    <3>1. \A k \in Checks : Evidence(d)[k].status = "none"
      BY <2>4 DEF Evidence, NoEvidence
    <3>2. \A k \in Required : \E i \in DOMAIN Plan : Plan[i] = k
      BY ReviewAssumption DEF Checks, Range
    <3> QED BY <3>1, <3>2, <2>2 DEF EvidenceAgrees
  <2>6. Driven(d, "verify", tree)
    BY <1>2, <1>3, <2>1, <2>2, <2>3, <2>4, <2>5
       DEF Driven, Bookkeeping, Terminal, Judged, Checking, Passed
  <2> QED BY <1>1, <1>2, <1>5, <2>6, ContinuesSaved DEF Phases
<1> QED BY <1>4, <1>5

LEMMA RunCheckKeeps ==
  ASSUME ReviewInv, NEW i \in DOMAIN Plan, NEW status \in Results, RunCheck(i, status)
  PROVE  ReviewInv'
<1> DEFINE k  == Plan[i]
           ev == [status |-> status, tested |-> cyc.captured]
           before == [cyc.before EXCEPT ![k] = IF pc = "verify" THEN ev ELSE @]
           after == [cyc.after EXCEPT ![k] = IF pc = "reverify" THEN ev ELSE @]
           todo == cyc.todo \ {i}
           spent == Plus(cyc.spent, CheckUsage)
           c == [cyc EXCEPT !.todo = todo, !.spent = spent, !.before = before, !.after = after]
<1>1. /\ pc \in Checking /\ i \in cyc.todo /\ UNCHANGED <<approved, tree, drives>>
      /\ \/ Stop(cyc, "limit_exhausted") \/ Stop(c, "limit_exhausted")
         \/ Goto(c, pc) /\ UNCHANGED stored
  BY DEF RunCheck, Checking
<1>2. /\ Driven(cyc, pc, tree) /\ cyc \in Cycles /\ ~ Clean
      /\ tree \in Contents /\ drives \in 0 .. MaxDrives
  BY <1>1, AtWork DEF Checking
<1>3. k \in Checks /\ ev \in [status : Results \cup {"none"}, tested : Contents \cup {"none"}]
  BY <1>2 DEF Checks, Range, Cycles
<1>4. cyc.before \in Evidences /\ cyc.after \in Evidences /\ cyc.todo \subseteq DOMAIN Plan
      /\ cyc.spent \in Amounts
  BY <1>2 DEF Cycles
<1>5. before \in Evidences /\ after \in Evidences
  BY <1>3, <1>4 DEF Evidences
<1>6. spent \in Amounts /\ todo \in SUBSET DOMAIN Plan
  BY <1>4, PlusTyped, UsagesTyped
<1>7. /\ pc = "verify" => before[k] = ev /\ (\A j \in Checks : j # k => before[j] = cyc.before[j])
      /\ pc = "reverify" => after[k] = ev /\ (\A j \in Checks : j # k => after[j] = cyc.after[j])
  BY <1>3, <1>4 DEF Evidences
<1>8. ev.status = status /\ ev.tested = cyc.captured /\ status # "none"
  BY DEF Results
<1> HIDE DEF before, after, spent, todo, ev, k
<1>9. c \in Cycles
  BY <1>2, <1>5, <1>6, Zenon DEF Cycles
<1>10. /\ c.todo = todo /\ c.before = before /\ c.after = after /\ c.captured = cyc.captured
       /\ c.state = cyc.state /\ c.request = cyc.request /\ c.raised = cyc.raised
       /\ c.prior = cyc.prior /\ c.cause = cyc.cause /\ c.result = cyc.result
       /\ c.rem = cyc.rem
  BY <1>2 DEF Cycles
<1> HIDE DEF c
<1>11. EvidenceAgrees(c)
  <2>1. EvidenceAgrees(cyc)
    BY <1>1, <1>2 DEF Driven
  <2>2. pc = "verify" => cyc.rem = 0
    BY <1>2 DEF Driven, Bookkeeping
  <2>3. pc = "reverify" => cyc.rem # 0
    BY <1>2 DEF Driven, Bookkeeping, Cycles
  <2>4. Evidence(c)[k] = ev /\ \A j \in Checks : j # k => Evidence(c)[j] = Evidence(cyc)[j]
    BY <1>1, <1>7, <1>10, <2>2, <2>3 DEF Evidence, Checking
  <2>5. \A j \in Checks : Evidence(c)[j].status # "none" => Evidence(c)[j].tested = c.captured
    BY <1>8, <1>10, <2>1, <2>4 DEF EvidenceAgrees
  <2>6. ASSUME NEW j \in Required, Evidence(c)[j].status = "none"
        PROVE  \E n \in c.todo : Plan[n] = j
    <3>1. j # k /\ j \in Checks
      BY <1>8, <2>4, <2>6, ReviewAssumption
    <3>2. PICK n \in cyc.todo : Plan[n] = j
      BY <2>1, <2>4, <2>6, <3>1 DEF EvidenceAgrees
    <3> QED BY <1>10, <3>1, <3>2 DEF todo, k
  <2> QED BY <2>5, <2>6 DEF EvidenceAgrees
<1>12. Driven(c, pc, tree)
  BY <1>1, <1>2, <1>9, <1>10, <1>11 DEF Driven, Bookkeeping, Checking, Passed, Judged
<1> QED BY <1>1, <1>2, <1>9, <1>12, Continues, StopsUnclean DEF Reasons, Phases, Checking

LEMMA CheckCannotRunKeeps == ASSUME ReviewInv, CheckCannotRun PROVE ReviewInv'
<1>1. pc # "idle" /\ Stop(cyc, "verification_unsuccessful")
      /\ UNCHANGED <<approved, tree, drives>>
  BY DEF CheckCannotRun
<1> QED BY <1>1, AtWork, StopsUnclean DEF Reasons

(* All checks ran and no required one failed: they all passed. *)
LEMMA ChecksConclude ==
  ASSUME NEW c \in Cycles, EvidenceAgrees(c), c.todo = {}, RequiredFailed(Evidence(c)) = {}
  PROVE  RequiredPassed(c)
BY DEF EvidenceAgrees, RequiredFailed, RequiredPassed

(* A failed check is a check. *)
LEMMA FailuresTyped == ASSUME NEW evidence PROVE RequiredFailed(evidence) \in SUBSET Checks
BY ReviewAssumption DEF RequiredFailed

LEMMA VerifiedKeeps == ASSUME ReviewInv, Verified PROVE ReviewInv'
<1> DEFINE failing == RequiredFailed(cyc.before)
           d == [cyc EXCEPT !.failing = failing, !.cause = "check"]
<1>1. /\ pc = "verify" /\ cyc.todo = {} /\ UNCHANGED <<approved, tree, drives>>
      /\ \/ failing = {} /\ Goto(cyc, "tier") /\ UNCHANGED stored
         \/ Stop(cyc, "environment_denied")
         \/ Goto(d, "remediate") /\ UNCHANGED stored
  BY DEF Verified
<1>2. /\ Driven(cyc, pc, tree) /\ cyc \in Cycles /\ ~ Clean
      /\ tree \in Contents /\ drives \in 0 .. MaxDrives
  BY <1>1, AtWork
<1>3. ASSUME failing = {} PROVE Driven(cyc, "tier", tree)
  <2>1. Evidence(cyc) = cyc.before /\ EvidenceAgrees(cyc)
    BY <1>1, <1>2 DEF Driven, Bookkeeping, Evidence, Checking
  <2>2. RequiredPassed(cyc)
    BY <1>1, <1>2, <1>3, <2>1, ChecksConclude
  <2> QED BY <1>1, <1>2, <2>1, <2>2 DEF Driven, Bookkeeping, Checking, Passed, Judged
<1>4. Driven(d, "remediate", tree)
  <2>1. failing \in SUBSET Checks
    BY FailuresTyped
  <2> HIDE DEF failing
  <2>2. d \in Cycles
    BY <1>2, <2>1, Zenon DEF Cycles
  <2>3. /\ d.state = cyc.state /\ d.request = cyc.request /\ d.raised = cyc.raised
        /\ d.prior = cyc.prior /\ d.cause = "check" /\ d.result = cyc.result
    BY <1>2 DEF Cycles
  <2> HIDE DEF d
  <2> QED BY <1>1, <1>2, <2>2, <2>3 DEF Driven, Bookkeeping, Checking, Passed, Judged
<1> HIDE DEF d, failing
<1> QED BY <1>1, <1>2, <1>3, <1>4, Continues, StopsUnclean DEF Reasons, Phases

LEMMA ReverifiedKeeps == ASSUME ReviewInv, Reverified PROVE ReviewInv'
<1> DEFINE failing == RequiredFailed(cyc.after)
           none == {}
           d == [cyc EXCEPT !.failing = none]
           e == [cyc EXCEPT !.failing = failing]
<1>1. /\ pc = "reverify" /\ cyc.todo = {} /\ UNCHANGED <<approved, tree, drives>>
      /\ \/ Stop(cyc, "environment_denied")
         \/ Stop(cyc, "verification_unsuccessful")
         \/ failing = {} /\ cyc.cause = "check" /\ Goto(d, "tier") /\ UNCHANGED stored
         \/ failing = {} /\ Goto(d, "review") /\ UNCHANGED stored
         \/ Goto(e, "remediate") /\ UNCHANGED stored
  BY DEF Reverified
<1>2. /\ Driven(cyc, pc, tree) /\ cyc \in Cycles /\ ~ Clean
      /\ tree \in Contents /\ drives \in 0 .. MaxDrives
  BY <1>1, AtWork
<1>3. failing \in SUBSET Checks /\ none \in SUBSET Checks
  BY FailuresTyped
<1>4. failing = {} => RequiredPassed(cyc) /\ EvidenceAgrees(cyc)
  <2>1. Evidence(cyc) = cyc.after /\ EvidenceAgrees(cyc)
    BY <1>1, <1>2 DEF Driven, Bookkeeping, Evidence, Checking
  <2> QED BY <1>1, <1>2, <2>1, ChecksConclude
<1> HIDE DEF failing, none
<1>5. d \in Cycles /\ e \in Cycles
  BY <1>2, <1>3, Zenon DEF Cycles
<1>6. /\ d.state = cyc.state /\ d.request = cyc.request /\ d.raised = cyc.raised
      /\ d.prior = cyc.prior /\ d.cause = cyc.cause /\ d.result = cyc.result
      /\ d.rem = cyc.rem /\ d.before = cyc.before /\ d.after = cyc.after
      /\ d.captured = cyc.captured /\ d.todo = cyc.todo
  BY <1>2 DEF Cycles
<1>7. /\ e.state = cyc.state /\ e.request = cyc.request /\ e.raised = cyc.raised
      /\ e.prior = cyc.prior /\ e.cause = cyc.cause /\ e.result = cyc.result
  BY <1>2 DEF Cycles
<1> HIDE DEF d, e
<1>8. ASSUME failing = {}
      PROVE  /\ Driven(d, "review", tree)
             /\ cyc.cause = "check" => Driven(d, "tier", tree)
  <2>1. RequiredPassed(d) /\ EvidenceAgrees(d)
    BY <1>4, <1>6, <1>8 DEF RequiredPassed, EvidenceAgrees, Evidence
  <2> QED BY <1>1, <1>2, <1>5, <1>6, <2>1 DEF Driven, Bookkeeping, Checking, Passed, Judged
<1>9. Driven(e, "remediate", tree)
  BY <1>2, <1>5, <1>7 DEF Driven, Bookkeeping, Checking, Passed, Judged
<1> QED BY <1>1, <1>2, <1>8, <1>9, Continues, StopsUnclean DEF Reasons, Phases

LEMMA RemediateKeeps == ASSUME ReviewInv, Remediate PROVE ReviewInv'
<1> DEFINE rem == cyc.rem + 1
           d == [cyc EXCEPT !.rem = rem, !.state = "remediating"]
<1>1. /\ pc = "remediate" /\ UNCHANGED <<approved, tree, drives>>
      /\ \/ Stop(cyc, "retry_limit_exhausted")
         \/ Stop(cyc, "limit_exhausted")
         \/ ~ cyc.rem >= MaxRemediations /\ SaveAndGoto(d, "remediating")
  BY DEF Remediate
<1>2. /\ Driven(cyc, pc, tree) /\ cyc \in Cycles /\ ~ Clean
      /\ tree \in Contents /\ drives \in 0 .. MaxDrives
  BY <1>1, AtWork
<1>3. ASSUME ~ cyc.rem >= MaxRemediations PROVE Driven(d, "remediating", tree)
  <2>1. cyc.rem \in 0 .. MaxRemediations /\ MaxRemediations \in Nat
    BY <1>2, LimitsAssumption DEF Cycles
  <2>2. rem \in 0 .. MaxRemediations /\ rem > 0 /\ "remediating" \in States
    BY <1>3, <2>1 DEF States
  <2> HIDE DEF rem
  <2>3. d \in Cycles
    BY <1>2, <2>2, Zenon DEF Cycles
  <2>4. /\ d.state = "remediating" /\ d.request = cyc.request /\ d.raised = cyc.raised
        /\ d.prior = cyc.prior /\ d.cause = cyc.cause /\ d.result = cyc.result /\ d.rem = rem
    BY <1>2 DEF Cycles
  <2> HIDE DEF d
  <2> QED BY <1>2, <2>2, <2>3, <2>4
          DEF Driven, Bookkeeping, Terminal, Checking, Passed, Judged
<1> HIDE DEF d, rem
<1> QED BY <1>1, <1>2, <1>3, ContinuesSaved, StopsUnclean DEF Reasons, Phases

(* Usage alone tells the invariant nothing. *)
LEMMA SpentMore ==
  ASSUME NEW c \in Cycles, NEW usage \in Amounts
  PROVE  LET d == [c EXCEPT !.spent = Plus(@, usage)]
         IN  /\ d \in Cycles
             /\ d.state = c.state /\ d.request = c.request /\ d.raised = c.raised
             /\ d.prior = c.prior /\ d.cause = c.cause /\ d.result = c.result
             /\ d.rem = c.rem /\ d.before = c.before /\ d.after = c.after
             /\ d.captured = c.captured /\ d.todo = c.todo
<1> DEFINE spent == Plus(c.spent, usage)
           d == [c EXCEPT !.spent = spent]
<1>1. c.spent \in Amounts
  BY DEF Cycles
<1>2. spent \in Amounts
  BY <1>1, PlusTyped
<1> HIDE DEF spent
<1>3. d \in Cycles
  BY <1>2, Zenon DEF Cycles
<1>4. /\ d.state = c.state /\ d.request = c.request /\ d.raised = c.raised
      /\ d.prior = c.prior /\ d.cause = c.cause /\ d.result = c.result
      /\ d.rem = c.rem /\ d.before = c.before /\ d.after = c.after
      /\ d.captured = c.captured /\ d.todo = c.todo
  BY DEF Cycles
<1> QED BY <1>3, <1>4 DEF spent

LEMMA RemediationKeeps ==
  ASSUME ReviewInv, NEW x \in Contents, NEW u,
         RemediationFails(x) \/ (u \in Usages /\ RemediationDone(x, u))
  PROVE  ReviewInv'
<1> DEFINE Spend(usage) == [cyc EXCEPT !.spent = Plus(@, usage)]
<1>1. pc = "remediating" /\ tree' = x /\ UNCHANGED <<approved, drives>>
  BY DEF RemediationFails, RemediationDone
<1>2. /\ Driven(cyc, pc, tree) /\ cyc \in Cycles /\ ~ Clean /\ drives \in 0 .. MaxDrives
  BY <1>1, AtWork
<1>3. ASSUME NEW usage \in Amounts
      PROVE  /\ Spend(usage) \in Cycles
             /\ Driven(Spend(usage), "remediate", x)
             /\ Driven(Spend(usage), "recapture", x)
  <2> DEFINE d == Spend(usage)
  <2>1. /\ d \in Cycles
        /\ d.state = cyc.state /\ d.request = cyc.request /\ d.raised = cyc.raised
        /\ d.prior = cyc.prior /\ d.cause = cyc.cause /\ d.result = cyc.result
        /\ d.rem = cyc.rem
    BY <1>2, SpentMore
  <2> HIDE DEF d
  <2>2. Driven(d, "remediate", x) /\ Driven(d, "recapture", x)
    BY <1>1, <1>2, <2>1 DEF Driven, Bookkeeping, Checking, Passed, Judged
  <2> QED BY <2>1, <2>2 DEF d
<1>4. CASE RemediationFails(x)
  <2> DEFINE d == Spend(FailedUsage)
  <2>1. Stop(d, "agent_failure") \/ SaveAndGoto(d, "remediate")
    BY <1>4 DEF RemediationFails
  <2>2. d \in Cycles /\ Driven(d, "remediate", x)
    BY <1>3, UsagesTyped
  <2> HIDE DEF d
  <2> QED BY <1>1, <1>2, <2>1, <2>2, ContinuesSaved, StopsUnclean DEF Reasons, Phases
<1>5. CASE u \in Usages /\ RemediationDone(x, u)
  <2> DEFINE d == Spend(u)
  <2>1. Stop(d, "limit_exhausted") \/ (Goto(d, "recapture") /\ UNCHANGED stored)
    BY <1>5 DEF RemediationDone
  <2>2. d \in Cycles /\ Driven(d, "recapture", x)
    BY <1>3, <1>5, UsagesTyped
  <2> HIDE DEF d
  <2> QED BY <1>1, <1>2, <2>1, <2>2, Continues, StopsUnclean DEF Reasons, Phases
<1> QED BY <1>4, <1>5

LEMMA RecaptureKeeps ==
  ASSUME ReviewInv, NEW cited \in SUBSET Checks, Recapture(cited) PROVE ReviewInv'
<1> DEFINE findings == EvaluateScope(Candidate[tree])
           b == Captured(cyc, findings)
           reviewer == IF cyc.cause = "review"
                         THEN SelectedReviewer(SelectReviewTier(Candidate[tree], findings))
                         ELSE b.reviewer
           c == [b EXCEPT !.reviewer = reviewer]
           unsuccessful == IF cyc.cause = "check" THEN cyc.failing
                           ELSE {k \in Checks : cyc.before[k].status # "passed"}
           changed == {ch.path : ch \in Candidate[tree].changes}
           todo == RelevantChecks(changed, cited, unsuccessful)
           d == [c EXCEPT !.state = "reverifying", !.after = NoEvidence, !.todo = todo]
<1>1. /\ pc = "recapture" /\ UNCHANGED <<approved, tree, drives>>
      /\ \/ Stop(c, "no_independent_reviewer")
         \/ ScopeStop(findings) # "none" /\ Stop(c, ScopeStop(findings))
         \/ ScopeStop(findings) = "none" /\ Goto(d, "reverify") /\ Save(c)
  BY DEF Recapture
<1>2. /\ Driven(cyc, pc, tree) /\ cyc \in Cycles /\ ~ Clean
      /\ tree \in Contents /\ drives \in 0 .. MaxDrives
  BY <1>1, AtWork
<1>3. /\ b \in Cycles /\ b.captured = tree /\ b.state = cyc.state
      /\ b.request = cyc.request /\ b.raised = cyc.raised
      /\ b.prior = cyc.prior /\ b.cause = cyc.cause /\ b.result = cyc.result
      /\ b.rem = cyc.rem
  BY <1>2, CapturedIs
<1> HIDE DEF b
<1>4. reviewer \in {"full", "standard"}
  BY <1>3 DEF SelectedReviewer, Cycles
<1> HIDE DEF reviewer
<1>5. c \in Cycles
  BY <1>3, <1>4, Zenon DEF Cycles
<1>6. /\ c.state = cyc.state
      /\ c.captured = tree /\ c.request = cyc.request /\ c.raised = cyc.raised
      /\ c.prior = cyc.prior /\ c.cause = cyc.cause /\ c.result = cyc.result
      /\ c.rem = cyc.rem
  BY <1>3 DEF Cycles
<1> HIDE DEF c
<1>7. ASSUME ScopeStop(findings) = "none" PROVE Driven(d, "reverify", tree)
  <2>1. /\ todo \in SUBSET DOMAIN Plan
        /\ \A k \in Required : \E i \in todo : Plan[i] = k
    <3>1. \A k \in Required : \E i \in DOMAIN Plan : Plan[i] = k
      BY ReviewAssumption DEF Checks, Range
    <3> QED BY <3>1 DEF RelevantChecks
  <2>2. NoEvidence \in Evidences /\ "reverifying" \in States
    BY DEF NoEvidence, Evidences, States
  <2> HIDE DEF todo
  <2>3. d \in Cycles
    BY <1>5, <2>1, <2>2, Zenon DEF Cycles
  <2>4. /\ d.state = "reverifying" /\ d.after = NoEvidence /\ d.todo = todo
        /\ d.captured = tree /\ d.request = cyc.request /\ d.raised = cyc.raised
        /\ d.prior = cyc.prior /\ d.cause = cyc.cause /\ d.result = cyc.result
        /\ d.rem = cyc.rem
    BY <1>5, <1>6 DEF Cycles
  <2> HIDE DEF d
  <2>5. HasAuthority(tree)
    BY <1>2, <1>7, GateGrants DEF Driven
  <2>6. cyc.rem > 0
    BY <1>1, <1>2 DEF Driven, Bookkeeping
  <2>7. EvidenceAgrees(d)
    <3>1. Evidence(d) = NoEvidence
      BY <2>4, <2>6 DEF Evidence
    <3>2. \A k \in Checks : Evidence(d)[k].status = "none"
      BY <3>1 DEF NoEvidence
    <3> QED BY <2>1, <2>4, <3>2 DEF EvidenceAgrees
  <2> QED BY <1>1, <1>2, <2>3, <2>4, <2>5, <2>6, <2>7
          DEF Driven, Bookkeeping, Terminal, Checking, Passed, Judged
<1> HIDE DEF d
<1>8. c.state \notin Terminal
  BY <1>2, <1>6 DEF Driven
<1> QED BY <1>1, <1>2, <1>5, <1>7, <1>8, ScopeStopReasons, Continues, StopsUnclean
        DEF Reasons, Phases

LEMMA TierKeeps == ASSUME ReviewInv, Tier PROVE ReviewInv'
<1> DEFINE reviewer == SelectedReviewer(cyc.tier)
           d == [cyc EXCEPT !.reviewer = reviewer]
<1>1. /\ pc = "tier" /\ UNCHANGED <<approved, tree, drives>>
      /\ \/ Stop(cyc, "clean_review")
         \/ Stop(cyc, "no_independent_reviewer")
         \/ Goto(d, "review") /\ UNCHANGED stored
  BY DEF Tier
<1>2. /\ Driven(cyc, pc, tree) /\ cyc \in Cycles /\ ~ Clean
      /\ tree \in Contents /\ drives \in 0 .. MaxDrives
  BY <1>1, AtWork
<1>3. CASE Stop(cyc, "clean_review")
  <2>1. /\ cyc.captured = tree /\ HasAuthority(tree)
        /\ RequiredPassed(cyc) /\ EvidenceAgrees(cyc)
        /\ cyc.raised = {} /\ cyc.result = NoFindings
    BY <1>1, <1>2 DEF Driven, Bookkeeping, Passed, Judged
  <2>2. Blocking(cyc) = {}
    BY <2>1 DEF Blocking, NoFindings
  <2> QED BY <1>1, <1>2, <1>3, <2>1, <2>2, StopsClean
<1>4. Driven(d, "review", tree)
  <2>1. reviewer \in {"full", "standard"}
    BY DEF SelectedReviewer
  <2> HIDE DEF reviewer
  <2>2. d \in Cycles
    BY <1>2, <2>1, Zenon DEF Cycles
  <2>3. /\ d.state = cyc.state /\ d.request = cyc.request /\ d.raised = cyc.raised
        /\ d.prior = cyc.prior /\ d.cause = cyc.cause /\ d.result = cyc.result
        /\ d.rem = cyc.rem /\ d.before = cyc.before /\ d.after = cyc.after
        /\ d.captured = cyc.captured /\ d.todo = cyc.todo
    BY <1>2 DEF Cycles
  <2> HIDE DEF d
  <2> QED BY <1>1, <1>2, <2>2, <2>3, Kept DEF Passed, Driven
<1> HIDE DEF d
<1> QED BY <1>1, <1>2, <1>3, <1>4, Continues, StopsUnclean DEF Reasons, Phases

LEMMA StartReviewKeeps == ASSUME ReviewInv, StartReview PROVE ReviewInv'
<1> DEFINE attempt == cyc.attempt + 1
           d == [cyc EXCEPT !.attempt = attempt, !.state = "awaiting_review"]
<1>1. /\ pc = "review" /\ UNCHANGED <<approved, tree, drives>>
      /\ \/ Stop(cyc, "retry_limit_exhausted")
         \/ Stop(cyc, "limit_exhausted")
         \/ ~ cyc.attempt >= MaxReviews /\ SaveAndGoto(d, "reviewing")
  BY DEF StartReview
<1>2. /\ Driven(cyc, pc, tree) /\ cyc \in Cycles /\ ~ Clean
      /\ tree \in Contents /\ drives \in 0 .. MaxDrives
  BY <1>1, AtWork
<1>3. ASSUME ~ cyc.attempt >= MaxReviews PROVE Driven(d, "reviewing", tree)
  <2>1. cyc.attempt \in 0 .. MaxReviews /\ MaxReviews \in Nat
    BY <1>2, LimitsAssumption DEF Cycles
  <2>2. attempt \in 0 .. MaxReviews /\ "awaiting_review" \in States
    BY <1>3, <2>1 DEF States
  <2> HIDE DEF attempt
  <2>3. d \in Cycles
    BY <1>2, <2>2, Zenon DEF Cycles
  <2>4. /\ d.state = "awaiting_review" /\ d.request = cyc.request /\ d.raised = cyc.raised
        /\ d.prior = cyc.prior /\ d.cause = cyc.cause /\ d.result = cyc.result
        /\ d.rem = cyc.rem /\ d.before = cyc.before /\ d.after = cyc.after
        /\ d.captured = cyc.captured /\ d.todo = cyc.todo
    BY <1>2 DEF Cycles
  <2>5. d.state \notin Terminal
    BY <2>4 DEF Terminal
  <2> HIDE DEF d
  <2> QED BY <1>1, <1>2, <2>3, <2>4, <2>5, Kept DEF Passed
<1> HIDE DEF d, attempt
<1> QED BY <1>1, <1>2, <1>3, ContinuesSaved, StopsUnclean DEF Reasons, Phases

(* An attempt without an accepted result leaves all but the usage alone. *)
LEMMA LostKeeps ==
  ASSUME ReviewInv, pc = "reviewing", NEW usage \in Amounts,
         NEW reason \in Reasons \ {"clean_review"}, AttemptLost(usage, reason),
         UNCHANGED <<approved, tree, drives>>
  PROVE  ReviewInv'
<1> DEFINE d == [cyc EXCEPT !.spent = Plus(@, usage)]
<1>1. SaveAndGoto(d, "review") \/ Stop(d, reason)
  BY DEF AttemptLost
<1>2. /\ Driven(cyc, pc, tree) /\ cyc \in Cycles /\ ~ Clean
      /\ tree \in Contents /\ drives \in 0 .. MaxDrives
  BY AtWork
<1>3. /\ d \in Cycles
      /\ d.state = cyc.state /\ d.request = cyc.request /\ d.raised = cyc.raised
      /\ d.prior = cyc.prior /\ d.cause = cyc.cause /\ d.result = cyc.result
      /\ d.rem = cyc.rem /\ d.before = cyc.before /\ d.after = cyc.after
      /\ d.captured = cyc.captured /\ d.todo = cyc.todo
  BY <1>2, SpentMore
<1> HIDE DEF d
<1>4. d.state \notin Terminal
  BY <1>2, <1>3 DEF Driven
<1>5. Driven(d, "review", tree)
  BY <1>2, <1>3, <1>4, Kept DEF Passed
<1> QED BY <1>1, <1>2, <1>3, <1>5, ContinuesSaved, StopsUnclean DEF Phases

(* The coordinator leaves without saving, or with an unfinished cycle. *)
LEMMA LeavesKeeps ==
  ASSUME ReviewInv, pc # "idle", ReviewOutage \/ ReviewParks \/ Crash PROVE ReviewInv'
<1> DEFINE pending == TRUE
           d == [cyc EXCEPT !.pending = pending]
<1>1. /\ pc' = "idle" /\ cyc' = NoCycle /\ tree' \in Contents
      /\ UNCHANGED <<approved, drives>>
      /\ UNCHANGED stored \/ stored' = d
  BY DEF ReviewOutage, ReviewParks, Crash, Goto, Save, ReviewInv, ReviewTypeOK
<1>2. /\ Driven(cyc, pc, tree) /\ cyc \in Cycles /\ ~ Clean
  BY AtWork
<1>3. d \in Cycles /\ d.state = cyc.state
  <2>1. pending \in BOOLEAN
    OBVIOUS
  <2> HIDE DEF pending
  <2>2. d \in Cycles
    BY <1>2, <2>1, Zenon DEF Cycles
  <2> QED BY <1>2, <2>2 DEF Cycles
<1> HIDE DEF d
<1>4. d.state # "completed"
  BY <1>2, <1>3 DEF Driven, Terminal
<1>5. ReviewTypeOK'
  BY <1>1, <1>3 DEF ReviewInv, ReviewTypeOK, Phases
<1>6. ~ Clean'
  BY <1>1, <1>2, <1>4 DEF Clean
<1> QED BY <1>1, <1>5, <1>6
        DEF ReviewInv, CleanIsTested, NoObjectionForgotten, CleanIsAuthorised

LEMMA ReviewReturnsKeeps ==
  ASSUME ReviewInv, NEW result \in [FindingIds -> Statuses], NEW usage \in Usages,
         NEW conflict \in BOOLEAN, ReviewReturns(result, usage, conflict)
  PROVE  ReviewInv'
<1> DEFINE spent == Plus(cyc.spent, usage)
           raised == {f \in FindingIds :
                        \/ result[f] \in OpenStatuses
                        \/ f \in cyc.raised /\ result[f] = "absent"}
           reviewed == TRUE
           prior == CarryForward(result)
           c == [cyc EXCEPT !.spent = spent, !.state = "reviewed", !.reviewed = reviewed,
                            !.result = result, !.raised = raised]
           b == [cyc EXCEPT !.spent = spent]
           d == [c EXCEPT !.cause = "review", !.prior = prior]
<1>1. /\ pc = "reviewing" /\ UNCHANGED <<approved, tree, drives>>
      /\ \/ AttemptLost(usage, "malformed_review")
         \/ Stop(b, "limit_exhausted")
         \/ Stop(c, "conflicting_findings")
         \/ Valid(result) /\ Blocking(c) = {} /\ Stop(c, "clean_review")
         \/ Stop(c, "architectural_approval_required")
         \/ Valid(result) /\ SaveAndGoto(d, "remediate")
  <2>1. c = [cyc EXCEPT !.spent = Plus(@, usage), !.state = "reviewed",
                        !.reviewed = TRUE, !.result = result,
                        !.raised = {f \in FindingIds :
                           result[f] \in OpenStatuses \/ (f \in @ /\ result[f] = "absent")}]
    OBVIOUS
  <2>2. c.spent = spent
    <3>1. cyc \in Cycles
      BY AtWork DEF ReviewReturns
    <3> QED BY <3>1 DEF Cycles
  <2> HIDE DEF c, spent
  <2> QED BY <2>1, <2>2 DEF ReviewReturns
<1>2. /\ Driven(cyc, pc, tree) /\ cyc \in Cycles /\ ~ Clean
      /\ tree \in Contents /\ drives \in 0 .. MaxDrives
  BY <1>1, AtWork
<1>3. usage \in Amounts /\ spent \in Amounts
  BY <1>2, UsagesTyped, PlusTyped DEF Cycles
<1>4. raised \in SUBSET FindingIds /\ prior \in SUBSET FindingIds /\ reviewed \in BOOLEAN
      /\ "reviewed" \in States
  BY DEF CarryForward, States
<1>5. ASSUME Valid(result)
      PROVE  raised \subseteq prior /\ \A f \in raised : result[f] # "absent"
  <2>1. cyc.raised \subseteq cyc.prior
    BY <1>2 DEF Driven
  <2> QED BY <1>5, <2>1 DEF Valid, CarryForward, OpenStatuses
<1> HIDE DEF spent, raised, prior, reviewed
<1>6. b \in Cycles /\ c \in Cycles
  BY <1>2, <1>3, <1>4, Zenon DEF Cycles
<1>7. /\ c.state = "reviewed" /\ c.request = cyc.request /\ c.raised = raised
      /\ c.result = result /\ c.rem = cyc.rem /\ c.before = cyc.before
      /\ c.after = cyc.after /\ c.captured = cyc.captured /\ c.todo = cyc.todo
  BY <1>2 DEF Cycles
<1> HIDE DEF b, c
<1>8. CASE Valid(result) /\ Blocking(c) = {} /\ Stop(c, "clean_review")
  <2>1. /\ cyc.captured = tree /\ HasAuthority(tree)
        /\ RequiredPassed(cyc) /\ EvidenceAgrees(cyc)
    BY <1>1, <1>2 DEF Driven, Passed, Judged
  <2>2. RequiredPassed(c) /\ EvidenceAgrees(c)
    BY <1>7, <2>1 DEF RequiredPassed, EvidenceAgrees, Evidence
  <2> QED BY <1>1, <1>5, <1>6, <1>7, <1>8, <2>1, <2>2, StopsClean
<1>9. ASSUME Valid(result) PROVE Driven(d, "remediate", tree)
  <2>1. d \in Cycles
    BY <1>4, <1>6, Zenon DEF Cycles
  <2>2. /\ d.state = "reviewed" /\ d.request = cyc.request /\ d.raised = raised
        /\ d.prior = prior /\ d.cause = "review"
    BY <1>6, <1>7 DEF Cycles
  <2> HIDE DEF d
  <2> QED BY <1>2, <1>5, <1>9, <2>1, <2>2
          DEF Driven, Bookkeeping, Terminal, Checking, Passed, Judged
<1> HIDE DEF d
<1>10. CASE AttemptLost(usage, "malformed_review")
  BY <1>1, <1>3, <1>10, LostKeeps DEF Reasons
<1> QED BY <1>1, <1>2, <1>6, <1>8, <1>9, <1>10, ContinuesSaved, StopsUnclean
        DEF Reasons, Phases

LEMMA RecoverKeeps == ASSUME ReviewInv, RecoverIncomplete PROVE ReviewInv'
<1> DEFINE s == [stored EXCEPT !.state = "interrupted", !.stop = "interrupted"]
<1>1. stored' = s /\ UNCHANGED <<pc, cyc, approved, tree, drives>> /\ stored \in Cycles
  BY DEF RecoverIncomplete, ReviewInv, ReviewTypeOK
<1>2. s \in Cycles
  <2>1. "interrupted" \in States /\ "interrupted" \in Reasons \cup {"none"}
    BY DEF States, Terminal, Reasons
  <2> QED BY <1>1, <2>1, Zenon DEF Cycles
<1>3. s.state = "interrupted"
  BY <1>1 DEF Cycles
<1> HIDE DEF s
<1>4. ReviewTypeOK' /\ ~ Clean'
  BY <1>1, <1>2, <1>3 DEF ReviewInv, ReviewTypeOK, Clean
<1>5. pc # "idle" => Driven(cyc, pc, tree)'
  BY <1>1 DEF ReviewInv, Driven, HasAuthority
<1> QED BY <1>1, <1>4, <1>5
        DEF ReviewInv, CleanIsTested, NoObjectionForgotten, CleanIsAuthorised

LEMMA ApproveKeeps ==
  ASSUME ReviewInv, stored # NoCycle, NEW f \in stored.scope, ApproveScope(f)
  PROVE  ReviewInv'
<1>1. /\ approved' = approved \cup {f} /\ UNCHANGED <<pc, cyc, stored, tree, drives>>
      /\ stored \in Cycles
  BY DEF ApproveScope, ReviewInv, ReviewTypeOK
<1>2. approved' \subseteq ScopeFindings
  BY <1>1 DEF Cycles, ReviewInv, ReviewTypeOK
<1>3. ReviewTypeOK'
  BY <1>1, <1>2 DEF ReviewInv, ReviewTypeOK
<1>4. ASSUME pc # "idle" PROVE Driven(cyc, pc, tree)'
  <2>1. Driven(cyc, pc, tree)
    BY <1>4 DEF ReviewInv
  <2>2. HasAuthority(tree) => HasAuthority(tree)'
    BY <1>1 DEF HasAuthority
  <2> QED BY <1>1, <2>1, <2>2 DEF Driven
<1>5. Clean' => Clean /\ pc' = "idle"
  BY <1>1 DEF ReviewInv, Clean
<1>6. CleanIsTested' /\ NoObjectionForgotten'
  BY <1>1 DEF ReviewInv, CleanIsTested, NoObjectionForgotten, Clean, Evidence, Blocking,
              Adjudicated
<1>7. CleanIsAuthorised'
  BY <1>1, <1>5 DEF ReviewInv, CleanIsAuthorised, HasAuthority
<1> QED BY <1>1, <1>3, <1>4, <1>5, <1>6, <1>7 DEF ReviewInv

LEMMA ReviewStep == ReviewInv /\ [ReviewNext]_reviewVars => ReviewInv'
<1> SUFFICES ASSUME ReviewInv, [ReviewNext]_reviewVars PROVE ReviewInv'
    OBVIOUS
<1>1. CASE Begin
  BY <1>1, BeginKeeps
<1>2. CASE Coordinate
  <2>1. CASE Capture
    BY <2>1, CaptureKeeps
  <2>2. CASE EvidenceFails
    BY <2>2, EvidenceFailsKeeps
  <2>3. ASSUME NEW i \in DOMAIN Plan, NEW s \in Results, RunCheck(i, s) PROVE ReviewInv'
    BY <2>3, RunCheckKeeps
  <2>4. CASE CheckCannotRun
    BY <2>4, CheckCannotRunKeeps
  <2>5. CASE Verified
    BY <2>5, VerifiedKeeps
  <2>6. CASE Reverified
    BY <2>6, ReverifiedKeeps
  <2>7. CASE Remediate
    BY <2>7, RemediateKeeps
  <2>8. ASSUME NEW x \in Contents, RemediationFails(x) PROVE ReviewInv'
    BY <2>8, RemediationKeeps
  <2>9. ASSUME NEW x \in Contents, NEW u \in Usages, RemediationDone(x, u) PROVE ReviewInv'
    BY <2>9, RemediationKeeps
  <2>10. ASSUME NEW cited \in SUBSET Checks, Recapture(cited) PROVE ReviewInv'
    BY <2>10, RecaptureKeeps
  <2>11. CASE Tier
    BY <2>11, TierKeeps
  <2>12. CASE StartReview
    BY <2>12, StartReviewKeeps
  <2>13. CASE ReviewFails
    BY <2>13, LostKeeps, UsagesTyped DEF ReviewFails, Reasons
  <2>14. CASE ReviewOutage \/ ReviewParks
    BY <2>14, LeavesKeeps DEF ReviewOutage, ReviewParks
  <2>15. ASSUME NEW u \in Usages, ReviewMalformed(u) PROVE ReviewInv'
    BY <2>15, LostKeeps, UsagesTyped DEF ReviewMalformed, Reasons
  <2>16. ASSUME NEW result \in [FindingIds -> Statuses], NEW u \in Usages,
                NEW conflict \in BOOLEAN, ReviewReturns(result, u, conflict)
         PROVE  ReviewInv'
    BY <2>16, ReviewReturnsKeeps
  <2> QED BY <1>2, <2>1, <2>2, <2>3, <2>4, <2>5, <2>6, <2>7, <2>8, <2>9, <2>10, <2>11,
             <2>12, <2>13, <2>14, <2>15, <2>16 DEF Coordinate
<1>3. CASE Crash
  BY <1>3, LeavesKeeps DEF Crash
<1>4. CASE RecoverIncomplete
  BY <1>4, RecoverKeeps
<1>5. CASE \E f \in IF stored = NoCycle THEN {} ELSE stored.scope : ApproveScope(f)
  BY <1>5, ApproveKeeps
<1>6. CASE UNCHANGED reviewVars
  BY <1>6 DEF reviewVars, ReviewInv, ReviewTypeOK, Driven, HasAuthority, Clean, CleanIsTested,
              NoObjectionForgotten, CleanIsAuthorised, Evidence, Blocking, Adjudicated
<1> QED BY <1>1, <1>2, <1>3, <1>4, <1>5, <1>6 DEF ReviewNext

LEMMA ReviewStarts == ReviewInit => ReviewInv
BY ReviewAssumption
   DEF ReviewInit, ReviewInv, ReviewTypeOK, Phases, Clean, CleanIsTested,
       NoObjectionForgotten, CleanIsAuthorised

LEMMA ReviewHolds == ReviewSpec => []ReviewInv
BY ReviewStarts, ReviewStep, PTL DEF ReviewSpec

(* The cycle keeps its shape, and its attempts and remediations stay       *)
(* within the limits of the configuration, however often it is driven.     *)
THEOREM ReviewTyping == ReviewSpec => []ReviewTypeOK
<1>1. ReviewInv => ReviewTypeOK
  BY DEF ReviewInv
<1> QED BY <1>1, ReviewHolds, PTL

(* What a cycle stored as clean rests on: every required check passed on   *)
(* the candidate that is in the worktree (coordinator.rs, run and          *)
(* relevant_checks), whatever the plan, the agents and the crashes.        *)
THEOREM CleanTested == ReviewSpec => []CleanIsTested
<1>1. ReviewInv => CleanIsTested
  BY DEF ReviewInv
<1> QED BY <1>1, ReviewHolds, PTL

(* No finding is dropped between two reviews: the last reviewer had every  *)
(* unresolved one before it (coordinator.rs:893-909, policy.rs,            *)
(* PriorFindingNotDisposed), and none of them blocks.                      *)
THEOREM ObjectionsKept == ReviewSpec => []NoObjectionForgotten
<1>1. ReviewInv => NoObjectionForgotten
  BY DEF ReviewInv
<1> QED BY <1>1, ReviewHolds, PTL

(* Every change of a clean candidate has an authority under the compiled   *)
(* policy, whatever the policy: evaluate_subject, scope_check_result and   *)
(* human_review_absorbed let nothing else through (policy.rs).             *)
THEOREM CleanAuthorised == ReviewSpec => []CleanIsAuthorised
<1>1. ReviewInv => CleanIsAuthorised
  BY DEF ReviewInv
<1> QED BY <1>1, ReviewHolds, PTL
=============================================================================
