------------------------ MODULE ArtifactInstallProofs ------------------------
(***************************************************************************)
(* What holds of the payload directory, its backup and its links for every *)
(* set of versions and entry points, any number of neighbours of the cache *)
(* and any number of failures.                                             *)
(***************************************************************************)
EXTENDS ArtifactInstall, TLAPS

(***************************************************************************)
(* The inductive invariant.                                                *)
(***************************************************************************)
W == proc[Worker]

NeighbourSteps == {"idle", "list", "evict", "report"}

LocalSteps == {"stage", "swapOut", "swapIn", "swapBack", "drop", "unswap", "putBack", "recommit"}

\* Whoever only uses the cache stays away from the payload.
Shape ==
  /\ DOMAIN proc = Processes /\ DOMAIN launcher = Names
  /\ \A p \in Processes : DOMAIN proc[p] = DOMAIN IdleProc
  /\ \A p \in Processes \ {Worker} : proc[p].pc \in NeighbourSteps

\* The archive is staged, or in place, under depengine's own marker.
Marked(d) == d.whole /\ d.marker = "http"

\* Up to the first rename nothing has changed.
Untouched ==
  W.pc \in {"lookup", "copy", "download", "verify", "redownload", "owner", "clear", "save"}
    => dest = W.before /\ W.saved = Absent

ReadyToCommit ==
  /\ W.pc \in {"clear", "save", "commit"} => Marked(W.stage)
  /\ W.pc \in {"clear", "save"} => OwnedOrAbsent(dest)
  /\ W.pc = "save" => backup = Absent

\* From the first rename on the old payload, if there was one, is the backup.
OldPayloadKept ==
  /\ W.pc = "commit" => dest = Absent /\ W.saved = W.before
  /\ W.pc \in {"commit", "launch", "undo", "restore"} => backup = W.before
  /\ W.pc = "unlink" => dest = W.before \/ (W.botched /\ backup = W.before)

\* What is in its place is the new payload, or nothing.
NewPayload ==
  /\ W.pc \in {"launch", "cleanup"} => Marked(dest)
  /\ W.pc = "undo" => dest = Absent \/ dest.marker = "http"
  /\ W.pc = "restore" => W.botched \/ dest = Absent

\* Only a payload under its marker is removed.
OwnRemoved == W.pc = "removePayload" /\ W.adapter = "http" => dest.marker = "http"

LocalIsLocal == W.pc \in LocalSteps => W.adapter = "local"

\* What a rollback may unlink again is no link of anybody else.
LinksMade ==
  /\ W.pc = "idle" => W.created = {}
  /\ \A n \in W.created \cap Names : launcher[n] # "foreign"

PayloadInv ==
  /\ Shape
  /\ Untouched /\ ReadyToCommit /\ OldPayloadKept /\ NewPayload
  /\ OwnRemoved /\ LocalIsLocal /\ LinksMade

LEMMA PayloadInit == Init => PayloadInv
BY DEF Init, PayloadInv, Shape, IdleProc, W, Untouched, ReadyToCommit, OldPayloadKept, NewPayload,
       OwnRemoved, LocalIsLocal, LinksMade, Processes, NeighbourSteps, LocalSteps

\* The worker's own step.
LEMMA WorkerKeeps ==
  ASSUME PayloadInv, Start(Worker) \/ Step(Worker)
  PROVE  PayloadInv'
<1> USE DEF PayloadInv, Shape, IdleProc, W, Untouched, ReadyToCommit, OldPayloadKept, NewPayload,
       OwnRemoved, LocalIsLocal, LinksMade, Processes, NeighbourSteps, LocalSteps,
       At, Goto, Fail, Ended, Fault, NoFault, Marked
<1>1. CASE Start(Worker)
  <2> HIDE DEF PayloadInv, Shape, IdleProc
  <2>1. PICK adapter \in {"http", "local"}, v \in Versions, sum \in BOOLEAN,
              first \in {"lookup", "stage", "removeLaunchers", "removePayload"} :
          /\ W.pc = "idle"
          /\ adapter = "http" => first \in {"lookup", "removeLaunchers"}
          /\ adapter = "local" => first \in {"stage", "removePayload"}
          /\ proc' = [proc EXCEPT ![Worker] =
                        [IdleProc EXCEPT !.pc = first, !.adapter = adapter,
                                         !.version = v, !.checksum = sum, !.before = dest]]
          /\ UNCHANGED <<dest, backup, launcher>>
    BY <1>1, Zenon DEF Start
  <2> USE DEF PayloadInv, Shape, IdleProc
  <2>5. first # "removePayload" \/ adapter = "local"
    BY <2>1
  <2>2. W' = [IdleProc EXCEPT !.pc = first, !.adapter = adapter,
                              !.version = v, !.checksum = sum, !.before = dest]
    BY <2>1
  <2>3. Shape'
    BY <2>1, <2>2
  <2>4. /\ W'.pc = first /\ W'.adapter = adapter /\ W'.before = dest /\ W'.created = {}
        /\ W'.saved = Absent
        /\ first \in {"lookup", "stage", "removeLaunchers", "removePayload"}
    BY <2>2
  <2> HIDE DEF Shape, IdleProc
  <2> QED
    BY <2>1, <2>3, <2>4, <2>5
<1>2. CASE Lookup(Worker)
  BY <1>2 DEF Lookup
<1>3. CASE CopyCached(Worker)
  BY <1>3 DEF CopyCached
<1>4. CASE Download(Worker)
  BY <1>4 DEF Download
<1>5. CASE Verify(Worker)
  BY <1>5 DEF Verify
<1>6. CASE StageArchive(Worker)
  BY <1>6 DEF StageArchive, OwnedOrAbsent, Absent
<1>7. CASE ClearBackup(Worker)
  BY <1>7 DEF ClearBackup, OwnedOrAbsent
<1>8. CASE SaveOld(Worker)
  <2>1. dest = W.before /\ backup = Absent /\ OwnedOrAbsent(dest) /\ Marked(W.stage)
    BY <1>8 DEF SaveOld
  <2>2. CASE dest = Absent /\ Goto(Worker, "commit") /\ UNCHANGED <<dest, backup, launcher>>
    BY <2>1, <2>2, <1>8 DEF SaveOld
  <2>3. CASE /\ dest # Absent /\ backup' = dest /\ dest' = Absent /\ UNCHANGED launcher
             /\ proc' = [proc EXCEPT ![Worker].pc = "commit", ![Worker].saved = dest]
    BY <2>1, <2>3, <1>8 DEF SaveOld
  <2>4. CASE Fail(Worker) /\ UNCHANGED <<dest, backup, launcher>>
    BY <2>4
  <2> QED
    BY <1>8, <2>1, <2>2, <2>3, <2>4 DEF SaveOld
<1>9. CASE CommitPayload(Worker)
  BY <1>9 DEF CommitPayload, HadPayload
<1>10. CASE CreateLaunchers(Worker)
  BY <1>10 DEF CreateLaunchers
<1>11. CASE RemoveNew(Worker)
  BY <1>11 DEF RemoveNew, Damaged, Absent
<1>12. CASE RestoreOld(Worker)
  <2>1. backup = W.before /\ (W.botched \/ dest = Absent) /\ UNCHANGED launcher
    BY <1>12 DEF RestoreOld
  <2>2. CASE dest = Absent /\ dest' = backup /\ Goto(Worker, "unlink")
    BY <1>12, <2>1, <2>2 DEF RestoreOld
  <2>3. CASE /\ backup = Absent \/ dest # Absent
             /\ Goto(Worker, "unlink") /\ UNCHANGED <<dest, backup>>
    BY <1>12, <2>1, <2>3 DEF RestoreOld
  <2>4. CASE /\ proc' = [proc EXCEPT ![Worker].pc = "unlink", ![Worker].botched = TRUE]
             /\ UNCHANGED <<dest, backup>>
    BY <1>12, <2>1, <2>4 DEF RestoreOld
  <2> QED
    BY <1>12, <2>2, <2>3, <2>4 DEF RestoreOld
<1>13. CASE RemoveCreated(Worker)
  BY <1>13 DEF RemoveCreated
<1>14. CASE RemoveBackup(Worker)
  BY <1>14 DEF RemoveBackup
<1>15. CASE Store(Worker)
  BY <1>15 DEF Store
<1>16. CASE ListEntries(Worker)
  BY <1>16 DEF ListEntries
<1>17. CASE Evict(Worker)
  BY <1>17 DEF Evict
<1>18. CASE RemoveLaunchers(Worker)
  <2>1. PICK gone \in SUBSET Names :
          \/ launcher' = launcher
          \/ /\ \A n \in gone : launcher[n] # "foreign"
             /\ launcher' = [n \in Names |-> IF n \in gone THEN "absent" ELSE launcher[n]]
    BY <1>18 DEF RemoveLaunchers
  <2>2. \A n \in Names : launcher'[n] = "foreign" => launcher[n] = "foreign"
    BY <2>1
  <2>3. CASE dest.marker = "http" /\ Goto(Worker, "removePayload")
    BY <1>18, <2>2, <2>3 DEF RemoveLaunchers
  <2>4. CASE Fail(Worker)
    BY <1>18, <2>4 DEF RemoveLaunchers
  <2> QED
    BY <1>18, <2>3, <2>4 DEF RemoveLaunchers
<1>19. CASE StageLocal(Worker)
  BY <1>19 DEF StageLocal
<1>20. CASE SwapOut(Worker)
  BY <1>20 DEF SwapOut
<1>21. CASE SwapIn(Worker)
  BY <1>21 DEF SwapIn, HadPayload
<1>22. CASE SwapBack(Worker)
  BY <1>22 DEF SwapBack
<1>23. CASE DropSaved(Worker)
  <2>1. PICK step \in {"report", "unswap"} :
          \E left : proc' = [proc EXCEPT ![Worker].pc = step, ![Worker].saved = left]
    BY <1>23, Zenon DEF DropSaved, At
  <2>2. W.pc = "drop" /\ UNCHANGED <<dest, backup, launcher>>
    BY <1>23 DEF DropSaved
  <2>3. PICK left : proc' = [proc EXCEPT ![Worker].pc = step, ![Worker].saved = left]
    BY <2>1
  <2>4. /\ W' = [W EXCEPT !.pc = step, !.saved = left]
        /\ Shape'
    BY <2>2, <2>3
  <2> QED
    BY <2>2, <2>4
<1>24. CASE Unswap(Worker)
  BY <1>24 DEF Unswap
<1>25. CASE PutBack(Worker)
  BY <1>25 DEF PutBack
<1>28. CASE Recommit(Worker)
  BY <1>28 DEF Recommit
<1>26. CASE RemovePayload(Worker)
  BY <1>26 DEF RemovePayload
<1>27. CASE Report(Worker)
  BY <1>27 DEF Report
<1> QED
  BY <1>1, <1>2, <1>3, <1>4, <1>5, <1>6, <1>7, <1>8, <1>9, <1>10, <1>11, <1>12, <1>13, <1>14,
     <1>15, <1>16, <1>17, <1>18, <1>19, <1>20, <1>21, <1>22, <1>23, <1>24, <1>25, <1>26,
     <1>27, <1>28 DEF Step, HttpStep, LocalStep

\* Whoever works on another tool comes near neither the payload nor its links.
LEMMA NeighbourKeeps ==
  ASSUME PayloadInv, NEW p \in Processes \ {Worker},
         Start(p) \/ Step(p) \/ UseCache(p) \/ Crash(p)
  PROVE  PayloadInv' /\ UNCHANGED <<dest, backup, launcher, W>>
<1> USE DEF Shape, IdleProc, W, NeighbourSteps, At, Goto, Ended, Processes
<1>1. ListEntries(p) \/ Evict(p) \/ Report(p) \/ UseCache(p) \/ Crash(p)
  BY DEF PayloadInv, Start, Step, HttpStep, LocalStep, RemovePayload,
         Lookup, CopyCached, Download, Verify, StageArchive, ClearBackup, SaveOld, CommitPayload,
         CreateLaunchers, RemoveNew, RestoreOld, RemoveCreated, RemoveBackup, Store,
         RemoveLaunchers, StageLocal, SwapOut, SwapIn, SwapBack, DropSaved, Unswap, PutBack, Recommit
<1>2. Shape' /\ UNCHANGED <<dest, backup, launcher, W>>
  <2>1. CASE ListEntries(p)
    BY <2>1 DEF PayloadInv, ListEntries
  <2>2. CASE Evict(p)
    <3>1. Goto(p, "report") \/ \E l : proc' = [proc EXCEPT ![p].listing = l]
      BY <2>2 DEF Evict
    <3> QED
      BY <2>2, <3>1 DEF PayloadInv, Evict
  <2>3. CASE Report(p)
    BY <2>3 DEF PayloadInv, Report
  <2>4. CASE UseCache(p)
    BY <2>4 DEF PayloadInv, UseCache
  <2>5. CASE Crash(p)
    BY <2>5 DEF PayloadInv, Crash
  <2> QED
    BY <1>1, <2>1, <2>2, <2>3, <2>4, <2>5
<1> QED
  BY <1>2 DEF PayloadInv, Untouched, ReadyToCommit, OldPayloadKept, NewPayload, OwnRemoved,
              LocalIsLocal, LinksMade

\* A crash, or a turn of the worker as a neighbour, leaves the host as it is.
LEMMA WorkerLeaves ==
  ASSUME PayloadInv, UseCache(Worker) \/ Crash(Worker)
  PROVE  /\ PayloadInv'
         /\ UNCHANGED <<dest, backup, launcher>>
         /\ W'.pc # "idle" \/ W'.result = "crashed" \/ W' = W
<1> USE DEF Shape, IdleProc, W, NeighbourSteps, At, Goto, Ended, Processes
<1>1. /\ Shape' /\ UNCHANGED <<dest, backup, launcher>>
      /\ \/ W' = W
         \/ W'.pc = "idle" /\ W'.result = "crashed" /\ W'.created = {}
         \/ W'.pc = "list" /\ W'.created = W.created /\ W.pc = "idle"
  <2>1. CASE UseCache(Worker)
    BY <2>1 DEF PayloadInv, UseCache
  <2>2. CASE Crash(Worker)
    BY <2>2 DEF PayloadInv, Crash
  <2> QED
    BY <2>1, <2>2
<1> QED
  BY <1>1 DEF PayloadInv, Untouched, ReadyToCommit, OldPayloadKept, NewPayload, OwnRemoved,
              LocalIsLocal, LinksMade, LocalSteps

LEMMA AdministrateKeeps == PayloadInv /\ Administrate => PayloadInv' /\ UNCHANGED proc
BY DEF PayloadInv, Administrate, Shape, At, W, Untouched, ReadyToCommit, OldPayloadKept,
       NewPayload, OwnRemoved, LocalIsLocal, LinksMade, LocalSteps, Processes

LEMMA PayloadStep == PayloadInv /\ [Next]_vars => PayloadInv'
<1> SUFFICES ASSUME PayloadInv, [Next]_vars
             PROVE  PayloadInv'
  OBVIOUS
<1>1. ASSUME NEW p \in Processes, Start(p) \/ Step(p) \/ UseCache(p) \/ Crash(p)
      PROVE  PayloadInv'
  <2>1. CASE p = Worker /\ (Start(p) \/ Step(p))
    BY <2>1, WorkerKeeps
  <2>2. CASE p = Worker /\ (UseCache(p) \/ Crash(p))
    BY <2>2, WorkerLeaves
  <2>3. CASE p # Worker
    BY <1>1, <2>3, NeighbourKeeps
  <2> QED
    BY <1>1, <2>1, <2>2, <2>3
<1>2. CASE Administrate
  BY <1>2, AdministrateKeeps
<1>3. CASE UNCHANGED vars
  BY <1>3 DEF vars, PayloadInv, Shape, W, Untouched, ReadyToCommit, OldPayloadKept,
              NewPayload, OwnRemoved, LocalIsLocal, LinksMade
<1> QED
  BY <1>1, <1>2, <1>3 DEF Next

LEMMA PayloadInvariant == Spec => []PayloadInv
BY PayloadInit, PayloadStep, PTL DEF Spec

\* A failing step outside a removal ends where the install began.
LEMMA FailingRestores ==
  ASSUME PayloadInv, [Next]_vars,
         Fails(Steps \ {"idle", "removeLaunchers", "removePayload"}),
         W.adapter = "http", ~W.botched
  PROVE  dest' = W.before
<1> USE DEF W
<1>1. /\ W.pc \in Steps \ {"idle", "removeLaunchers", "removePayload"}
      /\ W'.pc = "idle" /\ W'.result = "failed"
      /\ W.adapter = "http" /\ ~W.botched
  BY DEF Fails
<1>2. Step(Worker)
  <2>1. ~UNCHANGED W
    BY <1>1
  <2>2. ASSUME NEW p \in Processes, Start(p) \/ Step(p) \/ UseCache(p) \/ Crash(p)
        PROVE  Step(Worker)
    <3>1. p = Worker
      BY <2>1, <2>2, NeighbourKeeps
    <3>2. ~Start(p)
      BY <1>1, <3>1 DEF Start, At
    <3>3. ~(UseCache(p) \/ Crash(p))
      BY <1>1, <2>1, <3>1, WorkerLeaves
    <3> QED
      BY <2>2, <3>1, <3>2, <3>3
  <2> QED
    BY <2>1, <2>2, AdministrateKeeps DEF Next, vars
<1>3. DOMAIN proc = Processes /\ DOMAIN W = DOMAIN IdleProc /\ Worker \in Processes
  BY DEF PayloadInv, Shape, Processes
<1>4. ~LocalStep(Worker)
  BY <1>1 DEF PayloadInv, LocalIsLocal, LocalSteps, At, LocalStep, StageLocal, SwapOut, SwapIn,
     SwapBack, DropSaved, Unswap, PutBack, Recommit
<1>5. ~RemovePayload(Worker) /\ ~RemoveLaunchers(Worker)
  BY <1>1 DEF RemovePayload, RemoveLaunchers, At
<1>6. ~Report(Worker)
  BY <1>1, <1>3 DEF Report, Ended, IdleProc
<1>7. ~ListEntries(Worker) /\ ~Evict(Worker) /\ ~Store(Worker) /\ ~RemoveBackup(Worker)
  BY <1>1, <1>3 DEF ListEntries, Evict, Store, RemoveBackup, IdleProc, At, Goto
<1>8. ~CreateLaunchers(Worker) /\ ~RemoveNew(Worker) /\ ~RestoreOld(Worker)
  BY <1>1, <1>3 DEF CreateLaunchers, RemoveNew, RestoreOld, IdleProc, At, Goto
<1>9. CASE Lookup(Worker) \/ CopyCached(Worker) \/ Download(Worker) \/ Verify(Worker)
             \/ StageArchive(Worker) \/ ClearBackup(Worker) \/ SaveOld(Worker)
  <2>1. W.pc \in {"lookup", "copy", "download", "verify", "redownload", "owner", "clear", "save"}
    BY <1>9 DEF Lookup, CopyCached, Download, Verify, StageArchive, ClearBackup, SaveOld, At
  <2>2. dest' = dest
    BY <1>1, <1>3, <1>9 DEF Lookup, CopyCached, Download, Verify, StageArchive, ClearBackup,
                            SaveOld, At, Goto, IdleProc
  <2> QED
    BY <2>1, <2>2 DEF PayloadInv, Untouched
<1>10. CASE CommitPayload(Worker)
  <2>1. W.pc = "commit" /\ dest = Absent /\ W.saved = W.before
    BY <1>10 DEF CommitPayload, At, PayloadInv, OldPayloadKept
  <2>2. W.saved = Absent /\ dest' = dest
    BY <1>1, <1>3, <1>10 DEF CommitPayload, HadPayload, Goto, IdleProc
  <2> QED
    BY <2>1, <2>2
<1>11. CASE RemoveCreated(Worker)
  BY <1>1, <1>11 DEF RemoveCreated, At, PayloadInv, OldPayloadKept
<1> QED
  BY <1>2, <1>4, <1>5, <1>6, <1>7, <1>8, <1>9, <1>10, <1>11 DEF Step, HttpStep

\* No step touches a foreign directory, or a foreign link.
LEMMA ForeignUntouched ==
  ASSUME PayloadInv, [Next]_vars
  PROVE  /\ (proc[Worker].pc # "idle" /\ proc[Worker].adapter = "http"
              /\ dest # Absent /\ dest.marker # "http" /\ ~proc[Worker].botched)
            => dest' = dest
         /\ \A n \in Names : launcher[n] = "foreign" => launcher'[n] = "foreign"
<1> DEFINE Foreign == /\ proc[Worker].pc # "idle" /\ proc[Worker].adapter = "http"
                      /\ dest # Absent /\ dest.marker # "http" /\ ~proc[Worker].botched
           Spared == /\ Foreign => dest' = dest
                     /\ \A n \in Names : launcher[n] = "foreign" => launcher'[n] = "foreign"
<1> SUFFICES Spared
  OBVIOUS
<1>1. CASE Start(Worker) \/ Step(Worker)
  <2>1. Foreign => dest' = dest
    <3> SUFFICES ASSUME Foreign
                 PROVE  dest' = dest
      OBVIOUS
    <3>1. ~LocalStep(Worker)
      BY DEF W, PayloadInv, LocalIsLocal, LocalSteps, At, LocalStep, StageLocal, SwapOut, SwapIn,
         SwapBack, DropSaved, Unswap, PutBack, Recommit
    <3>2. CASE HttpStep(Worker)
      <4>1. dest' = dest \/ SaveOld(Worker) \/ RemoveNew(Worker)
        BY <3>2 DEF HttpStep, Lookup, CopyCached, Download, Verify, StageArchive, ClearBackup,
           SaveOld, CommitPayload, CreateLaunchers, RemoveNew, RestoreOld, RemoveCreated,
           RemoveBackup, Store, ListEntries, Evict, RemoveLaunchers
      <4>2. ~SaveOld(Worker) \/ dest' = dest
        BY DEF SaveOld, At, PayloadInv, ReadyToCommit, OwnedOrAbsent, W
      <4>3. ~RemoveNew(Worker)
        BY DEF RemoveNew, At, PayloadInv, NewPayload, W
      <4> QED
        BY <4>1, <4>2, <4>3
    <3>3. CASE RemovePayload(Worker)
      BY <3>3 DEF RemovePayload, At, PayloadInv, OwnRemoved, W
    <3>4. CASE Start(Worker) \/ Report(Worker)
      BY <3>4 DEF Start, Report
    <3> QED
      BY <1>1, <3>1, <3>2, <3>3, <3>4 DEF Step
  <2>2. \A n \in Names : launcher[n] = "foreign" => launcher'[n] = "foreign"
    <3>1. CASE CreateLaunchers(Worker)
      BY <3>1 DEF CreateLaunchers
    <3>2. CASE RemoveCreated(Worker)
      BY <3>2 DEF RemoveCreated, PayloadInv, LinksMade, W
    <3>3. CASE RemoveLaunchers(Worker)
      BY <3>3 DEF RemoveLaunchers
    <3>4. CASE UNCHANGED launcher
      BY <3>4
    <3> QED
      BY <1>1, <3>1, <3>2, <3>3, <3>4
         DEF Start, Step, HttpStep, LocalStep, RemovePayload, Report,
             Lookup, CopyCached, Download, Verify, StageArchive, ClearBackup, SaveOld,
             CommitPayload, RemoveNew, RestoreOld, RemoveBackup, Store, ListEntries, Evict,
             StageLocal, SwapOut, SwapIn, SwapBack, DropSaved, Unswap, PutBack, Recommit
  <2> QED
    BY <2>1, <2>2
<1>2. CASE Administrate
  <2>1. ~Foreign
    BY <1>2 DEF Administrate, At, W, Processes
  <2> QED
    BY <1>2, <2>1 DEF Administrate, PayloadInv, Shape
<1>3. CASE UNCHANGED <<dest, launcher>>
  BY <1>3
<1> QED
  BY <1>1, <1>2, <1>3, NeighbourKeeps, WorkerLeaves DEF Next, vars

(***************************************************************************)
(* The theorems.                                                           *)
(***************************************************************************)
\* While an archive is replaced the directory or its backup is whole, whatever
\* fails and whenever the process dies (commitPayload, rollbackPayload).
THEOREM PayloadAlwaysThere == Spec => []PayloadNeverLost
<1>1. PayloadInv => PayloadNeverLost
  BY DEF PayloadInv, PayloadNeverLost, Untouched, OldPayloadKept, NewPayload, W, Marked
<1> QED
  BY <1>1, PayloadInvariant, PTL

\* An http install that fails, and whose rollback did not itself fail, leaves
\* the payload as it was (rollbackPayload).
THEOREM FailureRestores == Spec => FailedInstallRestores
<1>1. PayloadInv /\ [Next]_vars =>
        [(Fails(Steps \ {"idle", "removeLaunchers", "removePayload"})
            /\ proc[Worker].adapter = "http" /\ ~proc[Worker].botched)
         => dest' = proc[Worker].before]_vars
  BY FailingRestores DEF W
<1> QED
  BY <1>1, PayloadInvariant, PTL DEF Spec, FailedInstallRestores

\* The http adapter moves and removes no directory but one under its marker, and
\* nobody's links but its own (requireOwnedArchivePathOrAbsent, createLaunchers).
THEOREM ForeignAlwaysSpared == Spec => ForeignSpared
<1>1. PayloadInv /\ [Next]_vars =>
        [/\ (proc[Worker].pc # "idle" /\ proc[Worker].adapter = "http"
              /\ dest # Absent /\ dest.marker # "http" /\ ~proc[Worker].botched)
            => dest' = dest
         /\ \A n \in Names : launcher[n] = "foreign" => launcher'[n] = "foreign"]_vars
  BY ForeignUntouched
<1> QED
  BY <1>1, PayloadInvariant, PTL DEF Spec, ForeignSpared

(***************************************************************************)
(* The checksum.                                                           *)
(***************************************************************************)
ContentInv == DOMAIN proc = Processes /\ (\A p \in Processes : DOMAIN proc[p] = DOMAIN IdleProc)
                /\ VerifiedContent

\* A checksum speaks of the bytes that are installed and cached, whatever the
\* cache served and whoever stored there meanwhile (verifyDownloadedArtifact).
THEOREM ContentAlwaysVerified == Spec => []VerifiedContent
<1> USE DEF ContentInv, VerifiedContent, IdleProc
<1>1. Init => ContentInv
  BY DEF Init
<1>2. ContentInv /\ [Next]_vars => ContentInv'
  <2> SUFFICES ASSUME ContentInv, [Next]_vars
               PROVE  ContentInv'
    OBVIOUS
  <2> USE DEF At, Goto, Fail, Ended
  <2>1. ASSUME NEW p \in Processes, Start(p) \/ Step(p) \/ UseCache(p) \/ Crash(p)
        PROVE  ContentInv'
    <3>1. CASE Lookup(p)
      BY <3>1 DEF Lookup
    <3>2. CASE CopyCached(p)
      BY <3>2 DEF CopyCached
    <3>3. CASE Download(p)
      BY <3>3 DEF Download
    <3>4. CASE Verify(p)
      BY <3>4 DEF Verify, Matches
    <3>5. CASE StageArchive(p)
      BY <3>5 DEF StageArchive
    <3>6. CASE ClearBackup(p)
      BY <3>6 DEF ClearBackup
    <3>7. CASE SaveOld(p)
      BY <3>7 DEF SaveOld
    <3>8. CASE CommitPayload(p)
      BY <3>8 DEF CommitPayload
    <3>9. CASE CreateLaunchers(p)
      BY <3>9 DEF CreateLaunchers
    <3>10. CASE RemoveNew(p)
      BY <3>10 DEF RemoveNew
    <3>11. CASE RestoreOld(p)
      BY <3>11 DEF RestoreOld
    <3>12. CASE RemoveCreated(p)
      BY <3>12 DEF RemoveCreated
    <3>13. CASE RemoveBackup(p)
      BY <3>13 DEF RemoveBackup
    <3>14. CASE Store(p)
      BY <3>14 DEF Store
    <3>15. CASE ListEntries(p)
      BY <3>15 DEF ListEntries
    <3>16. CASE Evict(p)
      BY <3>16 DEF Evict
    <3>17. CASE RemoveLaunchers(p)
      BY <3>17 DEF RemoveLaunchers
    <3>18. CASE StageLocal(p)
      BY <3>18 DEF StageLocal
    <3>19. CASE SwapOut(p)
      BY <3>19 DEF SwapOut
    <3>20. CASE SwapIn(p)
      BY <3>20 DEF SwapIn
    <3>21. CASE SwapBack(p)
      BY <3>21 DEF SwapBack
    <3>22. CASE DropSaved(p)
      BY <3>22 DEF DropSaved
    <3>23. CASE Unswap(p)
      BY <3>23 DEF Unswap
    <3>24. CASE PutBack(p)
      BY <3>24 DEF PutBack
    <3>30. CASE Recommit(p)
      BY <3>30 DEF Recommit
    <3>25. CASE RemovePayload(p)
      BY <3>25 DEF RemovePayload
    <3>26. CASE Report(p)
      BY <3>26 DEF Report
    <3>27. CASE UseCache(p)
      BY <3>27 DEF UseCache
    <3>28. CASE Crash(p)
      BY <3>28 DEF Crash
    <3>29. CASE Start(p)
      BY <3>29 DEF Start
    <3> QED
      BY <2>1, <3>1, <3>2, <3>3, <3>4, <3>5, <3>6, <3>7, <3>8, <3>9, <3>10, <3>11, <3>12, <3>13,
         <3>14, <3>15, <3>16, <3>17, <3>18, <3>19, <3>20, <3>21, <3>22, <3>23, <3>24, <3>25,
         <3>26, <3>27, <3>28, <3>29, <3>30 DEF Step, HttpStep, LocalStep
  <2>2. CASE Administrate \/ UNCHANGED vars
    BY <2>2 DEF Administrate, vars
  <2> QED
    BY <2>1, <2>2 DEF Next
<1> QED
  BY <1>1, <1>2, PTL DEF Spec
=============================================================================
