--------------------------- MODULE ArtifactInstall ---------------------------
(***************************************************************************)
(* Two adapters that put the payload of one tool in the same directory:    *)
(* the archive path of the http adapter (internal/httpdownload), which     *)
(* downloads through the shared cache, keeps the old payload under one     *)
(* fixed backup name and links entry points, and the local adapter         *)
(* (internal/localartifact), which stages a vendored archive and swaps it  *)
(* in behind a private backup.  Processes install and remove in any        *)
(* order, every file system call may fail, and processes die.              *)
(*                                                                         *)
(* Left out: raw single files (one rename), elevation (the same calls      *)
(* through sudo), signatures, bearer credentials.                          *)
(***************************************************************************)
EXTENDS Naturals, FiniteSets, DownloadCache

CONSTANTS Worker,       \* the process that works on the tool
          Neighbours,   \* processes that install other tools through the same cache
          Versions,     \* what its URL or local path can name, one URL each
          Names,        \* entry points to link
          CacheLimit,   \* entries the cache may keep
          FaultKinds,   \* kinds of failure that may happen
          MaxFaults     \* bound: how many of them

ASSUME CacheLimitAssumption == CacheLimit \in Nat

Processes == {Worker} \cup Neighbours

VARIABLES dest,       \* the payload directory
          backup,     \* dest + ".depengine-backup", the http adapter's
          launcher,   \* what is at the link of each entry point
          cache,      \* the download cache
          recorded,   \* the adapter the state file names for the tool
          proc,       \* where each process is, and its locals
          faults      \* how many failures there were

vars == <<dest, backup, launcher, cache, recorded, proc, faults>>

-----------------------------------------------------------------------------
(* Values *)

\* A directory: what it holds, whether all of it is there, whose marker it has.
Absent == [version |-> "none", whole |-> FALSE, marker |-> "none"]

\* A directory the user made.
UserDir == [version |-> "user", whole |-> TRUE, marker |-> "none"]

OwnedOrAbsentUnchecked(d) == TRUE

\* verifyArchiveOwnership: the marker in the directory is this tool's.
OwnedOrAbsent(d) == d = Absent \/ d.marker = "http"

\* A recursive removal that fails has removed nothing, or some of it.
Damaged(d) == {d, [d EXCEPT !.whole = FALSE], [d EXCEPT !.whole = FALSE, !.marker = "none"]}

Steps == {"idle", "lookup", "copy", "download", "verify", "redownload", "owner", "clear", "save",
          "commit", "launch", "cleanup", "store", "list", "evict", "report",
          "undo", "restore", "unlink",
          "stage", "swapOut", "swapIn", "swapBack", "drop", "unswap", "putBack", "recommit",
          "removeLaunchers", "removePayload"}

NoListing == [names |-> <<>>, total |-> 0]

IdleProc == [pc |-> "idle", adapter |-> "http", version |-> "none", checksum |-> FALSE,
             content |-> "none", cached |-> FALSE, stage |-> Absent, saved |-> Absent,
             created |-> {}, listing |-> NoListing,
             result |-> "none", before |-> Absent, botched |-> FALSE]

Init ==
    /\ dest = Absent
    /\ backup = Absent
    /\ launcher \in [Names -> {"absent", "foreign"}]
    /\ cache \in {<<>>} \cup {<<[url |-> v, content |-> "bad"]>> : v \in Versions}
    /\ recorded = "none"
    /\ proc = [p \in Processes |-> IdleProc]
    /\ faults = 0

Fault(kind) ==
    /\ kind \in FaultKinds
    /\ faults < MaxFaults
    /\ faults' = faults + 1

NoFault == UNCHANGED faults

\* Process p moves on; "with" are the locals that change.
At(p, step) == proc[p].pc = step

Goto(p, step) == proc' = [proc EXCEPT ![p].pc = step]

\* The deferred clean-ups take away what was staged.
Ended(result) == [IdleProc EXCEPT !.result = result]

Fail(p) == proc' = [proc EXCEPT ![p] = Ended("failed")]

\* A candidate is tried, or what the state file records is removed.
Start(p) ==
    \E adapter \in {"http", "local"}, v \in Versions, sum \in BOOLEAN,
       first \in {"lookup", "stage", "removeLaunchers", "removePayload"} :
        /\ At(p, "idle")
        /\ p = Worker
        /\ adapter = "http" => first \in {"lookup", "removeLaunchers"}
        /\ adapter = "local" => first \in {"stage", "removePayload"}
        /\ first # "lookup" => sum = TRUE
        /\ first \in {"removeLaunchers", "removePayload"} =>
              recorded = adapter /\ v = CHOOSE w \in Versions : TRUE
        /\ proc' = [proc EXCEPT ![p] = [IdleProc EXCEPT !.pc = first, !.adapter = adapter,
                                           !.version = v, !.checksum = sum, !.before = dest]]
        /\ UNCHANGED <<dest, backup, launcher, cache, recorded, faults>>

-----------------------------------------------------------------------------
(* http: download *)

\* downloadcache.Lookup
Lookup(p) ==
    /\ At(p, "lookup")
    /\ cache' = Touched(cache, proc[p].version)
    /\ Goto(p, IF proc[p].version \in Urls(cache) THEN "copy" ELSE "download")
    /\ UNCHANGED <<dest, backup, launcher, recorded, faults>>

\* The entry may be gone since the lookup; a failed copy falls through to a download.
CopyCached(p) ==
    /\ At(p, "copy")
    /\ \/ /\ proc[p].version \in Urls(cache)
          /\ proc' = [proc EXCEPT ![p].pc = "verify", ![p].cached = TRUE,
                                  ![p].content = Content(cache, proc[p].version)]
          /\ NoFault
       \/ /\ proc[p].version \notin Urls(cache)
          /\ Goto(p, "download")
          /\ NoFault
       \/ /\ Fault("copy")
          /\ Goto(p, "download")
    /\ UNCHANGED <<dest, backup, launcher, cache, recorded>>

\* retryWithBackoff: a fault here is the failure of the last attempt.
Download(p) ==
    /\ At(p, "download") \/ At(p, "redownload")
    /\ \/ /\ proc' = [proc EXCEPT ![p].pc = "verify", ![p].content = proc[p].version,
                                  ![p].cached = FALSE]
          /\ NoFault
       \/ /\ Fault("content")
          /\ proc' = [proc EXCEPT ![p].pc = "verify", ![p].content = "bad",
                                  ![p].cached = FALSE]
       \/ Fault("download") /\ Fail(p)
    /\ UNCHANGED <<dest, backup, launcher, cache, recorded>>

MatchesTrustingCache(q) == q.cached \/ ~q.checksum \/ q.content = q.version

Matches(q) == ~q.checksum \/ q.content = q.version

\* A mismatch of what came from the cache drops the entry and downloads once more.
Verify(p) ==
    /\ At(p, "verify")
    /\ \/ /\ Matches(proc[p])
          /\ Goto(p, "owner")
          /\ UNCHANGED cache
       \/ /\ ~Matches(proc[p])
          /\ proc[p].cached
          /\ cache' = Dropped(cache, proc[p].version)
          /\ Goto(p, "redownload")
       \/ /\ ~Matches(proc[p])
          /\ ~proc[p].cached
          /\ Fail(p)
          /\ UNCHANGED cache
    /\ UNCHANGED <<dest, backup, launcher, recorded, faults>>

-----------------------------------------------------------------------------
(* http: installArchive *)

\* Both paths must be depengine's; then the archive is extracted and marked.
StageArchive(p) ==
    /\ At(p, "owner")
    /\ \/ /\ OwnedOrAbsent(dest) /\ OwnedOrAbsent(backup)
          /\ proc' = [proc EXCEPT ![p].pc = "clear",
                ![p].stage = [version |-> proc[p].content, whole |-> TRUE, marker |-> "http"]]
          /\ NoFault
       \/ ~(OwnedOrAbsent(dest) /\ OwnedOrAbsent(backup)) /\ Fail(p) /\ NoFault
       \/ Fault("extract") /\ Fail(p)
    /\ UNCHANGED <<dest, backup, launcher, cache, recorded>>

ClearBackup(p) ==
    /\ At(p, "clear")
    /\ \/ backup' = Absent /\ Goto(p, "save") /\ NoFault
       \/ Fault("remove") /\ backup' \in Damaged(backup) /\ Fail(p)
    /\ UNCHANGED <<dest, launcher, cache, recorded>>

SaveOldRemoves(p) ==
    /\ At(p, "save")
    /\ dest' = Absent
    /\ Goto(p, "commit")
    /\ UNCHANGED <<backup, launcher, cache, recorded, faults>>

\* A rename cannot replace a directory that has something in it.
SaveOld(p) ==
    /\ At(p, "save")
    /\ \/ dest = Absent /\ Goto(p, "commit") /\ NoFault /\ UNCHANGED <<dest, backup>>
       \/ /\ dest # Absent /\ backup = Absent
          /\ backup' = dest
          /\ dest' = Absent
          /\ proc' = [proc EXCEPT ![p].pc = "commit", ![p].saved = dest]
          /\ NoFault
       \/ dest # Absent /\ backup # Absent /\ Fail(p) /\ NoFault /\ UNCHANGED <<dest, backup>>
       \/ dest # Absent /\ Fault("rename") /\ Fail(p) /\ UNCHANGED <<dest, backup>>
    /\ UNCHANGED <<launcher, cache, recorded>>

HadPayloadNeverSet(q) == FALSE

HadPayload(q) == q.saved # Absent

CommitPayload(p) ==
    /\ At(p, "commit")
    /\ \/ /\ dest = Absent
          /\ dest' = proc[p].stage
          /\ proc' = [proc EXCEPT ![p].pc = "launch", ![p].stage = Absent]
          /\ NoFault
       \/ /\ \/ dest # Absent /\ NoFault
             \/ Fault("rename")
          /\ IF HadPayload(proc[p]) THEN Goto(p, "undo") ELSE Fail(p)
          /\ UNCHANGED dest
    /\ UNCHANGED <<backup, launcher, cache, recorded>>

\* createLaunchers keeps links that are right and refuses what it did not make; a
\* failure to normalize owner or mode of the payload leads to the same rollback.
CreateLaunchers(p) ==
    LET missing == {n \in Names : launcher[n] = "absent"}
        foreign == {n \in Names : launcher[n] = "foreign"}
    IN
    /\ At(p, "launch")
    /\ \E made \in SUBSET missing :
        /\ launcher' = [n \in Names |-> IF n \in made THEN "ours" ELSE launcher[n]]
        /\ \/ /\ foreign = {} /\ made = missing
              /\ Goto(p, "cleanup")
              /\ NoFault
           \/ /\ \/ foreign # {} /\ NoFault
                 \/ Fault("launch")
              /\ proc' = [proc EXCEPT ![p].pc = "undo", ![p].created = made]
    /\ UNCHANGED <<dest, backup, cache, recorded>>

\* rollbackPayload: remove the new payload, bring the backup back if there is one.
RemoveNew(p) ==
    /\ At(p, "undo")
    /\ \/ dest' = Absent /\ Goto(p, "restore") /\ NoFault
       \/ /\ Fault("remove")
          /\ dest' \in Damaged(dest)
          /\ proc' = [proc EXCEPT ![p].pc = "restore", ![p].botched = TRUE]
    /\ UNCHANGED <<backup, launcher, cache, recorded>>

RestoreOld(p) ==
    /\ At(p, "restore")
    /\ \/ /\ backup # Absent /\ dest = Absent
          /\ dest' = backup
          /\ backup' = Absent
          /\ Goto(p, "unlink")
          /\ NoFault
       \/ /\ backup = Absent \/ dest # Absent
          /\ Goto(p, "unlink")
          /\ NoFault
          /\ UNCHANGED <<dest, backup>>
       \/ /\ backup # Absent
          /\ Fault("rename")
          /\ proc' = [proc EXCEPT ![p].pc = "unlink", ![p].botched = TRUE]
          /\ UNCHANGED <<dest, backup>>
    /\ UNCHANGED <<launcher, cache, recorded>>

\* Only the links this install has made are taken away again.
RemoveCreated(p) ==
    /\ At(p, "unlink")
    /\ launcher' = [n \in Names |-> IF n \in proc[p].created THEN "absent" ELSE launcher[n]]
    /\ Fail(p)
    /\ UNCHANGED <<dest, backup, cache, recorded, faults>>

\* Failing to remove the backup is only a warning.
RemoveBackup(p) ==
    /\ At(p, "cleanup")
    /\ \/ backup' = Absent /\ NoFault
       \/ Fault("remove") /\ backup' \in Damaged(backup)
    /\ proc' = [proc EXCEPT ![p].pc = "store", ![p].saved = Absent]
    /\ UNCHANGED <<dest, launcher, cache, recorded>>

-----------------------------------------------------------------------------
(* http: the cache takes the artifact after it was installed *)

Store(p) ==
    /\ At(p, "store")
    /\ \/ /\ cache' = Stored(cache, proc[p].version, proc[p].content)
          /\ Goto(p, "list")
          /\ NoFault
       \/ Fault("store") /\ UNCHANGED cache /\ Goto(p, "report")
    /\ UNCHANGED <<dest, backup, launcher, recorded>>

ListEntries(p) ==
    /\ At(p, "list")
    /\ proc' = [proc EXCEPT ![p].pc = "evict", ![p].listing = Listing(cache)]
    /\ UNCHANGED <<dest, backup, launcher, cache, recorded, faults>>

Evict(p) ==
    /\ At(p, "evict")
    /\ IF Evicting(proc[p].listing, CacheLimit)
       THEN /\ cache' = Dropped(cache, Head(proc[p].listing.names))
            /\ proc' = [proc EXCEPT ![p].listing = EvictedListing(cache, @)]
       ELSE Goto(p, "report") /\ UNCHANGED cache
    /\ UNCHANGED <<dest, backup, launcher, recorded, faults>>

\* What others do to the cache before they store and evict: a lookup, a mismatch dropped, and
\* a store of what no checksum was asked for.
UseCache(p) ==
    /\ p \in Neighbours
    /\ At(p, "idle")
    /\ \E v \in Versions :
        \/ cache' = Touched(cache, v) /\ UNCHANGED proc
        \/ /\ v \in Urls(cache) /\ Content(cache, v) = "bad"
           /\ cache' = Dropped(cache, v)
           /\ UNCHANGED proc
        \/ /\ \E content \in {v, "bad"} : cache' = Stored(cache, v, content)
           /\ Goto(p, "list")
    /\ UNCHANGED <<dest, backup, launcher, recorded, faults>>

\* The end of the run writes the record, with the ownership of the payload.
Report(p) ==
    /\ At(p, "report")
    /\ recorded' = IF p = Worker THEN proc[p].adapter ELSE recorded
    /\ proc' = [proc EXCEPT ![p] = Ended("installed")]
    /\ UNCHANGED <<dest, backup, launcher, cache, faults>>

-----------------------------------------------------------------------------
(* local: Install and replacePathWithOps *)

LocalPayload(q) == [version |-> q.version, whole |-> TRUE, marker |-> "local"]

\* What is there already is left alone if its two checksums are right.
StageLocal(p) ==
    /\ At(p, "stage")
    /\ \/ dest = LocalPayload(proc[p]) /\ Goto(p, "report") /\ NoFault
       \/ /\ dest # LocalPayload(proc[p])
          /\ proc' = [proc EXCEPT ![p].pc = "swapOut", ![p].stage = LocalPayload(proc[p])]
          /\ NoFault
       \/ Fault("extract") /\ Fail(p)
    /\ UNCHANGED <<dest, backup, launcher, cache, recorded>>

SwapOut(p) ==
    /\ At(p, "swapOut")
    /\ \/ dest = Absent /\ Goto(p, "swapIn") /\ NoFault /\ UNCHANGED dest
       \/ /\ dest # Absent
          /\ dest' = Absent
          /\ proc' = [proc EXCEPT ![p].pc = "swapIn", ![p].saved = dest]
          /\ NoFault
       \/ dest # Absent /\ Fault("rename") /\ Fail(p) /\ UNCHANGED dest
    /\ UNCHANGED <<backup, launcher, cache, recorded>>

SwapIn(p) ==
    /\ At(p, "swapIn")
    /\ \/ /\ dest = Absent
          /\ dest' = proc[p].stage
          /\ proc' = [proc EXCEPT ![p].stage = Absent,
                                  ![p].pc = IF HadPayload(proc[p]) THEN "drop" ELSE "report"]
          /\ NoFault
       \/ /\ \/ dest # Absent /\ NoFault
             \/ Fault("rename")
          /\ IF HadPayload(proc[p]) THEN Goto(p, "swapBack") ELSE Fail(p)
          /\ UNCHANGED dest
    /\ UNCHANGED <<backup, launcher, cache, recorded>>

\* The commit failed: the old payload goes back, unless that fails too.
SwapBack(p) ==
    /\ At(p, "swapBack")
    /\ \/ dest = Absent /\ dest' = proc[p].saved /\ Fail(p) /\ NoFault
       \/ dest # Absent /\ UNCHANGED dest /\ Fail(p) /\ NoFault
       \/ Fault("rename") /\ UNCHANGED dest /\ Fail(p)
    /\ UNCHANGED <<backup, launcher, cache, recorded>>


\* Removing the private backup; if that fails the commit is taken back.
DropSaved(p) ==
    /\ At(p, "drop")
    /\ \/ proc' = [proc EXCEPT ![p].pc = "report", ![p].saved = Absent] /\ NoFault
       \/ /\ Fault("remove")
          /\ \E left \in Damaged(proc[p].saved) \cup {Absent} :
                proc' = [proc EXCEPT ![p].pc = "unswap", ![p].saved = left]
    /\ UNCHANGED <<dest, backup, launcher, cache, recorded>>

Unswap(p) ==
    /\ At(p, "unswap")
    /\ \/ /\ dest # Absent
          /\ dest' = Absent
          /\ proc' = [proc EXCEPT ![p].pc = "putBack", ![p].stage = dest]
          /\ NoFault
       \/ /\ \/ dest = Absent /\ NoFault
             \/ Fault("rename")
          /\ UNCHANGED dest
          /\ Fail(p)
    /\ UNCHANGED <<backup, launcher, cache, recorded>>

\* The old payload goes back.
PutBack(p) ==
    /\ At(p, "putBack")
    /\ \/ /\ proc[p].saved # Absent /\ dest = Absent
          /\ dest' = proc[p].saved
          /\ Fail(p) /\ NoFault
       \/ /\ proc[p].saved = Absent \/ dest # Absent
          /\ Goto(p, "recommit") /\ NoFault
          /\ UNCHANGED dest
       \/ Fault("rename") /\ Goto(p, "recommit") /\ UNCHANGED dest
    /\ UNCHANGED <<backup, launcher, cache, recorded>>

\* If it could not, the new one does; where that fails as well nothing is left there.
Recommit(p) ==
    /\ At(p, "recommit")
    /\ \/ dest = Absent /\ dest' = proc[p].stage /\ NoFault
       \/ dest # Absent /\ UNCHANGED dest /\ NoFault
       \/ Fault("rename") /\ UNCHANGED dest
    /\ Fail(p)
    /\ UNCHANGED <<backup, launcher, cache, recorded>>

-----------------------------------------------------------------------------
(* Removal, crashes, the user *)

\* The http adapter removes only what the state and the marker both say is its own,
\* and no link that leads elsewhere.
RemoveLaunchers(p) ==
    LET foreign == {n \in Names : launcher[n] = "foreign"} IN
    /\ At(p, "removeLaunchers")
    /\ \/ /\ dest.marker # "http"
          /\ Fail(p) /\ NoFault /\ UNCHANGED launcher
       \/ /\ dest.marker = "http"
          /\ \E gone \in SUBSET (Names \ foreign) :
              /\ launcher' = [n \in Names |-> IF n \in gone THEN "absent" ELSE launcher[n]]
              /\ \/ gone = Names /\ Goto(p, "removePayload") /\ NoFault
                 \/ foreign # {} /\ Fail(p) /\ NoFault
                 \/ Fault("remove") /\ Fail(p)
    /\ UNCHANGED <<dest, backup, cache, recorded>>

\* The command that asked for the removal drops the record when it succeeded.
RemovePayload(p) ==
    /\ At(p, "removePayload")
    /\ \/ /\ dest' = Absent
          /\ recorded' = "none"
          /\ proc' = [proc EXCEPT ![p] = Ended("removed")]
          /\ NoFault
       \/ Fault("remove") /\ dest' \in Damaged(dest) /\ Fail(p) /\ UNCHANGED recorded
    /\ UNCHANGED <<backup, launcher, cache>>

\* Staged and privately saved directories of a dead process are never looked at again.
Crash(p) ==
    /\ ~At(p, "idle")
    /\ Fault("crash")
    /\ proc' = [proc EXCEPT ![p] = Ended("crashed")]
    /\ UNCHANGED <<dest, backup, launcher, cache, recorded>>

\* Between runs the user makes a directory or a link of their own.
Administrate ==
    /\ \A p \in Processes : At(p, "idle")
    /\ Fault("admin")
    /\ \/ dest = Absent /\ dest' = UserDir /\ UNCHANGED launcher
       \/ /\ \E n \in Names : launcher' = [launcher EXCEPT ![n] = "foreign"]
          /\ UNCHANGED dest
    /\ UNCHANGED <<backup, cache, recorded, proc>>

HttpStep(p) ==
    \/ Lookup(p) \/ CopyCached(p) \/ Download(p) \/ Verify(p)
    \/ StageArchive(p) \/ ClearBackup(p) \/ SaveOld(p) \/ CommitPayload(p) \/ CreateLaunchers(p)
    \/ RemoveNew(p) \/ RestoreOld(p) \/ RemoveCreated(p) \/ RemoveBackup(p)
    \/ Store(p) \/ ListEntries(p) \/ Evict(p)
    \/ RemoveLaunchers(p)

LocalStep(p) ==
    \/ StageLocal(p) \/ SwapOut(p) \/ SwapIn(p) \/ SwapBack(p)
    \/ DropSaved(p) \/ Unswap(p) \/ PutBack(p) \/ Recommit(p)

Step(p) == HttpStep(p) \/ LocalStep(p) \/ RemovePayload(p) \/ Report(p)

Next ==
    \/ \E p \in Processes : Start(p) \/ Step(p) \/ UseCache(p) \/ Crash(p)
    \/ Administrate

Spec == Init /\ [][Next]_vars

-----------------------------------------------------------------------------
(* Properties *)

\* A checksum speaks of the bytes that are installed and cached, whatever the cache served
\* and whoever else has stored there meanwhile (verifyDownloadedArtifact).
VerifiedContent ==
    \A p \in Processes :
        (proc[p].pc \in {"owner", "clear", "save", "commit", "launch", "cleanup", "store"}
            /\ proc[p].checksum) => proc[p].content = proc[p].version

\* While an archive is replaced the directory or its backup is whole, so that a process that
\* dies there leaves a payload to install or to bring back (commitPayload, rollbackPayload).
PayloadNeverLost ==
    (proc[Worker].pc \in {"save", "commit", "launch", "undo", "restore", "unlink", "cleanup"}
        /\ proc[Worker].before.whole) => dest.whole \/ backup.whole

Fails(step) == proc[Worker].pc \in step /\ proc'[Worker].pc = "idle" /\ proc'[Worker].result = "failed"

\* An http install that reports an error, and whose rollback did not itself fail, leaves the
\* payload as it was, so that the next candidate starts from where this one did
\* (rollbackPayload).
FailedInstallRestores ==
    [][(Fails(Steps \ {"idle", "removeLaunchers", "removePayload"})
          /\ proc[Worker].adapter = "http" /\ ~proc[Worker].botched)
       => dest' = proc[Worker].before]_vars

\* The http adapter never moves or removes a directory without its marker, whatever the state
\* file says, and links that are not depengine's stay, whatever is installed, rolled back or
\* removed (requireOwnedArchivePathOrAbsent, verifyArchiveOwnership, createLaunchers).
ForeignSpared ==
    [][/\ (proc[Worker].pc # "idle" /\ proc[Worker].adapter = "http"
              /\ dest # Absent /\ dest.marker # "http" /\ ~proc[Worker].botched)
            => dest' = dest
       /\ \A n \in Names : launcher[n] = "foreign" => launcher'[n] = "foreign"]_vars

=============================================================================
