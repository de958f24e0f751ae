-------------------------------- MODULE Removal --------------------------------
(***************************************************************************)
(* The commands that take tools away, internal/app/remove.go, undo.go and  *)
(* forget.go, with the snapshots install leaves for undo: what they do to  *)
(* the host one step at a time, and to the state file in the one save at   *)
(* the end of each.  The state lock is held from the load to that save, so *)
(* one command runs at a time, but the host is not locked and a command    *)
(* may die between any two steps.                                          *)
(*                                                                         *)
(* A shared resource is a package source or the helper another tool        *)
(* requires; a helper stands for its own prerequisite resource.  Drift is  *)
(* treated as presence, as the commands do.                                *)
(***************************************************************************)
EXTENDS Integers, Sequences, FiniteSets, SequencesExt, FiniteSetsExt

CONSTANTS
  Tools, Sources,
  Requires,      \* per tool, the helpers it requires
  Uses,          \* per tool, the sources its candidate declares
  Manual,        \* tools whose adapter cannot remove
  MaxSnapshots,  \* DefaultMaxSnapshots
  MaxInstalls, MaxAdmin, MaxFaults, MaxCommands   \* bounds

ASSUME RemovalAssumption ==
  /\ Tools \cap Sources = {}
  /\ Requires \in [Tools -> SUBSET Tools] /\ Uses \in [Tools -> SUBSET Sources]
  /\ Manual \subseteq Tools /\ MaxSnapshots \in Nat \ {0}

Resources == Tools \cup Sources

Own == INSTANCE PreparationJournal WITH Dependents <- Tools

VARIABLES
  host,        \* [tools, sources]: what is really there
  disk,        \* [tools, owned]: the state file
  snaps,       \* tools of the kept snapshots, newest first
  installing,  \* the tool an install that saved its snapshot is for
  cmd,         \* the remove or undo under way, with its copy of the state
  ours,        \* resources on the host that depengine put there
  spent        \* [installs, admin, faults, commands]: use of the bounds

vars == <<host, disk, snaps, installing, cmd, ours, spent>>

\* A tool has no record, one as a dependency only, or one as a root.
NoTools == [t \in Tools |-> "none"]

Tracked(st) == {t \in Tools : st.tools[t] # "none"}

Idle == [kind |-> "idle", all |-> FALSE, requested |-> {}, todo |-> {}, gone |-> {},
         mem |-> [tools |-> NoTools, owned |-> Own!NoneOwned], stack |-> <<>>,
         failed |-> FALSE, snap |-> NoTools]

Init ==
  /\ host = [tools |-> [t \in Tools |-> "absent"], sources |-> {}]
  /\ disk = [tools |-> NoTools, owned |-> Own!NoneOwned]
  /\ snaps = <<>> /\ installing = "nothing" /\ cmd = Idle /\ ours = {}
  /\ spent = [installs |-> 0, admin |-> 0, faults |-> 0, commands |-> 0]

Spend(kind, bound) == spent[kind] < bound /\ spent' = [spent EXCEPT ![kind] = @ + 1]

Faulty == Spend("faults", MaxFaults)

(***************************************************************************)
(* install: a snapshot of the state, and a run.  The run is the subject of *)
(* Scheduling and PreparationExecutor; here it succeeds as one step.  The  *)
(* two take the lock one after the other.                                  *)
(***************************************************************************)
Prune(all) == SubSeq(all, 1, Min({MaxSnapshots, Len(all)}))

\* The age limit may drop more of the oldest.
SaveSnapshot(t) ==
  /\ installing = "nothing" /\ cmd.kind = "idle"
  /\ Spend("installs", MaxInstalls)
  /\ installing' = t
  /\ LET kept == Prune(<<disk.tools>> \o snaps)
     IN  \E n \in {1, Len(kept)} : snaps' = SubSeq(kept, 1, n)
  /\ UNCHANGED <<host, disk, cmd, ours>>

\* What an install of t runs: every tool it requires, directly or not.
Closure(t) ==
  {x \in Tools : \A S \in SUBSET Tools :
     t \in S /\ (\A y \in S : Requires[y] \subseteq S) => x \in S}

Needs(t) == Requires[t] \cup Uses[t]

OnHost == host.sources \cup {t \in Tools : host.tools[t] = "present"}

\* Every tool of the closure is claimed for, and root intent is sticky.
RunInstall ==
  /\ installing # "nothing" /\ cmd.kind = "idle"
  /\ LET run == Closure(installing)
         wanted == run \cup UNION {Needs(t) : t \in run}
         users(r) == {t \in run : r \in Needs(t)}
     IN  /\ host' = [tools |-> [t \in Tools |-> IF t \in run THEN "present" ELSE host.tools[t]],
                     sources |-> host.sources \cup (wanted \cap Sources)]
         /\ ours' = ours \cup (wanted \ OnHost)
         /\ disk' =
              [tools |-> [t \in Tools |->
                            IF t = installing THEN "root"
                            ELSE IF t \in run /\ disk.tools[t] = "none" THEN "dep"
                            ELSE disk.tools[t]],
               owned |-> [r \in Resources |->
                            IF users(r) = {} THEN disk.owned[r]
                            ELSE [Own!TrackOne(disk.owned[r], r \notin OnHost)
                                    EXCEPT !.deps = @ \cup users(r)]]]
  /\ installing' = "nothing"
  /\ UNCHANGED <<snaps, cmd, spent>>

(***************************************************************************)
(* The administrator, who never asks for the lock.                         *)
(***************************************************************************)
AdminUninstalls(t) ==
  /\ Spend("admin", MaxAdmin)
  /\ host.tools[t] = "present"
  /\ \E left \in {"absent", "broken"} : host' = [host EXCEPT !.tools[t] = left]
  /\ ours' = ours \ {t}
  /\ UNCHANGED <<disk, snaps, installing, cmd>>

\* A package or a source that was never depengine's: no record owns it yet.
AdminAdds(r) ==
  /\ Spend("admin", MaxAdmin)
  /\ disk.owned[r].own # "depengine" /\ r \notin OnHost
  /\ cmd.kind = "idle"
  /\ host' = IF r \in Sources THEN [host EXCEPT !.sources = @ \cup {r}]
             ELSE [host EXCEPT !.tools[r] = "present"]
  /\ UNCHANGED <<disk, snaps, installing, cmd, ours>>

AdminDropsSource(s) ==
  /\ Spend("admin", MaxAdmin)
  /\ s \in host.sources
  /\ host' = [host EXCEPT !.sources = @ \ {s}]
  /\ ours' = ours \ {s}
  /\ UNCHANGED <<disk, snaps, installing, cmd>>

(***************************************************************************)
(* forget: a record dropped, and its claims left.                          *)
(***************************************************************************)
Forget(t) ==
  /\ cmd.kind = "idle" /\ Spend("commands", MaxCommands)
  /\ disk.tools[t] # "none"
  /\ disk' = [disk EXCEPT !.tools[t] = "none"]
  /\ UNCHANGED <<host, snaps, installing, cmd, ours>>

(***************************************************************************)
(* remove.                                                                 *)
(***************************************************************************)
StartRemove(requested, all) ==
  /\ cmd.kind = "idle" /\ Spend("commands", MaxCommands)
  /\ all => requested = Tracked(disk)
  /\ requested # {}
  /\ cmd' = [Idle EXCEPT !.kind = "remove", !.all = all, !.requested = requested,
                         !.todo = requested, !.mem = disk]
  /\ UNCHANGED <<host, disk, snaps, installing, ours>>

PrerequisiteDependents(t) == cmd.mem.owned[t].deps

Blockers(t) == PrerequisiteDependents(t) \ cmd.requested

Visit(t, auto) == [tool |-> t, auto |-> auto, step |-> "verify", sources |-> {}, helpers |-> {}]

\* Mutant: whoever else needs the helper is not looked at.
VisitedUnblocked(t) ==
  IF cmd.mem.tools[t] = "none" THEN [cmd EXCEPT !.failed = @ \/ (~cmd.all /\ t \notin cmd.gone)]
  ELSE [cmd EXCEPT !.stack = <<Visit(t, FALSE)>>]

\* removeSingleTool: a tool an earlier visit removed is done, --all skips it.
Visited(t) ==
  IF cmd.mem.tools[t] = "none" THEN [cmd EXCEPT !.failed = @ \/ (~cmd.all /\ t \notin cmd.gone)]
  ELSE IF Blockers(t) # {} THEN [cmd EXCEPT !.failed = TRUE]
  ELSE [cmd EXCEPT !.stack = <<Visit(t, FALSE)>>]

Considered(t) ==
  CASE cmd.kind = "remove" -> Visited(t)
    [] cmd.kind = "undo"   -> [cmd EXCEPT !.stack = <<Visit(t, FALSE)>>]

NextTool ==
  /\ cmd.kind # "idle" /\ cmd.stack = <<>>
  /\ \E t \in cmd.todo : cmd' = [Considered(t) EXCEPT !.todo = @ \ {t}]
  /\ UNCHANGED <<host, disk, snaps, installing, ours, spent>>

Top == Last(cmd.stack)

At(step) == cmd.stack # <<>> /\ Top.step = step

\* The frame on top goes on, or is left with what the command is by then.
Goto(c, step) == [c EXCEPT !.stack[Len(c.stack)].step = step]
Popped(c)     == [c EXCEPT !.stack = Front(@)]

Failing(c) == [Popped(c) EXCEPT !.failed = TRUE]

\* ReleaseDependentResources: depengine's own that lost its last dependent.
Released(owned, t) == [r \in Resources |-> [owned[r] EXCEPT !.deps = @ \ {t}]]

Removable(owned, t) ==
  {r \in Resources : owned[r].own = "depengine" /\ owned[r].deps = {t}}

Zero(owned, r) == owned[r].own = "depengine" /\ owned[r].deps = {}

Dropped(owned, rs) ==
  [r \in Resources |-> IF r \in rs THEN [own |-> "none", deps |-> {}] ELSE owned[r]]

\* The target is gone: undo has seen to it, remove releases its resources.
Gone(c) ==
  LET t == Last(c.stack).tool
      free == Removable(c.mem.owned, t)
      on == [c EXCEPT !.gone = @ \cup {t}]
  IN  IF c.kind = "undo" THEN Popped(on)
      ELSE [Goto(on, "sources") EXCEPT
              !.mem.owned = Released(@, t),
              !.stack[Len(c.stack)].sources = free \cap Sources,
              !.stack[Len(c.stack)].helpers = free \cap Tools]

\* The target is observed; a failed observation is no permission to remove.
VerifyTarget ==
  /\ At("verify")
  /\ \/ /\ cmd' = CASE host.tools[Top.tool] = "absent" -> Gone(cmd)
                    [] host.tools[Top.tool] = "broken" -> Failing(cmd)
                    [] OTHER -> IF Top.tool \in Manual THEN Failing(cmd) ELSE Goto(cmd, "host")
        /\ UNCHANGED spent
     \/ /\ Faulty /\ cmd' = Failing(cmd)
  /\ UNCHANGED <<host, disk, snaps, installing, ours>>

\* The adapter's Remove; one that fails may have gone any part of the way.
RemoveTarget ==
  /\ At("host")
  /\ \/ /\ cmd' = Gone(cmd) /\ host' = [host EXCEPT !.tools[Top.tool] = "absent"]
        /\ ours' = ours \ {Top.tool}
        /\ UNCHANGED spent
     \/ /\ Faulty /\ cmd' = Failing(cmd)
        /\ \E left \in {"absent", "broken", host.tools[Top.tool]} :
             /\ host.tools[Top.tool] = "absent" => left = "absent"
             /\ host' = [host EXCEPT !.tools[Top.tool] = left]
             /\ ours' = IF left = "present" THEN ours ELSE ours \ {Top.tool}
  /\ UNCHANGED <<disk, snaps, installing>>

\* Mutant: records without dependents go with the tool.
UntrackedForgetting(c) ==
  [Goto(c, "helpers") EXCEPT
     !.mem.tools[Last(c.stack).tool] = "none",
     !.mem.owned = Dropped(@, {r \in Resources : Zero(@, r)})]

\* The tool loses its record whatever became of its sources, and its own
\* ownership record as a helper if nobody depends on it.
Untracked(c) ==
  LET t == Last(c.stack).tool IN
  [Goto(c, "helpers") EXCEPT
     !.mem.tools[t] = "none",
     !.mem.owned = IF Zero(@, t) THEN Dropped(@, {t}) ELSE @]

\* Sources are removed one by one, and their records go together at the end.
CleanupSource ==
  /\ At("sources")
  /\ LET gone == Top.sources \cap host.sources IN
     \/ /\ gone # {}
        /\ \E s \in gone : host' = [host EXCEPT !.sources = @ \ {s}] /\ ours' = ours \ {s}
        /\ UNCHANGED <<cmd, spent>>
     \/ /\ gone = {}
        /\ cmd' = Untracked([cmd EXCEPT !.mem.owned = Dropped(@, Top.sources)])
        /\ UNCHANGED <<host, ours, spent>>
     \/ /\ gone # {} /\ Faulty
        /\ cmd' = Untracked([cmd EXCEPT !.failed = TRUE])
        /\ UNCHANGED <<host, ours>>
  /\ UNCHANGED <<disk, snaps, installing>>

\* Mutant: the record of a helper removed by name stays.
AfterHelperKept(c, h) ==
  CASE ~Zero(c.mem.owned, h) \/ h \in c.requested \cup c.gone \/ c.mem.tools[h] # "dep" -> c
    [] OTHER -> [c EXCEPT !.stack = Append(@, Visit(h, TRUE))]

\* cleanupReleasedPrerequisites, for one helper the tool left without dependents.
AfterHelper(c, h) ==
  LET owned == c.mem.owned IN
  CASE owned[h].own = "none" -> c
    [] owned[h].own # "none" /\ ~Zero(owned, h) -> [c EXCEPT !.failed = TRUE]
    [] Zero(owned, h) /\ h \in c.gone -> [c EXCEPT !.mem.owned = Dropped(@, {h})]
    [] Zero(owned, h) /\ h \notin c.gone /\ h \in c.requested -> c
    [] OTHER -> IF c.mem.tools[h] = "none" THEN [c EXCEPT !.failed = TRUE]
                ELSE IF c.mem.tools[h] = "root" THEN c
                ELSE [c EXCEPT !.stack = Append(@, Visit(h, TRUE))]

CleanupHelpers ==
  /\ At("helpers")
  /\ IF Top.helpers = {} THEN cmd' = Popped(cmd)
     ELSE \E h \in Top.helpers :
            cmd' = AfterHelper([cmd EXCEPT !.stack[Len(cmd.stack)].helpers = @ \ {h}], h)
  /\ UNCHANGED <<host, disk, snaps, installing, ours, spent>>

(***************************************************************************)
(* undo: the tools a snapshot lacks are removed, and the snapshot's tools  *)
(* are the state.  Claims are not touched.  A path that names no file is   *)
(* read as an empty snapshot; snapshots never change, so reading one       *)
(* before the lock is taken is reading it now.                             *)
(***************************************************************************)
Added(snap) == {t \in Tracked(disk) : snap[t] = "none"}

StartUndo ==
  /\ cmd.kind = "idle" /\ Spend("commands", MaxCommands)
  /\ \E snap \in Range(snaps) \cup {NoTools} :
       /\ Added(snap) # {}
       /\ cmd' = [Idle EXCEPT !.kind = "undo", !.requested = Added(snap),
                              !.todo = Added(snap), !.mem = disk, !.snap = snap]
  /\ UNCHANGED <<host, disk, snaps, installing, ours>>

\* Mutant: the snapshot wins even where a removal failed.
MergeForgetsFailed(c) == c.snap

MergeUndoTools(c) ==
  [t \in Tools |-> IF c.snap[t] = "none" /\ t \in c.requested \ c.gone THEN c.mem.tools[t] ELSE c.snap[t]]

(***************************************************************************)
(* The end of a command, and its crash.                                    *)
(***************************************************************************)
Outcome(c) == IF c.kind = "undo" THEN [c.mem EXCEPT !.tools = MergeUndoTools(c)] ELSE c.mem

Ending == cmd.kind # "idle" /\ cmd.stack = <<>> /\ cmd.todo = {}

Save ==
  /\ Ending
  /\ \/ disk' = Outcome(cmd) /\ UNCHANGED spent
     \/ Faulty /\ UNCHANGED disk
  /\ cmd' = Idle
  /\ UNCHANGED <<host, snaps, installing, ours>>

Crash ==
  /\ cmd.kind # "idle" /\ Faulty
  /\ cmd' = Idle
  /\ UNCHANGED <<host, disk, snaps, installing, ours>>

Next ==
  \/ \E t \in Tools : SaveSnapshot(t) \/ AdminUninstalls(t) \/ Forget(t)
  \/ RunInstall \/ \E r \in Resources : AdminAdds(r)
  \/ \E s \in Sources : AdminDropsSource(s)
  \/ \E requested \in SUBSET Tools, all \in BOOLEAN : StartRemove(requested, all)
  \/ NextTool \/ VerifyTarget \/ RemoveTarget \/ CleanupSource \/ CleanupHelpers
  \/ StartUndo \/ Save \/ Crash

Spec == Init /\ [][Next]_vars

(***************************************************************************)
(* Properties.                                                             *)
(***************************************************************************)
\* A source depengine added and that is still there has a record on disk,
\* whatever command failed or died on its way.
NothingForgotten ==
  \A s \in ours \cap host.sources : disk.owned[s].own = "depengine"

\* A record goes only when its tool is gone from the host, unless the user
\* said to forget it: a removal that failed, half failed or was never tried
\* leaves the tool to the next command.
TrackedUntilGone ==
  [][cmd.kind # "idle" => \A t \in Tracked(disk) \ Tracked(disk') : host.tools[t] = "absent"]_vars

Taken == (OnHost \ OnHost') \cap Resources

\* remove takes from the host only what the user named or what depengine put
\* there for tools that are gone, never a root and never what was found there;
\* and a shared resource only when every tool that needs it is to go in the
\* same command.
TakesOnlyItsOwn ==
  [][RemoveTarget \/ CleanupSource =>
       \A r \in Taken : cmd.kind = "remove" =>
         /\ \/ r \in cmd.requested
            \/ r \in ours /\ (r \in Tools => cmd.mem.tools[r] = "dep")
         /\ cmd.mem.owned[r].deps \subseteq cmd.requested]_vars

\* A remove that ends well has removed all it was asked to, and what depengine
\* had installed or added for those tools alone, but for helpers the user has
\* also asked for as roots.
CleanExit ==
  [][cmd.kind = "remove" /\ Save /\ ~cmd.failed /\ disk' = cmd.mem =>
       /\ \A t \in cmd.requested : disk'.tools[t] = "none"
       /\ \A r \in Resources : Zero(disk'.owned, r) /\ ~Zero(disk.owned, r) =>
            r \in Tools /\ disk'.tools[r] = "root"]_vars

=============================================================================
