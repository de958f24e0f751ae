----------------------------- MODULE RemovalProofs -----------------------------
(***************************************************************************)
(* remove, undo and forget, for every set of tools and sources, whatever   *)
(* they require of each other, and any number of installs, commands,       *)
(* failures and acts of the administrator.                                 *)
(***************************************************************************)
EXTENDS Removal, TLAPS

(***************************************************************************)
(* Types.                                                                  *)
(***************************************************************************)
Records == [Tools -> {"none", "dep", "root"}]

States == [tools : Records, owned : [Resources -> Own!OwnedState]]

Hosts == [tools : [Tools -> {"absent", "broken", "present"}], sources : SUBSET Sources]

Frames == [tool : Tools, auto : BOOLEAN, step : {"verify", "host", "sources", "helpers"},
           sources : SUBSET Sources, helpers : SUBSET Tools]

Commands == [kind : {"idle", "remove", "undo"}, all : BOOLEAN, requested : SUBSET Tools,
             todo : SUBSET Tools, gone : SUBSET Tools, mem : States, stack : Seq(Frames),
             failed : BOOLEAN, snap : Records]

Types ==
  /\ host \in Hosts /\ disk \in States /\ cmd \in Commands /\ snaps \in Seq(Records)
  /\ installing \in Tools \cup {"nothing"} /\ ours \subseteq Resources

(***************************************************************************)
(* What an operation makes of a command.                                   *)
(***************************************************************************)
Becomes(c, gone, mem, stack, failed) ==
  [kind |-> c.kind, all |-> c.all, requested |-> c.requested, todo |-> c.todo,
   gone |-> gone, mem |-> mem, stack |-> stack, failed |-> failed, snap |-> c.snap]

LEMMA BecomesFields ==
  ASSUME NEW c, NEW gone, NEW mem, NEW stack, NEW failed
  PROVE  LET d == Becomes(c, gone, mem, stack, failed) IN
         /\ d.kind = c.kind /\ d.all = c.all /\ d.requested = c.requested /\ d.todo = c.todo
         /\ d.snap = c.snap /\ d.gone = gone /\ d.mem = mem /\ d.stack = stack /\ d.failed = failed
         /\ (c \in Commands /\ gone \in SUBSET Tools /\ mem \in States /\ stack \in Seq(Frames)
               /\ failed \in BOOLEAN => d \in Commands)
  BY DEF Becomes, Commands

LEMMA FrontParts ==
  ASSUME NEW s \in Seq(Frames), s # <<>>
  PROVE  /\ Front(s) \in Seq(Frames) /\ Len(Front(s)) = Len(s) - 1
         /\ \A i \in 1..Len(s) - 1 : Front(s)[i] = s[i]
  BY DEF Front

LEMMA TopReplaced ==
  ASSUME NEW s \in Seq(Frames), s # <<>>, NEW f \in Frames
  PROVE  LET r == [s EXCEPT ![Len(s)] = f] IN
         /\ r \in Seq(Frames) /\ Len(r) = Len(s) /\ r # <<>> /\ Last(r) = f
         /\ \A i \in 1..Len(s) : r[i] = (IF i = Len(s) THEN f ELSE s[i])
  BY DEF Last

LEMMA Pushed ==
  ASSUME NEW s \in Seq(Frames), NEW f \in Frames
  PROVE  LET r == Append(s, f) IN
         /\ r \in Seq(Frames) /\ Len(r) = Len(s) + 1 /\ r # <<>> /\ Last(r) = f
         /\ \A i \in 1..Len(s) : r[i] = s[i]
  BY DEF Last

LEMMA TopFrame ==
  ASSUME NEW c \in Commands, c.stack # <<>>
  PROVE  /\ c.stack \in Seq(Frames) /\ Len(c.stack) \in Nat /\ Len(c.stack) > 0
         /\ Last(c.stack) = c.stack[Len(c.stack)] /\ Last(c.stack) \in Frames
         /\ Last(c.stack).tool \in Tools
<1>1. c.stack \in Seq(Frames)
  BY DEF Commands
<1>2. Len(c.stack) \in Nat /\ Len(c.stack) > 0 /\ c.stack[Len(c.stack)] \in Frames
  BY <1>1
<1> QED BY <1>1, <1>2 DEF Last, Frames

LEMMA FailedBecomes ==
  ASSUME NEW c \in Commands, NEW b
  PROVE  [c EXCEPT !.failed = b] = Becomes(c, c.gone, c.mem, c.stack, b)
  BY DEF Becomes, Commands

LEMMA GotoBecomes ==
  ASSUME NEW c \in Commands, c.stack # <<>>, NEW step
  PROVE  Goto(c, step) =
           Becomes(c, c.gone, c.mem, [c.stack EXCEPT ![Len(c.stack)] = [@ EXCEPT !.step = step]], c.failed)
  BY DEF Goto, Becomes, Commands

LEMMA PoppedBecomes ==
  ASSUME NEW c \in Commands, c.stack # <<>>
  PROVE  /\ Popped(c) = Becomes(c, c.gone, c.mem, Front(c.stack), c.failed)
         /\ Failing(c) = Becomes(c, c.gone, c.mem, Front(c.stack), TRUE)
<1> DEFINE p == Popped(c)
<1>1. p = Becomes(c, c.gone, c.mem, Front(c.stack), c.failed)
  BY DEF Popped, Becomes, Commands
<1>2. p \in Commands
  <2>1. c.stack \in Seq(Frames) /\ c.gone \in SUBSET Tools /\ c.mem \in States /\ c.failed \in BOOLEAN
    BY DEF Commands
  <2> QED BY <1>1, <2>1, FrontParts, BecomesFields
<1>3. Failing(c) = [p EXCEPT !.failed = TRUE]
  BY DEF Failing
<1> HIDE DEF p
<1>4. Failing(c) = Becomes(p, p.gone, p.mem, p.stack, TRUE)
  BY <1>2, <1>3, FailedBecomes
<1> QED BY <1>1, <1>4 DEF Becomes, p

LEMMA GoneUndo ==
  ASSUME NEW c \in Commands, c.stack # <<>>, c.kind = "undo"
  PROVE  Gone(c) = Becomes(c, c.gone \cup {Last(c.stack).tool}, c.mem, Front(c.stack), c.failed)
  BY DEF Gone, Popped, Becomes, Commands

LEMMA GoneRemove ==
  ASSUME NEW c \in Commands, c.stack # <<>>, c.kind = "remove"
  PROVE  LET t == Last(c.stack).tool
             free == Removable(c.mem.owned, t)
             f == [Last(c.stack) EXCEPT !.step = "sources", !.sources = free \cap Sources,
                                        !.helpers = free \cap Tools]
         IN Gone(c) = Becomes(c, c.gone \cup {t}, [c.mem EXCEPT !.owned = Released(@, t)],
                              [c.stack EXCEPT ![Len(c.stack)] = f], c.failed)
  BY DEF Gone, Goto, Becomes, Commands, Last

LEMMA UntrackedBecomes ==
  ASSUME NEW c \in Commands, c.stack # <<>>
  PROVE  LET t == Last(c.stack).tool
             o == IF Zero(c.mem.owned, t) THEN Dropped(c.mem.owned, {t}) ELSE c.mem.owned
         IN Untracked(c) =
              Becomes(c, c.gone, [tools |-> [c.mem.tools EXCEPT ![t] = "none"], owned |-> o],
                      [c.stack EXCEPT ![Len(c.stack)] = [Last(c.stack) EXCEPT !.step = "helpers"]],
                      c.failed)
<1> DEFINE t == Last(c.stack).tool
           o == IF Zero(c.mem.owned, t) THEN Dropped(c.mem.owned, {t}) ELSE c.mem.owned
           k == [c.mem.tools EXCEPT ![t] = "none"]
           f == [Last(c.stack) EXCEPT !.step = "helpers"]
           stack == [c.stack EXCEPT ![Len(c.stack)] = f]
           g == Becomes(c, c.gone, c.mem, stack, c.failed)
<1>1. Goto(c, "helpers") = g
  BY GotoBecomes DEF Last
<1>2. g.mem = c.mem /\ g.stack = stack
  BY DEF Becomes
<1>3. c.mem \in States /\ c.gone \in SUBSET Tools /\ c.failed \in BOOLEAN
  BY DEF Commands
<1>4. f \in Frames
  BY TopFrame DEF Frames
<1>5. stack \in Seq(Frames)
  <2> HIDE DEF f
  <2> QED BY <1>4, TopFrame, TopReplaced
<1>6. g \in Commands
  <2> HIDE DEF stack
  <2> QED BY <1>3, <1>5, BecomesFields
<1>7. Untracked(c) = [g EXCEPT !.mem.tools[t] = "none", !.mem.owned = o]
  BY <1>1, <1>2 DEF Untracked
<1> HIDE DEF g, o, stack
<1>8. [g EXCEPT !.mem.tools[t] = "none", !.mem.owned = o]
        = [g EXCEPT !.mem = [tools |-> k, owned |-> o]]
  <2>1. [g.mem EXCEPT !.tools = k, !.owned = o] = [tools |-> k, owned |-> o]
    <3>1. g.mem \in [tools : {c.mem.tools, k}, owned : {c.mem.owned, o}]
      BY <1>2, <1>3 DEF States
    <3> DEFINE m == g.mem
               n == [m EXCEPT !.tools = k]
    <3> HIDE DEF k, m
    <3>2. m \in [tools : {c.mem.tools, k}, owned : {c.mem.owned, o}]
      BY <3>1 DEF m
    <3>3. n \in [tools : {c.mem.tools, k}, owned : {c.mem.owned, o}] /\ n.tools = k
      BY <3>2
    <3> HIDE DEF n
    <3>4. [n EXCEPT !.owned = o] = [tools |-> k, owned |-> o]
      BY <3>3
    <3> QED BY <3>4 DEF m, n
  <2>2. g.mem.tools = c.mem.tools
    BY <1>2
  <2>3. [g EXCEPT !.mem.tools[t] = "none", !.mem.owned = o]
          = [g EXCEPT !.mem = [g.mem EXCEPT !.tools = k, !.owned = o]]
    BY <2>2, <1>6 DEF Commands, States
  <2> QED BY <2>1, <2>3
<1>9. [g EXCEPT !.mem = [tools |-> k, owned |-> o]]
        = Becomes(g, g.gone, [tools |-> k, owned |-> o], g.stack, g.failed)
  <2> HIDE DEF k
  <2> QED BY <1>6 DEF Commands, Becomes
<1>10. Becomes(g, g.gone, [tools |-> k, owned |-> o], stack, g.failed)
         = Becomes(c, c.gone, [tools |-> k, owned |-> o], stack, c.failed)
  <2> HIDE DEF k
  <2> QED BY DEF Becomes, g
<1> QED BY <1>2, <1>7, <1>8, <1>9, <1>10 DEF o, stack

LEMMA DroppingBecomes ==
  ASSUME NEW c \in Commands, NEW rs
  PROVE  [c EXCEPT !.mem.owned = Dropped(@, rs)]
           = Becomes(c, c.gone, [c.mem EXCEPT !.owned = Dropped(@, rs)], c.stack, c.failed)
  BY DEF Becomes, Commands

LEMMA SkippingBecomes ==
  ASSUME NEW c \in Commands, c.stack # <<>>, NEW h
  PROVE  [c EXCEPT !.stack[Len(c.stack)].helpers = @ \ {h}]
           = Becomes(c, c.gone, c.mem,
                     [c.stack EXCEPT ![Len(c.stack)] = [Last(c.stack) EXCEPT !.helpers = @ \ {h}]],
                     c.failed)
<1> DEFINE n == Len(c.stack)
           x == c.stack[n].helpers \ {h}
<1>1. c.stack[n] = Last(c.stack) /\ c.stack[n] \in Frames
  BY DEF Commands, Last
<1>2. [c EXCEPT !.stack[n].helpers = x]
        = [c EXCEPT !.stack = [c.stack EXCEPT ![n] = [c.stack[n] EXCEPT !.helpers = x]]]
  <2> HIDE DEF x
  <2> QED BY DEF Commands
<1>3. [c EXCEPT !.stack = [c.stack EXCEPT ![n] = [c.stack[n] EXCEPT !.helpers = x]]]
        = Becomes(c, c.gone, c.mem, [c.stack EXCEPT ![n] = [c.stack[n] EXCEPT !.helpers = x]], c.failed)
  <2> HIDE DEF x
  <2> QED BY DEF Commands, Becomes
<1> QED BY <1>1, <1>2, <1>3

LEMMA PushingBecomes ==
  ASSUME NEW c \in Commands, NEW f
  PROVE  [c EXCEPT !.stack = Append(@, f)] = Becomes(c, c.gone, c.mem, Append(c.stack, f), c.failed)
  BY DEF Becomes, Commands

LEMMA ReleasedParts ==
  ASSUME NEW o \in [Resources -> Own!OwnedState], NEW t
  PROVE  /\ Released(o, t) \in [Resources -> Own!OwnedState]
         /\ \A r \in Resources : /\ Released(o, t)[r].own = o[r].own
                                 /\ Released(o, t)[r].deps = o[r].deps \ {t}
<1>1. \A r \in Resources : /\ [o[r] EXCEPT !.deps = @ \ {t}] \in Own!OwnedState
                           /\ [o[r] EXCEPT !.deps = @ \ {t}].own = o[r].own
                           /\ [o[r] EXCEPT !.deps = @ \ {t}].deps = o[r].deps \ {t}
  BY DEF Own!OwnedState
<1> QED BY <1>1 DEF Released

LEMMA DroppedParts ==
  ASSUME NEW o \in [Resources -> Own!OwnedState], NEW rs
  PROVE  /\ Dropped(o, rs) \in [Resources -> Own!OwnedState]
         /\ \A r \in Resources :
              /\ r \in rs => Dropped(o, rs)[r].own = "none" /\ Dropped(o, rs)[r].deps = {}
              /\ r \notin rs => Dropped(o, rs)[r] = o[r]
<1>1. [own |-> "none", deps |-> {}] \in Own!OwnedState
  BY DEF Own!OwnedState
<1> QED BY <1>1 DEF Dropped

(***************************************************************************)
(* The inductive invariant.  Of a command under way, by itself: only the   *)
(* frame on top is at a step that acts, what its copy of the state lacks   *)
(* has been seen to be gone, and what an acting frame may take is its own. *)
(***************************************************************************)
FrameSound(c, f) ==
  /\ f.step \in {"sources", "helpers"} => f.tool \in c.gone
  /\ f.step = "sources" => \A s \in f.sources : Zero(c.mem.owned, s)
  /\ c.kind = "undo" => f.step \in {"verify", "host"}
  /\ c.kind = "remove" /\ f.auto /\ f.step \in {"verify", "host"}
       => c.mem.tools[f.tool] = "dep" /\ Zero(c.mem.owned, f.tool)
  /\ c.kind = "remove" /\ ~f.auto
       => f.tool \in c.requested /\ c.mem.owned[f.tool].deps \subseteq c.requested

MemSound(c) ==
  /\ \A r \in Resources : c.mem.owned[r].own = "depengine" => disk.owned[r].own = "depengine"
  /\ \A t \in Tracked(disk) : c.mem.tools[t] = "none" => t \in c.gone
  /\ c.kind = "undo" => c.mem = disk /\ c.requested = Added(c.snap)
  /\ c.todo \subseteq c.requested /\ (c.all => c.requested = Tracked(disk))

Sound(c) ==
  /\ MemSound(c)
  /\ \A i \in 1..Len(c.stack) : /\ i < Len(c.stack) => c.stack[i].step = "helpers"
                                /\ FrameSound(c, c.stack[i])

\* The tool that is being removed.
Busy(c, t) ==
  c.stack # <<>> /\ Last(c.stack).tool = t /\ Last(c.stack).step # "helpers"

\* What has lost its last dependent and is still recorded will be looked at.
Pending(c, r) ==
  \/ r \in Tools /\ c.mem.tools[r] = "root"
  \/ Busy(c, r)
  \/ c.stack # <<>> /\ Last(c.stack).step = "sources" /\ r \in Last(c.stack).sources
  \/ \E i \in 1..Len(c.stack) :
       c.stack[i].step \in {"sources", "helpers"} /\ r \in c.stack[i].helpers
  \/ r \in c.todo /\ (c.mem.tools[r] # "none" \/ (r \notin c.gone /\ ~c.all))

\* A remove that has not failed so far has done or will do all it was asked to.
Complete(c) ==
  c.kind = "remove" /\ ~c.failed =>
    /\ \A t \in c.requested : t \in c.todo \/ c.mem.tools[t] = "none" \/ Busy(c, t)
    /\ \A t \in c.requested \ c.todo : c.mem.tools[t] = "none" => t \in c.gone
    /\ \A r \in Resources : Zero(c.mem.owned, r) /\ ~Zero(disk.owned, r) => Pending(c, r)

\* Later in the same command.
Later(c, d) ==
  /\ d.kind = c.kind /\ d.all = c.all /\ d.requested = c.requested /\ d.snap = c.snap
  /\ c.gone \subseteq d.gone /\ d.todo \subseteq c.todo
  /\ \A r \in Resources : /\ d.mem.owned[r].deps \subseteq c.mem.owned[r].deps
                          /\ d.mem.owned[r].own \in {c.mem.owned[r].own, "none"}
  /\ \A t \in Tools : d.mem.tools[t] = c.mem.tools[t] \/ (d.mem.tools[t] = "none" /\ t \in d.gone)
  /\ d.kind = "undo" => d.mem = c.mem

LEMMA LaterFrame ==
  ASSUME NEW c, NEW d, Later(c, d), NEW f \in Frames, f.step = "helpers", FrameSound(c, f)
  PROVE  FrameSound(d, f)
  BY DEF Later, FrameSound, Frames, Resources

LEMMA LaterMem ==
  ASSUME NEW c, NEW d, Later(c, d), MemSound(c)
  PROVE  MemSound(d)
  BY DEF Later, MemSound, Tracked

LEMMA ReplacedSound ==
  ASSUME NEW c \in Commands, NEW d \in Commands, Sound(c), Later(c, d), c.stack # <<>>,
         NEW f \in Frames, d.stack = [c.stack EXCEPT ![Len(c.stack)] = f], FrameSound(d, f)
  PROVE  Sound(d)
<1>1. /\ Len(d.stack) = Len(c.stack) /\ Len(c.stack) \in Nat /\ c.stack \in Seq(Frames)
      /\ \A i \in 1..Len(c.stack) : d.stack[i] = (IF i = Len(c.stack) THEN f ELSE c.stack[i])
  BY TopFrame, TopReplaced
<1>2. ASSUME NEW i \in 1..Len(c.stack)
      PROVE  (i < Len(c.stack) => d.stack[i].step = "helpers") /\ FrameSound(d, d.stack[i])
  <2>1. CASE i = Len(c.stack)
    BY <1>1, <2>1
  <2>2. CASE i # Len(c.stack)
    <3>1. i < Len(c.stack) /\ d.stack[i] = c.stack[i] /\ c.stack[i] \in Frames
      BY <1>1, <2>2
    <3>2. c.stack[i].step = "helpers" /\ FrameSound(c, c.stack[i])
      BY <3>1 DEF Sound
    <3> QED BY <3>1, <3>2, LaterFrame
  <2> QED BY <2>1, <2>2
<1> QED BY <1>1, <1>2, LaterMem DEF Sound

LEMMA PoppedSound ==
  ASSUME NEW c \in Commands, NEW d \in Commands, Sound(c), Later(c, d), c.stack # <<>>,
         d.stack = Front(c.stack)
  PROVE  Sound(d)
<1>1. /\ Len(d.stack) = Len(c.stack) - 1 /\ Len(c.stack) \in Nat /\ c.stack \in Seq(Frames)
      /\ \A i \in 1..Len(c.stack) - 1 : d.stack[i] = c.stack[i]
  BY TopFrame, FrontParts
<1>2. ASSUME NEW i \in 1..Len(d.stack) PROVE d.stack[i].step = "helpers" /\ FrameSound(d, d.stack[i])
  <2>1. i \in 1..Len(c.stack) /\ i < Len(c.stack) /\ d.stack[i] = c.stack[i] /\ c.stack[i] \in Frames
    BY <1>1
  <2>2. c.stack[i].step = "helpers" /\ FrameSound(c, c.stack[i])
    BY <2>1 DEF Sound
  <2> QED BY <2>1, <2>2, LaterFrame
<1> QED BY <1>1, <1>2, LaterMem DEF Sound

LEMMA PushedSound ==
  ASSUME NEW c \in Commands, NEW d \in Commands, Sound(c), Later(c, d), c.stack # <<>>,
         Last(c.stack).step = "helpers", NEW f \in Frames, d.stack = Append(c.stack, f),
         FrameSound(d, f)
  PROVE  Sound(d)
<1>1. /\ Len(d.stack) = Len(c.stack) + 1 /\ Len(c.stack) \in Nat /\ c.stack \in Seq(Frames)
      /\ \A i \in 1..Len(c.stack) : d.stack[i] = c.stack[i]
      /\ d.stack[Len(c.stack) + 1] = f
      /\ c.stack[Len(c.stack)].step = "helpers"
  BY TopFrame, Pushed
<1>2. ASSUME NEW i \in 1..Len(d.stack)
      PROVE  (i < Len(d.stack) => d.stack[i].step = "helpers") /\ FrameSound(d, d.stack[i])
  <2>1. CASE i = Len(c.stack) + 1
    BY <1>1, <2>1
  <2>2. CASE i # Len(c.stack) + 1
    <3>1. i \in 1..Len(c.stack) /\ d.stack[i] = c.stack[i] /\ c.stack[i] \in Frames
      BY <1>1, <2>2
    <3>2. c.stack[i].step = "helpers" /\ FrameSound(c, c.stack[i])
      BY <1>1, <3>1 DEF Sound
    <3> QED BY <3>1, <3>2, LaterFrame
  <2> QED BY <2>1, <2>2
<1> QED BY <1>2, LaterMem DEF Sound

(***************************************************************************)
(* Each operation keeps the invariant of the command.                      *)
(***************************************************************************)
Acting(c) == c.stack # <<>> /\ Last(c.stack).step \in {"verify", "host"}

CommandInv(c) == c \in Commands /\ Sound(c) /\ Complete(c)

LEMMA TopSound ==
  ASSUME NEW c \in Commands, Sound(c), c.stack # <<>>
  PROVE  FrameSound(c, Last(c.stack))
  BY TopFrame DEF Sound

LEMMA FailingSound ==
  ASSUME NEW c, CommandInv(c), c.stack # <<>>
  PROVE  CommandInv(Failing(c)) /\ Failing(c).gone = c.gone /\ Failing(c).kind = c.kind
                                /\ Failing(c).mem = c.mem
<1> DEFINE d == Failing(c)
<1>1. c \in Commands /\ c.gone \in SUBSET Tools /\ c.mem \in States /\ c.stack \in Seq(Frames)
  BY DEF CommandInv, Commands
<1> DEFINE b == TRUE
<1>2. d = Becomes(c, c.gone, c.mem, Front(c.stack), b)
  BY <1>1, PoppedBecomes
<1>a. b \in BOOLEAN /\ b
  OBVIOUS
<1> HIDE DEF b, d
<1>3. d \in Commands
  BY <1>1, <1>2, <1>a, FrontParts, BecomesFields
<1>4. Later(c, d) /\ d.stack = Front(c.stack) /\ d.failed = b /\ d.gone = c.gone /\ d.kind = c.kind
      /\ d.mem = c.mem
  BY <1>2, BecomesFields DEF Later
<1>b. d.failed = TRUE
  BY <1>4 DEF b
<1>5. Sound(d)
  BY <1>1, <1>3, <1>4, PoppedSound DEF CommandInv
<1>6. Complete(d)
  BY <1>b DEF Complete
<1> QED BY <1>3, <1>4, <1>5, <1>6 DEF CommandInv, d

LEMMA GotoHostSound ==
  ASSUME NEW c, CommandInv(c), Acting(c)
  PROVE  CommandInv(Goto(c, "host")) /\ Goto(c, "host").gone = c.gone
         /\ Goto(c, "host").kind = c.kind /\ Goto(c, "host").mem = c.mem
<1> DEFINE d == Goto(c, "host")
           f == [Last(c.stack) EXCEPT !.step = "host"]
<1>1. /\ c \in Commands /\ c.gone \in SUBSET Tools /\ c.mem \in States /\ c.stack \in Seq(Frames)
      /\ c.failed \in BOOLEAN /\ c.stack # <<>>
  BY DEF CommandInv, Commands, Acting
<1>2. f \in Frames /\ f.tool = Last(c.stack).tool /\ f.step = "host" /\ f.auto = Last(c.stack).auto
      /\ f.helpers = Last(c.stack).helpers
  BY <1>1, TopFrame DEF Frames
<1>3. d = Becomes(c, c.gone, c.mem, [c.stack EXCEPT ![Len(c.stack)] = f], c.failed)
  BY <1>1, GotoBecomes DEF Last
<1>4. FrameSound(c, Last(c.stack)) /\ Last(c.stack).step \in {"verify", "host"}
  BY <1>1, TopSound DEF CommandInv, Acting
<1> HIDE DEF f
<1>5. /\ [c.stack EXCEPT ![Len(c.stack)] = f] \in Seq(Frames)
      /\ Len([c.stack EXCEPT ![Len(c.stack)] = f]) = Len(c.stack)
      /\ [c.stack EXCEPT ![Len(c.stack)] = f] # <<>> /\ Last([c.stack EXCEPT ![Len(c.stack)] = f]) = f
      /\ \A i \in 1..Len(c.stack) :
            [c.stack EXCEPT ![Len(c.stack)] = f][i] = (IF i = Len(c.stack) THEN f ELSE c.stack[i])
  BY <1>1, <1>2, TopReplaced
<1>6. d \in Commands
  BY <1>1, <1>3, <1>5, BecomesFields
<1>7. Later(c, d) /\ d.stack = [c.stack EXCEPT ![Len(c.stack)] = f] /\ d.failed = c.failed
      /\ d.mem = c.mem /\ d.todo = c.todo /\ d.gone = c.gone /\ d.kind = c.kind
  BY <1>3, BecomesFields DEF Later
<1> HIDE DEF d
<1>8. FrameSound(d, f)
  BY <1>2, <1>4, <1>7 DEF FrameSound, Later
<1>9. Sound(d)
  BY <1>1, <1>2, <1>6, <1>7, <1>8, ReplacedSound DEF CommandInv
<1>10. \A t : Busy(c, t) => Busy(d, t)
  BY <1>2, <1>5, <1>7 DEF Busy
<1>11. \A r : Pending(c, r) => Pending(d, r)
  BY <1>1, <1>2, <1>4, <1>5, <1>7, <1>10, TopFrame DEF Pending, Later
<1>12. Complete(d)
  BY <1>7, <1>10, <1>11 DEF CommandInv, Complete, Later
<1> QED BY <1>6, <1>7, <1>9, <1>12 DEF CommandInv, d

LEMMA GoneUndoSound ==
  ASSUME NEW c, CommandInv(c), Acting(c), c.kind = "undo"
  PROVE  CommandInv(Gone(c)) /\ Gone(c).gone = c.gone \cup {Last(c.stack).tool}
                             /\ Gone(c).kind = c.kind /\ Gone(c).mem.owned = c.mem.owned
<1> DEFINE d == Gone(c)
           t == Last(c.stack).tool
<1>1. /\ c \in Commands /\ c.gone \in SUBSET Tools /\ c.mem \in States /\ c.stack \in Seq(Frames)
      /\ c.failed \in BOOLEAN /\ c.stack # <<>> /\ t \in Tools
  BY TopFrame DEF CommandInv, Commands, Acting
<1>2. d = Becomes(c, c.gone \cup {t}, c.mem, Front(c.stack), c.failed)
  BY <1>1, GoneUndo
<1> HIDE DEF d, t
<1>3. d \in Commands
  BY <1>1, <1>2, FrontParts, BecomesFields
<1>4. Later(c, d) /\ d.stack = Front(c.stack) /\ d.gone = c.gone \cup {t} /\ d.kind = c.kind /\ d.mem = c.mem
  BY <1>2, BecomesFields DEF Later
<1>5. Sound(d)
  BY <1>1, <1>3, <1>4, PoppedSound DEF CommandInv
<1> QED BY <1>3, <1>4, <1>5 DEF CommandInv, Complete, d, t

LEMMA GoneRemoveSound ==
  ASSUME NEW c, CommandInv(c), Acting(c), c.kind = "remove"
  PROVE  /\ CommandInv(Gone(c)) /\ Gone(c).gone = c.gone \cup {Last(c.stack).tool}
         /\ Gone(c).kind = c.kind
         /\ \A r \in Resources : Gone(c).mem.owned[r].own = c.mem.owned[r].own
<1> DEFINE d == Gone(c)
           t == Last(c.stack).tool
           free == Removable(c.mem.owned, t)
           f == [Last(c.stack) EXCEPT !.step = "sources", !.sources = free \cap Sources,
                                      !.helpers = free \cap Tools]
           m == [c.mem EXCEPT !.owned = Released(@, t)]
           stack == [c.stack EXCEPT ![Len(c.stack)] = f]
<1>1. /\ c \in Commands /\ c.gone \in SUBSET Tools /\ c.mem \in States /\ c.stack \in Seq(Frames)
      /\ c.failed \in BOOLEAN /\ c.stack # <<>> /\ t \in Tools
      /\ c.mem.owned \in [Resources -> Own!OwnedState]
  BY TopFrame DEF CommandInv, Commands, Acting, States
<1>2. d = Becomes(c, c.gone \cup {t}, m, stack, c.failed)
  BY <1>1, GoneRemove
<1>3. /\ f \in Frames /\ f.tool = t /\ f.step = "sources" /\ f.auto = Last(c.stack).auto
      /\ f.sources = free \cap Sources /\ f.helpers = free \cap Tools
  BY <1>1, TopFrame DEF Frames
<1>4. m \in States /\ m.tools = c.mem.tools /\ m.owned = Released(c.mem.owned, t)
  BY <1>1, ReleasedParts DEF States
<1>5. FrameSound(c, Last(c.stack)) /\ Last(c.stack).step \in {"verify", "host"}
  BY <1>1, TopSound DEF CommandInv, Acting
<1>6. \A r \in Resources : /\ r \in free <=> c.mem.owned[r].own = "depengine" /\ c.mem.owned[r].deps = {t}
                           /\ m.owned[r].own = c.mem.owned[r].own /\ m.owned[r].deps = c.mem.owned[r].deps \ {t}
  <2>1. \A r \in Resources : r \in free <=> c.mem.owned[r].own = "depengine" /\ c.mem.owned[r].deps = {t}
    BY DEF Removable
  <2> HIDE DEF m, t, free
  <2>2. \A r \in Resources : /\ Released(c.mem.owned, t)[r].own = c.mem.owned[r].own
                             /\ Released(c.mem.owned, t)[r].deps = c.mem.owned[r].deps \ {t}
    BY <1>1, ReleasedParts
  <2> QED BY <1>4, <2>1, <2>2
<1> HIDE DEF f, m, free
<1>7. /\ stack \in Seq(Frames) /\ Len(stack) = Len(c.stack) /\ stack # <<>> /\ Last(stack) = f
      /\ \A i \in 1..Len(c.stack) : stack[i] = (IF i = Len(c.stack) THEN f ELSE c.stack[i])
  BY <1>1, <1>3, TopReplaced
<1> HIDE DEF d, t
<1>8. d \in Commands
  BY <1>1, <1>2, <1>4, <1>7, BecomesFields
<1>9. /\ d.stack = stack /\ d.failed = c.failed /\ d.mem = m /\ d.todo = c.todo /\ d.kind = c.kind
      /\ d.gone = c.gone \cup {t} /\ d.requested = c.requested /\ d.all = c.all /\ d.snap = c.snap
  BY <1>2, BecomesFields
<1>10. Later(c, d)
  BY <1>4, <1>6, <1>9 DEF Later
<1>11. FrameSound(d, f)
  <2>1. \A s \in f.sources : Zero(m.owned, s)
    BY <1>3, <1>6 DEF Zero, Resources
  <2>2. ~f.auto => t \in c.requested /\ m.owned[t].deps \subseteq c.requested
    BY <1>1, <1>3, <1>5, <1>6 DEF FrameSound, Resources, t
  <2> QED BY <1>3, <1>9, <2>1, <2>2 DEF FrameSound
<1>12. Sound(d)
  BY <1>1, <1>3, <1>8, <1>9, <1>10, <1>11, ReplacedSound DEF CommandInv
<1>13. \A x : Busy(c, x) => Busy(d, x)
  BY <1>3, <1>7, <1>9 DEF Busy, t
<1>14. Busy(d, t)
  BY <1>3, <1>7, <1>9 DEF Busy
<1>15. ASSUME NEW r, Pending(c, r) PROVE Pending(d, r)
  <2>1. CASE r \in Tools /\ c.mem.tools[r] = "root"
    BY <1>4, <1>9, <2>1 DEF Pending
  <2>2. CASE Busy(c, r)
    BY <1>13, <2>2 DEF Pending
  <2>3. ASSUME NEW i \in 1..Len(c.stack), c.stack[i].step \in {"sources", "helpers"}, r \in c.stack[i].helpers
        PROVE  Pending(d, r)
    <3>1. i # Len(c.stack)
      BY <1>1, <1>5, <2>3, TopFrame
    <3> QED BY <1>7, <1>9, <2>3, <3>1 DEF Pending
  <2>4. CASE r \in c.todo /\ (c.mem.tools[r] # "none" \/ (r \notin c.gone /\ ~c.all))
    <3>1. CASE r = t
      BY <1>14, <3>1 DEF Pending
    <3>2. CASE r # t
      BY <1>4, <1>9, <2>4, <3>2 DEF Pending
    <3> QED BY <3>1, <3>2
  <2> QED BY <1>5, <1>15, <2>1, <2>2, <2>3, <2>4 DEF Pending
<1>16. ASSUME NEW r \in Resources, Zero(d.mem.owned, r), ~Zero(c.mem.owned, r) PROVE Pending(d, r)
  <2>1. r \in free
    BY <1>6, <1>9, <1>16 DEF Zero
  <2>2. CASE r \in Sources
    BY <1>3, <1>7, <1>9, <2>1, <2>2 DEF Pending
  <2>3. CASE r \in Tools
    BY <1>1, <1>3, <1>7, <1>9, <2>1, <2>3, TopFrame DEF Pending
  <2> QED BY <2>2, <2>3 DEF Resources
<1>17. Complete(d)
  BY <1>4, <1>9, <1>13, <1>15, <1>16 DEF CommandInv, Complete
<1> QED BY <1>4, <1>6, <1>8, <1>9, <1>12, <1>17 DEF CommandInv, d, t

\* The end of the visit of a tool, with the records of its sources or without.
LEMMA UntrackedSound ==
  ASSUME NEW c, CommandInv(c), c.stack # <<>>, Last(c.stack).step = "sources",
         c.kind = "remove", NEW e \in Commands,
         e.kind = c.kind, e.all = c.all, e.requested = c.requested, e.todo = c.todo,
         e.snap = c.snap, e.gone = c.gone, e.stack = c.stack, e.mem.tools = c.mem.tools,
         \A r \in Resources : \/ e.mem.owned[r] = c.mem.owned[r]
                              \/ e.mem.owned[r].own = "none" /\ e.mem.owned[r].deps = {},
         ~e.failed => /\ ~c.failed
                      /\ \A s \in Last(c.stack).sources : e.mem.owned[s].own = "none"
  PROVE  /\ CommandInv(Untracked(e)) /\ Untracked(e).gone = c.gone /\ Untracked(e).kind = c.kind
         /\ \A s \in Sources : Untracked(e).mem.owned[s] = e.mem.owned[s]
<1> DEFINE d == Untracked(e)
           t == Last(c.stack).tool
           o == IF Zero(e.mem.owned, t) THEN Dropped(e.mem.owned, {t}) ELSE e.mem.owned
           k == [e.mem.tools EXCEPT ![t] = "none"]
           m == [tools |-> k, owned |-> o]
           f == [Last(c.stack) EXCEPT !.step = "helpers"]
           stack == [c.stack EXCEPT ![Len(c.stack)] = f]
<1>1. /\ c \in Commands /\ c.gone \in SUBSET Tools /\ c.stack \in Seq(Frames)
      /\ e.failed \in BOOLEAN /\ e.mem \in States /\ e.mem.owned \in [Resources -> Own!OwnedState]
      /\ e.mem.tools \in Records /\ t \in Tools /\ t \in Resources /\ t \notin Sources
  BY TopFrame, RemovalAssumption DEF CommandInv, Commands, States, Resources
<1>2. d = Becomes(e, e.gone, m, stack, e.failed)
  BY UntrackedBecomes
<1>3. /\ f \in Frames /\ f.tool = t /\ f.step = "helpers" /\ f.auto = Last(c.stack).auto
      /\ f.helpers = Last(c.stack).helpers
  BY <1>1, TopFrame DEF Frames
<1>4. FrameSound(c, Last(c.stack))
  BY <1>1, TopSound DEF CommandInv
<1>5. /\ o \in [Resources -> Own!OwnedState]
      /\ \A r \in Resources : r # t => o[r] = e.mem.owned[r]
      /\ o[t] = e.mem.owned[t] \/ (o[t].own = "none" /\ o[t].deps = {})
      /\ ~Zero(o, t)
  <2>1. CASE Zero(e.mem.owned, t)
    <3> HIDE DEF t
    <3>1. Dropped(e.mem.owned, {t})[t].own = "none" /\ Dropped(e.mem.owned, {t})[t].deps = {}
      BY <1>1, DroppedParts
    <3>2. \A r \in Resources : r # t => Dropped(e.mem.owned, {t})[r] = e.mem.owned[r]
      BY <1>1, DroppedParts
    <3>3. Dropped(e.mem.owned, {t}) \in [Resources -> Own!OwnedState]
      BY <1>1, DroppedParts
    <3>4. o = Dropped(e.mem.owned, {t})
      BY <2>1
    <3> QED BY <3>1, <3>2, <3>3, <3>4 DEF Zero
  <2>2. CASE ~Zero(e.mem.owned, t)
    BY <1>1, <2>2
  <2> QED BY <2>1, <2>2
<1>6. k \in Records /\ k[t] = "none" /\ \A x \in Tools \ {t} : k[x] = e.mem.tools[x]
  BY <1>1 DEF Records
<1>7. m \in States /\ m.tools = k /\ m.owned = o
  <2> HIDE DEF o, k
  <2> QED BY <1>5, <1>6 DEF States
<1> HIDE DEF f, o, k, m
<1>8. /\ stack \in Seq(Frames) /\ Len(stack) = Len(c.stack) /\ stack # <<>> /\ Last(stack) = f
      /\ \A i \in 1..Len(c.stack) : stack[i] = (IF i = Len(c.stack) THEN f ELSE c.stack[i])
  BY <1>1, <1>3, TopReplaced
<1> HIDE DEF d
<1>9. d \in Commands
  BY <1>1, <1>2, <1>7, <1>8, BecomesFields
<1>10. /\ d.stack = stack /\ d.failed = e.failed /\ d.mem = m /\ d.todo = c.todo /\ d.kind = c.kind
       /\ d.gone = c.gone /\ d.requested = c.requested /\ d.all = c.all /\ d.snap = c.snap
  BY <1>2, BecomesFields
<1>11. t \in c.gone
  BY <1>4 DEF FrameSound
<1>12. Later(c, d)
  <2>1. \A r \in Resources : /\ o[r].deps \subseteq c.mem.owned[r].deps
                             /\ o[r].own \in {c.mem.owned[r].own, "none"}
    BY <1>5
  <2>2. \A x \in Tools : k[x] = c.mem.tools[x] \/ (k[x] = "none" /\ x \in c.gone)
    BY <1>6, <1>11
  <2> QED BY <1>7, <1>10, <2>1, <2>2 DEF Later
<1>13. FrameSound(d, f)
  BY <1>1, <1>3, <1>4, <1>10, <1>12 DEF FrameSound, Later
<1>14. Sound(d)
  BY <1>1, <1>3, <1>9, <1>10, <1>12, <1>13, ReplacedSound DEF CommandInv
<1>a. \A s \in Sources : d.mem.owned[s] = e.mem.owned[s]
  BY <1>1, <1>5, <1>7, <1>10 DEF Resources
<1>b. SUFFICES Complete(d)
  BY <1>9, <1>10, <1>14, <1>a DEF CommandInv, d
<1>15. SUFFICES ASSUME ~d.failed PROVE Complete(d)
  BY DEF Complete
<1>16. ~c.failed /\ \A s \in Last(c.stack).sources : e.mem.owned[s].own = "none"
  BY <1>10, <1>15
<1>17. \A x : Busy(c, x) => x = t
  BY DEF Busy
<1>18. ASSUME NEW r \in Resources, Zero(o, r) PROVE Zero(c.mem.owned, r) /\ r # t /\ r \notin Last(c.stack).sources
  BY <1>5, <1>16, <1>18 DEF Zero
<1>19. ASSUME NEW r \in Resources, Zero(o, r), Pending(c, r) PROVE Pending(d, r)
  <2>1. CASE r \in Tools /\ c.mem.tools[r] = "root"
    BY <1>6, <1>7, <1>10, <1>18, <1>19, <2>1 DEF Pending
  <2>2. ASSUME NEW i \in 1..Len(c.stack), c.stack[i].step \in {"sources", "helpers"}, r \in c.stack[i].helpers
        PROVE  Pending(d, r)
    <3>1. stack[i].step \in {"sources", "helpers"} /\ r \in stack[i].helpers
      BY <1>1, <1>3, <1>8, <2>2, TopFrame
    <3> QED BY <1>8, <1>10, <3>1 DEF Pending
  <2>3. CASE r \in c.todo /\ (c.mem.tools[r] # "none" \/ (r \notin c.gone /\ ~c.all))
    <3>1. r \in Tools
      BY <1>1, <2>3 DEF Commands
    <3> QED BY <1>6, <1>7, <1>10, <1>18, <1>19, <2>3, <3>1 DEF Pending
  <2> QED BY <1>17, <1>18, <1>19, <2>1, <2>2, <2>3 DEF Pending
<1>20. \A x \in c.requested : x \in d.todo \/ d.mem.tools[x] = "none" \/ Busy(d, x)
  <2>1. c.requested \in SUBSET Tools
    BY <1>1 DEF Commands
  <2> QED BY <1>6, <1>7, <1>10, <1>16, <1>17, <2>1 DEF CommandInv, Complete
<1>21. \A x \in c.requested \ d.todo : d.mem.tools[x] = "none" => x \in d.gone
  <2>1. c.requested \in SUBSET Tools
    BY <1>1 DEF Commands
  <2> QED BY <1>6, <1>7, <1>10, <1>11, <1>16, <2>1 DEF CommandInv, Complete
<1>22. \A r \in Resources : Zero(d.mem.owned, r) /\ ~Zero(disk.owned, r) => Pending(d, r)
  BY <1>7, <1>10, <1>16, <1>18, <1>19 DEF CommandInv, Complete
<1> QED BY <1>10, <1>20, <1>21, <1>22 DEF Complete

AtHelpers(c) == c.kind = "remove" /\ c.stack # <<>> /\ Last(c.stack).step = "helpers"

LEMMA PoppedAtEnd ==
  ASSUME NEW c, CommandInv(c), AtHelpers(c), Last(c.stack).helpers = {}
  PROVE  CommandInv(Popped(c)) /\ Later(c, Popped(c)) /\ Popped(c).gone = c.gone
         /\ Popped(c).mem = c.mem
<1> DEFINE d == Popped(c)
<1>1. /\ c \in Commands /\ c.gone \in SUBSET Tools /\ c.mem \in States /\ c.stack \in Seq(Frames)
      /\ c.failed \in BOOLEAN /\ c.stack # <<>>
  BY DEF CommandInv, Commands, AtHelpers
<1>2. d = Becomes(c, c.gone, c.mem, Front(c.stack), c.failed)
  BY <1>1, PoppedBecomes
<1> HIDE DEF d
<1>3. d \in Commands
  BY <1>1, <1>2, FrontParts, BecomesFields
<1>4. /\ d.stack = Front(c.stack) /\ d.failed = c.failed /\ d.mem = c.mem /\ d.todo = c.todo
      /\ d.kind = c.kind /\ d.gone = c.gone /\ d.requested = c.requested /\ d.all = c.all
      /\ d.snap = c.snap
  BY <1>2, BecomesFields
<1>5. Later(c, d)
  BY <1>4 DEF Later
<1>6. Sound(d)
  BY <1>1, <1>3, <1>4, <1>5, PoppedSound DEF CommandInv
<1>7. \A x : ~Busy(c, x)
  BY DEF Busy, AtHelpers
<1>8. ASSUME NEW r, Pending(c, r) PROVE Pending(d, r)
  <2>1. CASE r \in Tools /\ c.mem.tools[r] = "root"
    BY <1>4, <2>1 DEF Pending
  <2>2. ASSUME NEW i \in 1..Len(c.stack), c.stack[i].step \in {"sources", "helpers"}, r \in c.stack[i].helpers
        PROVE  Pending(d, r)
    <3>1. i # Len(c.stack)
      BY <1>1, <2>2, TopFrame
    <3>2. i \in 1..Len(d.stack) /\ d.stack[i] = c.stack[i]
      BY <1>1, <1>4, <3>1, FrontParts
    <3> QED BY <2>2, <3>2 DEF Pending
  <2>3. CASE r \in c.todo /\ (c.mem.tools[r] # "none" \/ (r \notin c.gone /\ ~c.all))
    BY <1>4, <2>3 DEF Pending
  <2> QED BY <1>7, <1>8, <2>1, <2>2, <2>3 DEF Pending, AtHelpers
<1>9. Complete(d)
  BY <1>4, <1>7, <1>8 DEF CommandInv, Complete
<1> QED BY <1>3, <1>4, <1>5, <1>6, <1>9 DEF CommandInv, d

\* Complete, but for the helper that is being looked at.
CompleteBut(c, h) ==
  ~c.failed =>
    /\ \A t \in c.requested : t \in c.todo \/ c.mem.tools[t] = "none"
    /\ \A t \in c.requested \ c.todo : c.mem.tools[t] = "none" => t \in c.gone
    /\ \A r \in Resources \ {h} : Zero(c.mem.owned, r) /\ ~Zero(disk.owned, r) => Pending(c, r)

Skipping(c, h) == [c EXCEPT !.stack[Len(c.stack)].helpers = @ \ {h}]

LEMMA SkippingSound ==
  ASSUME NEW c, CommandInv(c), AtHelpers(c), NEW h
  PROVE  LET d == Skipping(c, h) IN
         /\ d \in Commands /\ Sound(d) /\ AtHelpers(d) /\ CompleteBut(d, h)
         /\ Later(c, d) /\ d.gone = c.gone /\ d.mem = c.mem /\ d.requested = c.requested
<1> DEFINE d == Skipping(c, h)
           f == [Last(c.stack) EXCEPT !.helpers = @ \ {h}]
           stack == [c.stack EXCEPT ![Len(c.stack)] = f]
<1>1. /\ c \in Commands /\ c.gone \in SUBSET Tools /\ c.mem \in States /\ c.stack \in Seq(Frames)
      /\ c.failed \in BOOLEAN /\ c.stack # <<>> /\ c.kind = "remove" /\ Last(c.stack).step = "helpers"
  BY DEF CommandInv, Commands, AtHelpers
<1>2. d = Becomes(c, c.gone, c.mem, stack, c.failed)
  BY <1>1, SkippingBecomes DEF Skipping
<1>3. /\ f \in Frames /\ f.tool = Last(c.stack).tool /\ f.step = "helpers" /\ f.auto = Last(c.stack).auto
      /\ f.helpers = Last(c.stack).helpers \ {h}
  BY <1>1, TopFrame DEF Frames
<1> HIDE DEF f
<1>4. /\ stack \in Seq(Frames) /\ Len(stack) = Len(c.stack) /\ stack # <<>> /\ Last(stack) = f
      /\ \A i \in 1..Len(c.stack) : stack[i] = (IF i = Len(c.stack) THEN f ELSE c.stack[i])
  BY <1>1, <1>3, TopReplaced
<1> HIDE DEF d
<1>5. d \in Commands
  BY <1>1, <1>2, <1>4, BecomesFields
<1>6. /\ d.stack = stack /\ d.failed = c.failed /\ d.mem = c.mem /\ d.todo = c.todo
      /\ d.kind = c.kind /\ d.gone = c.gone /\ d.requested = c.requested /\ d.all = c.all
      /\ d.snap = c.snap
  BY <1>2, BecomesFields
<1>7. Later(c, d)
  BY <1>6 DEF Later
<1>8. FrameSound(d, f)
  <2>1. FrameSound(c, Last(c.stack))
    BY <1>1, TopSound DEF CommandInv
  <2> QED BY <1>1, <1>3, <1>6, <2>1 DEF FrameSound
<1>9. Sound(d)
  BY <1>1, <1>3, <1>5, <1>6, <1>7, <1>8, ReplacedSound DEF CommandInv
<1>10. \A x : ~Busy(c, x)
  BY <1>1 DEF Busy
<1>11. ASSUME NEW r, r # h, Pending(c, r) PROVE Pending(d, r)
  <2>1. CASE r \in Tools /\ c.mem.tools[r] = "root"
    BY <1>6, <2>1 DEF Pending
  <2>2. ASSUME NEW i \in 1..Len(c.stack), c.stack[i].step \in {"sources", "helpers"}, r \in c.stack[i].helpers
        PROVE  Pending(d, r)
    <3>1. stack[i].step \in {"sources", "helpers"} /\ r \in stack[i].helpers
      BY <1>1, <1>3, <1>4, <1>11, <2>2, TopFrame
    <3> QED BY <1>4, <1>6, <3>1 DEF Pending
  <2>3. CASE r \in c.todo /\ (c.mem.tools[r] # "none" \/ (r \notin c.gone /\ ~c.all))
    BY <1>6, <2>3 DEF Pending
  <2> QED BY <1>1, <1>10, <1>11, <2>1, <2>2, <2>3 DEF Pending
<1>12. CompleteBut(d, h)
  BY <1>1, <1>6, <1>10, <1>11 DEF CommandInv, Complete, CompleteBut
<1>13. AtHelpers(d)
  BY <1>1, <1>3, <1>4, <1>6 DEF AtHelpers
<1> QED BY <1>5, <1>6, <1>7, <1>9, <1>12, <1>13 DEF d

LEMMA AfterHelperSound ==
  ASSUME NEW c, c \in Commands, Sound(c), AtHelpers(c), NEW h \in Tools, CompleteBut(c, h),
         disk \in States
  PROVE  CommandInv(AfterHelper(c, h)) /\ Later(c, AfterHelper(c, h)) /\ AfterHelper(c, h).gone = c.gone
         /\ \A s \in Sources : AfterHelper(c, h).mem.owned[s] = c.mem.owned[s]
<1> DEFINE d == AfterHelper(c, h)
<1>1. /\ c.gone \in SUBSET Tools /\ c.mem \in States /\ c.stack \in Seq(Frames) /\ c.kind = "remove"
      /\ c.failed \in BOOLEAN /\ c.stack # <<>> /\ Last(c.stack).step = "helpers"
      /\ c.mem.owned \in [Resources -> Own!OwnedState] /\ c.mem.tools \in Records
      /\ h \in Resources /\ h \notin Sources
  BY RemovalAssumption DEF Commands, AtHelpers, States, Resources
<1>2. Later(c, c)
  BY DEF Later
<1>3. CASE d = c /\ (~c.failed /\ Zero(c.mem.owned, h) => Pending(c, h))
  <2>1. Complete(c)
    BY <1>1, <1>3 DEF CompleteBut, Complete
  <2> QED BY <1>2, <1>3, <2>1 DEF CommandInv
<1>4. CASE d = [c EXCEPT !.failed = TRUE]
  <2> DEFINE b == TRUE
  <2>1. b \in BOOLEAN
    OBVIOUS
  <2>2. d = [c EXCEPT !.failed = b]
    BY <1>4
  <2> HIDE DEF b, d
  <2>3. d = Becomes(c, c.gone, c.mem, c.stack, b)
    BY <2>2, FailedBecomes
  <2>4. d \in Commands /\ d.failed = b /\ d.stack = c.stack /\ d.mem = c.mem /\ d.gone = c.gone
        /\ d.kind = c.kind /\ d.requested = c.requested /\ d.snap = c.snap /\ d.all = c.all
        /\ d.todo = c.todo
    BY <1>1, <2>1, <2>3, BecomesFields
  <2>5. d.failed = TRUE
    BY <2>4 DEF b
  <2>6. Later(c, d) /\ Complete(d)
    BY <2>4, <2>5 DEF Later, Complete
  <2>7. Sound(d)
    BY <2>4 DEF Sound, MemSound, FrameSound
  <2> QED BY <2>4, <2>6, <2>7 DEF CommandInv, d
<1>5. CASE d = [c EXCEPT !.mem.owned = Dropped(@, {h})]
  <2> DEFINE o == Dropped(c.mem.owned, {h})
             m == [c.mem EXCEPT !.owned = o]
  <2>1. d = Becomes(c, c.gone, m, c.stack, c.failed)
    BY <1>5, DroppingBecomes
  <2>2. /\ o \in [Resources -> Own!OwnedState] /\ o[h].own = "none" /\ o[h].deps = {}
        /\ \A r \in Resources \ {h} : o[r] = c.mem.owned[r]
    BY <1>1, DroppedParts
  <2> HIDE DEF o, d
  <2>3. m \in States /\ m.tools = c.mem.tools /\ m.owned = o
    BY <1>1, <2>2 DEF States
  <2> HIDE DEF m
  <2>4. d \in Commands /\ d.failed = c.failed /\ d.stack = c.stack /\ d.mem = m /\ d.gone = c.gone
        /\ d.kind = c.kind /\ d.requested = c.requested /\ d.snap = c.snap /\ d.all = c.all
        /\ d.todo = c.todo
    BY <1>1, <2>1, <2>3, BecomesFields
  <2>5. Later(c, d)
    BY <1>1, <2>2, <2>3, <2>4 DEF Later
  <2>6. Sound(d)
    <3>1. \A i \in 1..Len(c.stack) : c.stack[i] \in Frames /\ c.stack[i].step = "helpers" /\ FrameSound(c, c.stack[i])
      BY <1>1, TopFrame DEF Sound
    <3>2. \A i \in 1..Len(d.stack) : FrameSound(d, d.stack[i])
      BY <2>4, <2>5, <3>1, LaterFrame
    <3> QED BY <2>4, <2>5, <3>1, <3>2, LaterMem DEF Sound
  <2>7. \A r : Pending(c, r) => Pending(d, r)
    BY <2>3, <2>4 DEF Pending, Busy
  <2>8. Complete(d)
    BY <2>2, <2>3, <2>4, <2>7 DEF Complete, CompleteBut, Zero
  <2> QED BY <1>1, <2>2, <2>3, <2>4, <2>5, <2>6, <2>8 DEF CommandInv, d, Resources
<1>6. CASE d = [c EXCEPT !.stack = Append(@, Visit(h, TRUE))] /\ Zero(c.mem.owned, h) /\ c.mem.tools[h] = "dep"
  <2> DEFINE f == Visit(h, TRUE)
             stack == Append(c.stack, f)
  <2>1. f \in Frames /\ f.tool = h /\ f.step = "verify" /\ f.auto
    BY DEF Visit, Frames
  <2> HIDE DEF f
  <2>2. d = Becomes(c, c.gone, c.mem, stack, c.failed)
    BY <1>6, PushingBecomes DEF f
  <2>3. /\ stack \in Seq(Frames) /\ Len(stack) = Len(c.stack) + 1 /\ stack # <<>> /\ Last(stack) = f
        /\ \A i \in 1..Len(c.stack) : stack[i] = c.stack[i]
    BY <1>1, <2>1, Pushed
  <2> HIDE DEF d
  <2>4. d \in Commands /\ d.failed = c.failed /\ d.stack = stack /\ d.mem = c.mem /\ d.gone = c.gone
        /\ d.kind = c.kind /\ d.requested = c.requested /\ d.snap = c.snap /\ d.all = c.all
        /\ d.todo = c.todo
    <3>1. stack \in Seq(Frames)
      BY <2>3
    <3> HIDE DEF stack
    <3> QED BY <1>1, <2>2, <3>1, BecomesFields
  <2>5. Later(c, d)
    BY <2>4 DEF Later
  <2>6. FrameSound(d, f)
    BY <1>1, <1>6, <2>1, <2>4 DEF FrameSound
  <2>7. Sound(d)
    BY <1>1, <2>1, <2>4, <2>5, <2>6, PushedSound
  <2>8. Busy(d, h) /\ \A x : ~Busy(c, x)
    BY <1>1, <2>1, <2>3, <2>4 DEF Busy
  <2>9. ASSUME NEW r, Pending(c, r) PROVE Pending(d, r)
    <3>1. Len(c.stack) \in Nat
      BY <1>1
    <3>2. ASSUME NEW i \in 1..Len(c.stack), c.stack[i].step \in {"sources", "helpers"}, r \in c.stack[i].helpers
          PROVE  Pending(d, r)
      BY <2>3, <2>4, <3>1, <3>2 DEF Pending
    <3> QED BY <1>1, <2>4, <2>8, <2>9, <3>2 DEF Pending
  <2>10. Complete(d)
    BY <2>4, <2>8, <2>9 DEF Complete, CompleteBut, Pending
  <2> QED BY <2>4, <2>5, <2>7, <2>10 DEF CommandInv, d
<1>7. ASSUME ~c.failed, Zero(c.mem.owned, h), h \notin c.gone, h \in c.requested PROVE Pending(c, h)
  <2>1. c.mem.tools[h] = "none" => h \in c.todo
    BY <1>7 DEF CompleteBut
  <2>2. h \in c.todo
    BY <1>7, <2>1 DEF CompleteBut
  <2>3. c.all => c.mem.tools[h] # "none"
    BY <1>7 DEF Sound, MemSound
  <2> QED BY <1>7, <2>2, <2>3 DEF Pending
<1>8. CASE c.mem.owned[h].own = "none"
  BY <1>3, <1>8 DEF AfterHelper, Zero
<1>9. CASE c.mem.owned[h].own # "none" /\ ~Zero(c.mem.owned, h)
  BY <1>4, <1>9 DEF AfterHelper
<1>10. CASE Zero(c.mem.owned, h) /\ h \in c.gone
  BY <1>5, <1>10 DEF AfterHelper, Zero
<1>11. CASE Zero(c.mem.owned, h) /\ h \notin c.gone /\ h \in c.requested
  <2>1. d = c
    BY <1>11 DEF AfterHelper, Zero
  <2> QED BY <1>3, <1>7, <1>11, <2>1
<1>12. CASE Zero(c.mem.owned, h) /\ h \notin c.gone /\ h \notin c.requested
  <2>1. d = IF c.mem.tools[h] = "none" THEN [c EXCEPT !.failed = TRUE]
            ELSE IF c.mem.tools[h] = "root" THEN c
            ELSE [c EXCEPT !.stack = Append(@, Visit(h, TRUE))]
    BY <1>12 DEF AfterHelper, Zero
  <2>2. CASE c.mem.tools[h] = "none"
    BY <1>4, <2>1, <2>2
  <2>3. CASE c.mem.tools[h] = "root"
    <3>1. Pending(c, h)
      BY <2>3 DEF Pending
    <3> QED BY <1>3, <2>1, <2>3, <3>1
  <2>4. CASE c.mem.tools[h] = "dep"
    BY <1>6, <1>12, <2>1, <2>4
  <2> QED BY <1>1, <2>2, <2>3, <2>4 DEF Records
<1> HIDE DEF d
<1> QED BY <1>8, <1>9, <1>10, <1>11, <1>12

(***************************************************************************)
(* The whole invariant: what depengine put on the host is recorded as its  *)
(* own, what is recorded as its own and is there it did put there, and a   *)
(* command under way is right about both.                                  *)
(***************************************************************************)
OwnTruth ==
  /\ \A s \in ours \cap Sources : s \in host.sources /\ disk.owned[s].own = "depengine"
  /\ \A r \in Resources \cap OnHost : disk.owned[r].own = "depengine" => r \in ours

HostTrue(c) ==
  /\ \A t \in c.gone : host.tools[t] = "absent"
  /\ \A s \in ours \cap Sources : c.mem.owned[s].own = "depengine"

Underway == cmd.kind # "idle" => CommandInv(cmd) /\ HostTrue(cmd)

RemovalInv == Types /\ OwnTruth /\ (cmd.kind = "idle" => cmd.stack = <<>>) /\ Underway

LEMMA CarriedOver ==
  ASSUME disk' = disk, CommandInv(cmd')
  PROVE  CommandInv(cmd)'
<1>1. MemSound(cmd') => MemSound(cmd)'
  BY DEF MemSound, Tracked, Added
<1>2. Sound(cmd') => Sound(cmd)'
  BY <1>1 DEF Sound, FrameSound, Zero
<1>3. Complete(cmd') => Complete(cmd)'
  BY DEF Complete, Pending, Busy, Zero
<1> QED BY <1>2, <1>3 DEF CommandInv, Commands, States, Records, Frames, Resources

\* Host and ownership as a command or the administrator may change them while
\* the state file stays what it is: what is taken is no longer depengine's.
Takes ==
  /\ host' \in Hosts /\ ours' \subseteq ours /\ disk' = disk
  /\ \A t \in Tools : /\ host.tools[t] = "absent" => host'.tools[t] = "absent"
                      /\ host'.tools[t] = "present" => host.tools[t] = "present"
                      /\ t \in ours /\ t \notin ours' => host'.tools[t] # "present"
  /\ host'.sources \subseteq host.sources
  /\ \A s \in Sources : s \in ours /\ s \notin ours' => s \notin host'.sources
  /\ \A s \in Sources : s \in ours' => s \in host'.sources

LEMMA TakesTruth ==
  ASSUME Types, OwnTruth, Takes
  PROVE  OwnTruth'
<1>1. \A s \in ours' \cap Sources : s \in host'.sources /\ disk'.owned[s].own = "depengine"
  BY DEF Takes, OwnTruth
<1>2. ASSUME NEW r \in Resources, r \in OnHost', disk'.owned[r].own = "depengine" PROVE r \in ours'
  <2>1. CASE r \in Sources /\ r \in host'.sources
    BY <1>2, <2>1 DEF Takes, OwnTruth, OnHost
  <2>2. CASE r \in Tools /\ host'.tools[r] = "present"
    <3>1. host.tools[r] = "present" /\ disk.owned[r].own = "depengine"
      BY <1>2, <2>2 DEF Takes
    <3>2. r \in ours
      BY <1>2, <2>2, <3>1 DEF OwnTruth, OnHost
    <3> QED BY <2>2, <3>2 DEF Takes
  <2>3. host'.sources \subseteq Sources
    BY DEF Takes, Hosts
  <2> QED BY <1>2, <2>1, <2>2, <2>3 DEF OnHost
<1> QED BY <1>1, <1>2 DEF OwnTruth

LEMMA NothingTaken ==
  ASSUME Types, OwnTruth, UNCHANGED <<host, disk, ours>>
  PROVE  Takes
  BY DEF Types, OwnTruth, Takes

\* A step of a command that is under way.
LEMMA GoesOn ==
  ASSUME RemovalInv, cmd.kind # "idle", Takes, UNCHANGED <<snaps, installing>>,
         CommandInv(cmd'), cmd'.kind # "idle",
         \A t \in cmd'.gone : host'.tools[t] = "absent",
         \A s \in ours' \cap Sources : cmd'.mem.owned[s].own = "depengine"
  PROVE  RemovalInv'
<1>1. OwnTruth'
  BY TakesTruth DEF RemovalInv
<1>2. Types'
  BY DEF RemovalInv, Types, Takes, CommandInv
<1>3. CommandInv(cmd)'
  BY CarriedOver DEF Takes
<1>4. HostTrue(cmd)'
  BY DEF HostTrue
<1> QED BY <1>1, <1>2, <1>3, <1>4 DEF RemovalInv, Underway

LEMMA IdleParts == /\ Idle \in Commands /\ Idle.stack = <<>> /\ Idle.kind = "idle"
                   /\ Idle.gone = {} /\ Idle.todo = {} /\ ~Idle.failed /\ ~Idle.all
                   /\ [tools |-> NoTools, owned |-> Own!NoneOwned] \in States
<1>1. NoTools \in Records
  BY DEF NoTools, Records
<1>2. Own!NoneOwned \in [Resources -> Own!OwnedState]
  BY DEF Own!NoneOwned, Own!OwnedState
<1>3. <<>> \in Seq(Frames)
  OBVIOUS
<1> QED BY <1>1, <1>2, <1>3 DEF Idle, Commands, States

\* A command that has just begun.
LEMMA Begins ==
  ASSUME RemovalInv, UNCHANGED <<host, disk, snaps, installing, ours>>,
         cmd' \in Commands, cmd'.kind # "idle", cmd'.stack = <<>>, cmd'.mem = disk, cmd'.gone = {},
         cmd'.todo = cmd'.requested, cmd'.all => cmd'.requested = Tracked(disk),
         cmd'.kind = "undo" => cmd'.requested = Added(cmd'.snap)
  PROVE  RemovalInv'
<1>1. Types' /\ OwnTruth'
  BY DEF RemovalInv, Types, OwnTruth, OnHost
<1>2. CommandInv(cmd')
  <2>1. MemSound(cmd')
    BY DEF MemSound, Tracked
  <2>2. Sound(cmd')
    BY <2>1 DEF Sound
  <2>3. Complete(cmd')
    BY DEF Complete
  <2> QED BY <2>2, <2>3 DEF CommandInv
<1>3. CommandInv(cmd)'
  BY <1>2, CarriedOver
<1>4. HostTrue(cmd)'
  BY DEF HostTrue, RemovalInv, OwnTruth
<1> QED BY <1>1, <1>3, <1>4 DEF RemovalInv, Underway

\* A command that has ended, with the state file as it was or as it has left it.
LEMMA Ends ==
  ASSUME RemovalInv, UNCHANGED <<host, snaps, installing, ours>>, cmd' = Idle, disk' \in States,
         \A r \in Resources : disk'.owned[r].own = "depengine" => disk.owned[r].own = "depengine",
         \A s \in ours \cap Sources : disk'.owned[s].own = "depengine"
  PROVE  RemovalInv'
<1>1. Types'
  BY IdleParts DEF RemovalInv, Types
<1>2. OwnTruth'
  BY DEF RemovalInv, OwnTruth, OnHost
<1> QED BY <1>1, <1>2, IdleParts DEF RemovalInv, Underway

LEMMA InitRemoval == Init => RemovalInv
<1> SUFFICES ASSUME Init PROVE RemovalInv
  OBVIOUS
<1>1. disk = [tools |-> NoTools, owned |-> Own!NoneOwned] /\ cmd = Idle /\ ours = {}
      /\ snaps = <<>> /\ installing = "nothing"
      /\ host = [tools |-> [t \in Tools |-> "absent"], sources |-> {}]
  BY DEF Init
<1>2. Types
  BY <1>1, IdleParts DEF Types, Hosts
<1>3. \A r \in Resources : disk.owned[r].own = "none"
  BY <1>1 DEF Own!NoneOwned
<1>4. OwnTruth
  BY <1>1, <1>3 DEF OwnTruth
<1> QED BY <1>1, <1>2, <1>4, IdleParts DEF RemovalInv, Underway

(***************************************************************************)
(* install.                                                                *)
(***************************************************************************)
LEMMA Pruned ==
  ASSUME NEW all \in Seq(Records), all # <<>>
  PROVE  Prune(all) \in Seq(Records) /\ Len(Prune(all)) \in 1..Len(all)
<1> DEFINE S == {MaxSnapshots, Len(all)}
<1>1. MaxSnapshots \in Nat \ {0} /\ Len(all) \in Nat \ {0}
  BY RemovalAssumption
<1>2. \E x \in S : \A y \in S : x <= y
  BY <1>1
<1>3. Min(S) \in S /\ Min(S) <= Len(all)
  BY <1>1, <1>2 DEF Min
<1>4. Min(S) \in 1..Len(all)
  BY <1>1, <1>3
<1> HIDE DEF S
<1>5. SubSeq(all, 1, Min(S)) \in Seq(Records) /\ Len(SubSeq(all, 1, Min(S))) = Min(S)
  BY <1>4
<1> QED BY <1>4, <1>5 DEF Prune, S

LEMMA SnapshotKeeps ==
  ASSUME RemovalInv, NEW t \in Tools, SaveSnapshot(t)
  PROVE  RemovalInv'
<1>1. <<disk.tools>> \o snaps \in Seq(Records) /\ <<disk.tools>> \o snaps # <<>>
  BY DEF RemovalInv, Types, States
<1> DEFINE kept == Prune(<<disk.tools>> \o snaps)
<1>2. kept \in Seq(Records) /\ Len(kept) \in Nat \ {0}
  <2> DEFINE all == <<disk.tools>> \o snaps
  <2>a. all \in Seq(Records) /\ all # <<>>
    BY <1>1
  <2> HIDE DEF all
  <2>1. Prune(all) \in Seq(Records) /\ Len(Prune(all)) \in 1..Len(all) /\ Len(all) \in Nat
    BY <2>a, Pruned
  <2>2. Len(Prune(all)) \in Nat \ {0}
    BY <2>1
  <2> QED BY <2>1, <2>2 DEF all
<1>3. PICK n \in {1, Len(kept)} : snaps' = SubSeq(kept, 1, n)
  BY DEF SaveSnapshot
<1>4. snaps' \in Seq(Records)
  <2> HIDE DEF kept
  <2> QED BY <1>2, <1>3
<1>5. cmd.kind = "idle" /\ UNCHANGED <<host, disk, cmd, ours>> /\ installing' = t
  BY DEF SaveSnapshot
<1>6. Types' /\ OwnTruth'
  BY <1>4, <1>5 DEF RemovalInv, Types, OwnTruth, OnHost
<1> QED BY <1>5, <1>6 DEF RemovalInv, Underway

LEMMA ClosureParts ==
  ASSUME NEW t \in Tools
  PROVE  /\ Closure(t) \subseteq Tools /\ t \in Closure(t)
         /\ \A x \in Closure(t) : Requires[x] \subseteq Closure(t)
<1>1. Closure(t) \subseteq Tools /\ t \in Closure(t)
  BY DEF Closure
<1>2. ASSUME NEW x \in Closure(t), NEW y \in Requires[x] PROVE y \in Closure(t)
  <2>1. y \in Tools
    BY <1>1, RemovalAssumption
  <2> QED BY <2>1 DEF Closure
<1> QED BY <1>1, <1>2

LEMMA InstallKeeps ==
  ASSUME RemovalInv, RunInstall
  PROVE  RemovalInv'
<1> DEFINE run == Closure(installing)
           wanted == run \cup UNION {Needs(t) : t \in run}
           users(r) == {t \in run : r \in Needs(t)}
<1>1. /\ installing \in Tools /\ cmd.kind = "idle" /\ cmd' = cmd /\ snaps' = snaps
      /\ installing' = "nothing"
  BY DEF RunInstall, RemovalInv, Types
<1>2. run \subseteq Tools /\ \A x \in run : Requires[x] \subseteq run
  BY <1>1, ClosureParts
<1>3. /\ host' = [tools |-> [t \in Tools |-> IF t \in run THEN "present" ELSE host.tools[t]],
                  sources |-> host.sources \cup (wanted \cap Sources)]
      /\ ours' = ours \cup (wanted \ OnHost)
      /\ disk' =
           [tools |-> [t \in Tools |->
                         IF t = installing THEN "root"
                         ELSE IF t \in run /\ disk.tools[t] = "none" THEN "dep"
                         ELSE disk.tools[t]],
            owned |-> [r \in Resources |->
                         IF users(r) = {} THEN disk.owned[r]
                         ELSE [Own!TrackOne(disk.owned[r], r \notin OnHost)
                                 EXCEPT !.deps = @ \cup users(r)]]]
  BY DEF RunInstall
<1>4. wanted \subseteq Resources
  <2>1. \A t \in Tools : Needs(t) \subseteq Resources
    BY RemovalAssumption DEF Needs, Resources
  <2> QED BY <1>2, <2>1 DEF Resources
<1>5. \A r \in Resources : users(r) # {} => r \in wanted
  OBVIOUS
<1>6. \A s \in Sources : s \in wanted => users(s) # {}
  BY <1>2, RemovalAssumption
<1>7. \A r \in wanted \cap Tools : r \in run
  BY <1>2, RemovalAssumption DEF Needs
<1>8. \A r \in Resources : users(r) \subseteq Tools
  BY <1>2
<1>9. host \in Hosts /\ disk.tools \in Records /\ disk.owned \in [Resources -> Own!OwnedState]
      /\ ours \subseteq Resources
  BY DEF RemovalInv, Types, States
<1> HIDE DEF run, wanted, users
<1>10. ASSUME NEW r \in Resources
       PROVE  /\ disk'.owned[r] \in Own!OwnedState
              /\ users(r) = {} => disk'.owned[r] = disk.owned[r]
              /\ users(r) # {} => disk'.owned[r].own =
                                   (IF disk.owned[r].own = "depengine" \/ r \notin OnHost
                                    THEN "depengine" ELSE "external")
  <2> DEFINE k == Own!TrackOne(disk.owned[r], r \notin OnHost)
  <2>1. disk.owned[r] \in Own!OwnedState
    BY <1>9
  <2>2. k \in Own!OwnedState /\ k.own = (IF disk.owned[r].own = "depengine" \/ r \notin OnHost
                                        THEN "depengine" ELSE "external")
    BY <2>1 DEF Own!TrackOne, Own!OwnedState, Own!Ownership
  <2>3. disk'.owned[r] = IF users(r) = {} THEN disk.owned[r] ELSE [k EXCEPT !.deps = @ \cup users(r)]
    BY <1>3
  <2> HIDE DEF k
  <2>4. [k EXCEPT !.deps = @ \cup users(r)] \in Own!OwnedState /\ [k EXCEPT !.deps = @ \cup users(r)].own = k.own
    BY <1>8, <2>2 DEF Own!OwnedState
  <2> QED BY <2>1, <2>2, <2>3, <2>4
<1>11. Types'
  <2>1. host' \in Hosts
    BY <1>3, <1>9 DEF Hosts
  <2>2. disk'.tools \in Records
    BY <1>3, <1>9 DEF Records
  <2>3. disk' \in States
    <3>1. disk' = [tools |-> disk'.tools, owned |-> disk'.owned]
      BY <1>3
    <3>2. disk'.owned \in [Resources -> Own!OwnedState]
      BY <1>3, <1>10
    <3> QED BY <2>2, <3>1, <3>2 DEF States
  <2>4. ours' \subseteq Resources
    BY <1>3, <1>4, <1>9
  <2> QED BY <1>1, <2>1, <2>3, <2>4 DEF RemovalInv, Types
<1>12. ASSUME NEW s \in ours' \cap Sources PROVE s \in host'.sources /\ disk'.owned[s].own = "depengine"
  <2>1. s \in Resources
    BY DEF Resources
  <2>2. CASE s \in ours
    BY <1>3, <1>10, <2>1, <2>2 DEF RemovalInv, OwnTruth
  <2>3. CASE s \notin ours
    <3>1. s \in wanted /\ s \notin OnHost
      BY <1>3, <1>12, <2>3
    <3> QED BY <1>3, <1>6, <1>10, <2>1, <3>1
  <2> QED BY <2>2, <2>3
<1>13. ASSUME NEW r \in Resources, r \in OnHost', disk'.owned[r].own = "depengine" PROVE r \in ours'
  <2>1. CASE r \in wanted
    <3>1. CASE r \in OnHost
      <4>1. disk.owned[r].own = "depengine"
        BY <1>10, <1>13, <3>1
      <4> QED BY <1>3, <3>1, <4>1 DEF RemovalInv, OwnTruth
    <3>2. CASE r \notin OnHost
      BY <1>3, <2>1, <3>2
    <3> QED BY <3>1, <3>2
  <2>2. CASE r \notin wanted
    <3>1. disk.owned[r].own = "depengine"
      BY <1>5, <1>10, <1>13, <2>2
    <3>2. run \subseteq wanted
      BY DEF wanted
    <3>3. r \in OnHost
      BY <1>3, <1>13, <2>2, <3>2 DEF OnHost
    <3> QED BY <1>3, <3>1, <3>3 DEF RemovalInv, OwnTruth
  <2> QED BY <2>1, <2>2
<1>14. OwnTruth'
  BY <1>12, <1>13 DEF OwnTruth
<1> QED BY <1>1, <1>11, <1>14 DEF RemovalInv, Underway

(***************************************************************************)
(* The administrator, and forget.                                          *)
(***************************************************************************)
LEMMA UninstallTakes ==
  ASSUME RemovalInv, NEW t \in Tools, NEW left \in {"absent", "broken", "present"},
         host.tools[t] = "absent" => left = "absent",
         left = "present" => host.tools[t] = "present",
         host' = [host EXCEPT !.tools[t] = left],
         ours' = (IF left = "present" THEN ours ELSE ours \ {t}), disk' = disk
  PROVE  Takes /\ host'.sources = host.sources /\ host'.tools[t] = left
<1>1. /\ host \in Hosts /\ host.tools \in [Tools -> {"absent", "broken", "present"}]
      /\ host.sources \in SUBSET Sources
  BY DEF RemovalInv, Types, Hosts
<1> DEFINE k == [host.tools EXCEPT ![t] = left]
<1>2. k \in [Tools -> {"absent", "broken", "present"}] /\ k[t] = left
      /\ \A x \in Tools \ {t} : k[x] = host.tools[x]
  BY <1>1
<1>3. host' = [host EXCEPT !.tools = k]
  BY <1>1 DEF Hosts
<1> HIDE DEF k
<1>4. host'.tools = k /\ host'.sources = host.sources /\ host' \in Hosts
  BY <1>1, <1>2, <1>3 DEF Hosts
<1>5. t \notin Sources
  BY RemovalAssumption
<1>6. ours' \subseteq ours /\ \A x \in ours : x # t => x \in ours'
  OBVIOUS
<1>7. \A x \in Tools : /\ host.tools[x] = "absent" => k[x] = "absent"
                       /\ k[x] = "present" => host.tools[x] = "present"
                       /\ x \in ours /\ x \notin ours' => k[x] # "present"
  <2>1. ASSUME NEW x \in Tools
        PROVE  /\ host.tools[x] = "absent" => k[x] = "absent"
               /\ k[x] = "present" => host.tools[x] = "present"
    BY <1>2
  <2>2. ASSUME NEW x \in Tools, x \in ours, x \notin ours' PROVE k[x] # "present"
    BY <1>2, <1>6, <2>2
  <2> QED BY <2>1, <2>2
<1> QED BY <1>2, <1>4, <1>5, <1>6, <1>7 DEF Takes, RemovalInv, OwnTruth

LEMMA DropTakes ==
  ASSUME RemovalInv, NEW s \in Sources, host' = [host EXCEPT !.sources = @ \ {s}],
         ours' = ours \ {s}, disk' = disk
  PROVE  Takes /\ host'.tools = host.tools
<1>1. /\ host'.tools = host.tools /\ host'.sources = host.sources \ {s} /\ host' \in Hosts
  BY DEF RemovalInv, Types, Hosts
<1>2. s \notin Tools
  BY RemovalAssumption
<1> QED BY <1>1, <1>2 DEF Takes, RemovalInv, OwnTruth

\* Nobody touches the command.
LEMMA CommandWaits ==
  ASSUME RemovalInv, Takes, UNCHANGED <<snaps, installing, cmd>>
  PROVE  RemovalInv'
<1>1. CASE cmd.kind = "idle"
  <2>1. Types' /\ OwnTruth'
    BY TakesTruth DEF RemovalInv, Types, Takes
  <2> QED BY <1>1, <2>1 DEF RemovalInv, Underway
<1>2. CASE cmd.kind # "idle"
  <2>1. CommandInv(cmd) /\ HostTrue(cmd) /\ cmd \in Commands
    BY <1>2 DEF RemovalInv, Underway, Types
  <2>2. \A t \in cmd'.gone : host'.tools[t] = "absent"
    BY <2>1 DEF HostTrue, Takes, Commands
  <2>3. \A s \in ours' \cap Sources : cmd'.mem.owned[s].own = "depengine"
    BY <2>1 DEF HostTrue, Takes
  <2>4. CommandInv(cmd') /\ cmd'.kind # "idle"
    BY <1>2, <2>1
  <2> QED BY <1>2, <2>2, <2>3, <2>4, GoesOn
<1> QED BY <1>1, <1>2

LEMMA AddKeeps ==
  ASSUME RemovalInv, NEW r \in Resources, AdminAdds(r)
  PROVE  RemovalInv'
<1>1. /\ disk.owned[r].own # "depengine" /\ cmd.kind = "idle"
      /\ host' = (IF r \in Sources THEN [host EXCEPT !.sources = @ \cup {r}]
                  ELSE [host EXCEPT !.tools[r] = "present"])
      /\ UNCHANGED <<disk, snaps, installing, cmd, ours>>
  BY DEF AdminAdds
<1>2. host \in Hosts
  BY DEF RemovalInv, Types
<1>3. /\ host' \in Hosts /\ host.sources \subseteq host'.sources
      /\ OnHost' \subseteq OnHost \cup {r}
  <2>1. CASE r \in Sources
    BY <1>1, <1>2, <2>1 DEF Hosts, OnHost
  <2>2. CASE r \notin Sources
    BY <1>1, <1>2, <2>2 DEF Hosts, OnHost, Resources
  <2> QED BY <2>1, <2>2
<1>4. Types' /\ OwnTruth'
  BY <1>1, <1>3 DEF RemovalInv, Types, OwnTruth
<1> QED BY <1>1, <1>4 DEF RemovalInv, Underway

LEMMA ForgetKeeps ==
  ASSUME RemovalInv, NEW t \in Tools, Forget(t)
  PROVE  RemovalInv'
<1>1. /\ cmd.kind = "idle" /\ disk' = [disk EXCEPT !.tools[t] = "none"]
      /\ UNCHANGED <<host, snaps, installing, cmd, ours>>
  BY DEF Forget
<1>2. disk \in States /\ disk.tools \in Records
  BY DEF RemovalInv, Types, States
<1> DEFINE k == [disk.tools EXCEPT ![t] = "none"]
<1>3. k \in Records
  BY <1>2 DEF Records
<1>4. disk' = [disk EXCEPT !.tools = k]
  BY <1>1, <1>2 DEF States
<1> HIDE DEF k
<1>5. disk' \in States /\ disk'.owned = disk.owned
  BY <1>2, <1>3, <1>4 DEF States
<1>6. Types' /\ OwnTruth'
  BY <1>1, <1>5 DEF RemovalInv, Types, OwnTruth, OnHost
<1> QED BY <1>1, <1>6 DEF RemovalInv, Underway

(***************************************************************************)
(* The commands.                                                           *)
(***************************************************************************)
LEMMA StartRemoveKeeps ==
  ASSUME RemovalInv, NEW requested \in SUBSET Tools, NEW all \in BOOLEAN, StartRemove(requested, all)
  PROVE  RemovalInv'
<1>1. /\ cmd' = [Idle EXCEPT !.kind = "remove", !.all = all, !.requested = requested,
                            !.todo = requested, !.mem = disk]
      /\ all => requested = Tracked(disk)
      /\ UNCHANGED <<host, disk, snaps, installing, ours>>
  BY DEF StartRemove
<1>2. disk \in States
  BY DEF RemovalInv, Types
<1>3. /\ cmd' \in Commands /\ cmd'.kind = "remove" /\ cmd'.stack = <<>> /\ cmd'.mem = disk
      /\ cmd'.gone = {} /\ cmd'.todo = requested /\ cmd'.requested = requested /\ cmd'.all = all
  BY <1>1, <1>2, IdleParts DEF Commands
<1> QED BY <1>1, <1>3, Begins

LEMMA StartUndoKeeps ==
  ASSUME RemovalInv, StartUndo
  PROVE  RemovalInv'
<1>1. PICK snap \in Range(snaps) \cup {NoTools} :
        cmd' = [Idle EXCEPT !.kind = "undo", !.requested = Added(snap), !.todo = Added(snap),
                            !.mem = disk, !.snap = snap]
  BY DEF StartUndo
<1>2. UNCHANGED <<host, disk, snaps, installing, ours>>
  BY DEF StartUndo
<1>3. disk \in States /\ snaps \in Seq(Records)
  BY DEF RemovalInv, Types
<1>4. snap \in Records
  BY <1>3 DEF Range, NoTools, Records
<1>5. Added(snap) \subseteq Tools
  BY DEF Added, Tracked
<1>6. /\ cmd' \in Commands /\ cmd'.kind = "undo" /\ cmd'.stack = <<>> /\ cmd'.mem = disk
      /\ cmd'.gone = {} /\ cmd'.todo = Added(snap) /\ cmd'.requested = Added(snap) /\ cmd'.snap = snap
      /\ ~cmd'.all
  BY <1>1, <1>3, <1>4, <1>5, IdleParts DEF Commands
<1> QED BY <1>2, <1>6, Begins

LEMMA NextToolKeeps ==
  ASSUME RemovalInv, NextTool
  PROVE  RemovalInv'
<1>1. PICK t \in cmd.todo : cmd' = [Considered(t) EXCEPT !.todo = @ \ {t}]
  BY DEF NextTool
<1>2. cmd.kind # "idle" /\ cmd.stack = <<>> /\ UNCHANGED <<host, disk, snaps, installing, ours>>
  BY DEF NextTool
<1>3. /\ cmd \in Commands /\ Sound(cmd) /\ Complete(cmd) /\ HostTrue(cmd) /\ t \in Tools
      /\ cmd.kind \in {"remove", "undo"} /\ cmd.mem.tools \in Records
  BY <1>2 DEF RemovalInv, Underway, CommandInv, Commands, States
<1> DEFINE f == Visit(t, FALSE)
           b == FALSE
<1>a. b \in BOOLEAN /\ ~b
  OBVIOUS
<1>4. f \in Frames /\ f.tool = t /\ f.step = "verify" /\ f.auto = b
  BY <1>3 DEF Visit, Frames
<1> HIDE DEF f, b
<1>5. <<f>> \in Seq(Frames) /\ Len(<<f>>) = 1 /\ <<f>>[1] = f /\ Last(<<f>>) = f /\ <<f>> # <<>>
  BY <1>4 DEF Last
\* What a tool considered does to the command: it is visited, done or failed.
<1>6. ASSUME NEW failed \in BOOLEAN, NEW stack \in {<<>>, <<f>>},
             cmd'.stack = stack, cmd'.failed = failed, cmd' \in Commands,
             cmd'.todo = cmd.todo \ {t}, cmd'.kind = cmd.kind, cmd'.gone = cmd.gone,
             cmd'.requested = cmd.requested, cmd'.all = cmd.all, cmd'.snap = cmd.snap,
             cmd'.mem = cmd.mem,
             stack = <<f>> => FrameSound(cmd, f),
             cmd.kind = "remove" /\ stack = <<f>> => cmd.mem.tools[t] # "none",
             ~failed => ~cmd.failed,
             cmd.kind = "remove" /\ ~failed /\ stack = <<>> =>
               cmd.mem.tools[t] = "none" /\ (cmd.all \/ t \in cmd.gone)
      PROVE  RemovalInv'
  <2>1. Takes
    BY <1>2, NothingTaken DEF RemovalInv
  <2>2. Later(cmd, cmd')
    BY <1>6 DEF Later
  <2>3. MemSound(cmd')
    BY <1>3, <2>2, LaterMem DEF Sound
  <2>4. Sound(cmd')
    <3>1. CASE stack = <<>>
      BY <1>6, <2>3, <3>1 DEF Sound
    <3>2. CASE stack = <<f>>
      <4>1. FrameSound(cmd', f)
        BY <1>6, <3>2 DEF FrameSound
      <4> QED BY <1>5, <1>6, <2>3, <3>2, <4>1 DEF Sound
    <3> QED BY <1>6, <3>1, <3>2
  <2>5. ASSUME cmd.kind = "remove", ~failed PROVE Complete(cmd')
    <3>1. \A x : ~Busy(cmd, x)
      BY <1>2 DEF Busy
    <3>2. stack = <<f>> => Busy(cmd', t)
      BY <1>4, <1>5, <1>6 DEF Busy
    <3>3. stack = <<>> => cmd.mem.tools[t] = "none" /\ (cmd.all \/ t \in cmd.gone)
      BY <1>6, <2>5
    <3>4. ~cmd.failed
      BY <1>6, <2>5
    <3>5. \A x \in cmd.requested : x \in cmd.todo \/ cmd.mem.tools[x] = "none"
      BY <1>3, <2>5, <3>1, <3>4 DEF Complete
    <3>6. \A x \in cmd'.requested : x \in cmd'.todo \/ cmd'.mem.tools[x] = "none" \/ Busy(cmd', x)
      BY <1>6, <3>2, <3>3, <3>5
    <3>7. \A x \in cmd'.requested \ cmd'.todo : cmd'.mem.tools[x] = "none" => x \in cmd'.gone
      <4>1. \A x \in cmd.requested \ cmd.todo : cmd.mem.tools[x] = "none" => x \in cmd.gone
        BY <1>3, <2>5, <3>4 DEF Complete
      <4>2. ASSUME t \in cmd.requested, cmd.mem.tools[t] = "none" PROVE t \in cmd.gone
        <5>1. CASE stack = <<>>
          <6>1. cmd.all => t \in Tracked(disk)
            BY <1>3, <4>2 DEF Sound, MemSound
          <6> QED BY <1>3, <3>3, <4>2, <5>1, <6>1 DEF Sound, MemSound
        <5>2. stack # <<f>>
          BY <1>6, <2>5, <4>2
        <5> QED BY <1>6, <5>1, <5>2
      <4> QED BY <1>6, <4>1, <4>2
    <3>8. ASSUME NEW r, Pending(cmd, r) PROVE Pending(cmd', r)
      <4>1. CASE r \in Tools /\ cmd.mem.tools[r] = "root"
        BY <1>6, <4>1 DEF Pending
      <4>2. CASE r \in cmd.todo /\ (cmd.mem.tools[r] # "none" \/ (r \notin cmd.gone /\ ~cmd.all))
        <5>1. CASE r # t
          BY <1>6, <4>2, <5>1 DEF Pending
        <5>2. CASE r = t
          <6>1. stack = <<f>>
            BY <1>6, <3>3, <4>2, <5>2
          <6> QED BY <3>2, <5>2, <6>1 DEF Pending
        <5> QED BY <5>1, <5>2
      <4> QED BY <1>2, <3>1, <3>8, <4>1, <4>2 DEF Pending
    <3>9. \A r \in Resources : Zero(cmd'.mem.owned, r) /\ ~Zero(disk.owned, r) => Pending(cmd', r)
      BY <1>3, <1>6, <2>5, <3>4, <3>8 DEF Complete
    <3> QED BY <1>6, <3>6, <3>7, <3>9 DEF Complete
  <2>6. Complete(cmd')
    BY <1>6, <2>5 DEF Complete
  <2>7. CommandInv(cmd')
    BY <1>6, <2>4, <2>6 DEF CommandInv
  <2>8. /\ \A x \in cmd'.gone : host'.tools[x] = "absent"
        /\ \A s \in ours' \cap Sources : cmd'.mem.owned[s].own = "depengine"
    BY <1>2, <1>3, <1>6 DEF HostTrue
  <2> QED BY <1>2, <1>6, <2>1, <2>7, <2>8, GoesOn
<1>7. ASSUME NEW failed \in BOOLEAN, NEW stack \in {<<>>, <<f>>}, NEW c,
             c = [[cmd EXCEPT !.failed = failed, !.stack = stack] EXCEPT !.todo = @ \ {t}]
      PROVE  /\ c.stack = stack /\ c.failed = failed /\ c \in Commands
             /\ c.todo = cmd.todo \ {t} /\ c.kind = cmd.kind /\ c.gone = cmd.gone
             /\ c.requested = cmd.requested /\ c.all = cmd.all /\ c.snap = cmd.snap
             /\ c.mem = cmd.mem
  <2>1. <<>> \in Seq(Frames)
    OBVIOUS
  <2>2. stack \in Seq(Frames)
    BY <1>5, <1>7, <2>1
  <2> QED BY <1>3, <1>7, <2>2 DEF Commands
<1>8. cmd.failed \in BOOLEAN /\ cmd = [cmd EXCEPT !.failed = cmd.failed, !.stack = <<>>]
  BY <1>2, <1>3 DEF Commands
\* A visit that begins, of a tool that may be removed by name.
<1>9. CASE /\ Considered(t) = [cmd EXCEPT !.stack = <<f>>]
           /\ cmd.kind = "remove" => cmd.mem.tools[t] # "none" /\ Blockers(t) = {}
  <2>1. [cmd EXCEPT !.stack = <<f>>] = [cmd EXCEPT !.failed = cmd.failed, !.stack = <<f>>]
    BY <1>3, <1>8 DEF Commands
  <2>2. cmd' = [[cmd EXCEPT !.failed = cmd.failed, !.stack = <<f>>] EXCEPT !.todo = @ \ {t}]
    BY <1>1, <1>9, <2>1
  <2>3. FrameSound(cmd, f)
    <3>1. t \in cmd.requested
      BY <1>1, <1>3 DEF Sound, MemSound
    <3>2. cmd.kind = "remove" => cmd.mem.owned[t].deps \subseteq cmd.requested
      BY <1>9 DEF Blockers, PrerequisiteDependents
    <3> QED BY <1>a, <1>4, <3>1, <3>2 DEF FrameSound
  <2>4. <<f>> # <<>>
    BY <1>5
  <2>5. /\ cmd'.stack = <<f>> /\ cmd'.failed = cmd.failed /\ cmd' \in Commands
        /\ cmd'.todo = cmd.todo \ {t} /\ cmd'.kind = cmd.kind /\ cmd'.gone = cmd.gone
        /\ cmd'.requested = cmd.requested /\ cmd'.all = cmd.all /\ cmd'.snap = cmd.snap
        /\ cmd'.mem = cmd.mem
    BY <1>7, <1>8, <2>2
  <2>6. <<f>> \in {<<>>, <<f>>} /\ cmd.failed \in BOOLEAN
    BY <1>8
  <2> QED BY <1>6, <1>9, <2>3, <2>4, <2>5, <2>6
\* No visit.
<1>10. ASSUME NEW failed \in BOOLEAN, Considered(t) = [cmd EXCEPT !.failed = failed],
              ~failed => ~cmd.failed /\ cmd.mem.tools[t] = "none" /\ (cmd.all \/ t \in cmd.gone)
       PROVE  RemovalInv'
  <2>1. [cmd EXCEPT !.failed = failed] = [cmd EXCEPT !.failed = failed, !.stack = <<>>]
    BY <1>2, <1>3 DEF Commands
  <2>2. cmd' = [[cmd EXCEPT !.failed = failed, !.stack = <<>>] EXCEPT !.todo = @ \ {t}]
    BY <1>1, <1>10, <2>1
  <2>3. <<>> # <<f>>
    BY <1>5
  <2> HIDE DEF RemovalInv
  <2> QED BY <1>6, <1>7, <1>10, <2>2, <2>3
<1>11. CASE cmd.kind = "undo"
  BY <1>9, <1>11 DEF Considered, f, b
<1>12. CASE cmd.kind = "remove"
  <2>1. Considered(t) = Visited(t)
    BY <1>12 DEF Considered
  <2>2. CASE cmd.mem.tools[t] = "none"
    <3> DEFINE failed == cmd.failed \/ (~cmd.all /\ t \notin cmd.gone)
    <3>1. Considered(t) = [cmd EXCEPT !.failed = failed]
      BY <1>3, <2>1, <2>2 DEF Visited
    <3>2. failed \in BOOLEAN /\ (~failed => ~cmd.failed /\ (cmd.all \/ t \in cmd.gone))
      BY <1>8
    <3> HIDE DEF failed
    <3> QED BY <1>10, <2>2, <3>1, <3>2
  <2>3. CASE cmd.mem.tools[t] # "none" /\ Blockers(t) # {}
    <3> DEFINE failed == ~b
    <3>1. Considered(t) = [cmd EXCEPT !.failed = failed]
      BY <2>1, <2>3 DEF Visited, b
    <3>2. failed \in BOOLEAN /\ failed
      BY <1>a
    <3> HIDE DEF failed
    <3> QED BY <1>10, <3>1, <3>2
  <2>4. CASE cmd.mem.tools[t] # "none" /\ Blockers(t) = {}
    BY <1>9, <2>1, <2>4 DEF Visited, f, b
  <2> QED BY <2>2, <2>3, <2>4
<1> QED BY <1>3, <1>11, <1>12

\* What a command under way knows.
LEMMA UnderwayParts ==
  ASSUME RemovalInv, cmd.stack # <<>>
  PROVE  /\ cmd.kind \in {"remove", "undo"} /\ cmd \in Commands /\ CommandInv(cmd) /\ HostTrue(cmd)
         /\ cmd.gone \subseteq Tools /\ Top \in Frames /\ Top.tool \in Tools /\ host \in Hosts
         /\ disk \in States /\ FrameSound(cmd, Top)
<1>1. cmd.kind # "idle" /\ cmd \in Commands /\ host \in Hosts /\ disk \in States
  BY DEF RemovalInv, Types
<1>2. CommandInv(cmd) /\ HostTrue(cmd)
  BY <1>1 DEF RemovalInv, Underway
<1>3. Top \in Frames /\ Top.tool \in Tools
  BY <1>1, TopFrame DEF Top
<1>4. FrameSound(cmd, Top)
  BY <1>1, <1>2, TopSound DEF Top, CommandInv
<1> QED BY <1>1, <1>2, <1>3, <1>4 DEF Commands

LEMMA GoneKeeps ==
  ASSUME RemovalInv, Acting(cmd), Takes, UNCHANGED <<snaps, installing>>, cmd' = Gone(cmd),
         host'.tools[Top.tool] = "absent"
  PROVE  RemovalInv'
<1>1. /\ cmd.kind \in {"remove", "undo"} /\ CommandInv(cmd) /\ HostTrue(cmd)
      /\ cmd.gone \subseteq Tools
  BY UnderwayParts DEF Acting
<1>2. /\ CommandInv(cmd') /\ cmd'.gone = cmd.gone \cup {Top.tool} /\ cmd'.kind = cmd.kind
      /\ \A r \in Resources : cmd'.mem.owned[r].own = cmd.mem.owned[r].own
  BY <1>1, GoneUndoSound, GoneRemoveSound DEF Top
<1>3. \A t \in cmd'.gone : host'.tools[t] = "absent"
  BY <1>1, <1>2 DEF HostTrue, Takes
<1>4. \A s \in ours' \cap Sources : cmd'.mem.owned[s].own = "depengine"
  BY <1>1, <1>2 DEF HostTrue, Takes, Resources
<1> QED BY <1>1, <1>2, <1>3, <1>4, GoesOn

LEMMA FailingKeeps ==
  ASSUME RemovalInv, cmd.stack # <<>>, Takes, UNCHANGED <<snaps, installing>>, cmd' = Failing(cmd)
  PROVE  RemovalInv'
<1>1. /\ cmd.kind \in {"remove", "undo"} /\ cmd \in Commands /\ CommandInv(cmd) /\ HostTrue(cmd)
      /\ cmd.gone \subseteq Tools
  BY UnderwayParts
<1>2. CommandInv(cmd')
  BY <1>1, FailingSound
<1>3. cmd'.gone = cmd.gone /\ cmd'.kind = cmd.kind /\ cmd'.mem = cmd.mem
  BY <1>1, FailingSound
<1>4. \A t \in cmd'.gone : host'.tools[t] = "absent"
  BY <1>1, <1>3 DEF HostTrue, Takes
<1>5. \A s \in ours' \cap Sources : cmd'.mem.owned[s].own = "depengine"
  BY <1>1, <1>3 DEF HostTrue, Takes
<1> QED BY <1>1, <1>2, <1>3, <1>4, <1>5, GoesOn

LEMMA VerifyKeeps ==
  ASSUME RemovalInv, VerifyTarget
  PROVE  RemovalInv'
<1>1. Acting(cmd) /\ cmd.stack # <<>> /\ UNCHANGED <<host, disk, snaps, installing, ours>>
  BY DEF VerifyTarget, At, Acting, Top
<1>2. Takes
  BY <1>1, NothingTaken DEF RemovalInv
<1>3. cmd' \in {Gone(cmd), Failing(cmd), Goto(cmd, "host")}
      /\ (cmd' = Gone(cmd) => host.tools[Top.tool] = "absent" \/ cmd' \in {Failing(cmd), Goto(cmd, "host")})
  BY DEF VerifyTarget
<1>4. CASE cmd' = Failing(cmd)
  BY <1>1, <1>2, <1>4, FailingKeeps
<1>5. CASE cmd' = Goto(cmd, "host")
  <2>1. /\ cmd.kind \in {"remove", "undo"} /\ cmd \in Commands /\ CommandInv(cmd) /\ HostTrue(cmd)
    BY <1>1, UnderwayParts
  <2>2. CommandInv(cmd')
    BY <1>1, <1>5, <2>1, GotoHostSound
  <2>3. cmd'.gone = cmd.gone /\ cmd'.kind = cmd.kind /\ cmd'.mem = cmd.mem
    BY <1>1, <1>5, <2>1, GotoHostSound
  <2>4. \A t \in cmd'.gone : host'.tools[t] = "absent"
    BY <1>1, <2>1, <2>3 DEF HostTrue
  <2>5. \A s \in ours' \cap Sources : cmd'.mem.owned[s].own = "depengine"
    BY <1>1, <2>1, <2>3 DEF HostTrue
  <2> QED BY <1>1, <1>2, <2>1, <2>2, <2>3, <2>4, <2>5, GoesOn
<1>6. CASE cmd' = Gone(cmd) /\ host.tools[Top.tool] = "absent"
  BY <1>1, <1>2, <1>6, GoneKeeps
<1> QED BY <1>3, <1>4, <1>5, <1>6

LEMMA RemoveTargetTakes ==
  ASSUME RemovalInv, RemoveTarget
  PROVE  /\ Takes /\ host'.sources = host.sources /\ UNCHANGED <<snaps, installing>>
         /\ cmd' = Failing(cmd) \/ (cmd' = Gone(cmd) /\ host'.tools[Top.tool] = "absent")
         /\ \A t \in Tools : t # Top.tool => host'.tools[t] = host.tools[t]
<1>1. /\ Top.tool \in Tools /\ host \in Hosts /\ host.tools \in [Tools -> {"absent", "broken", "present"}]
      /\ UNCHANGED <<disk, snaps, installing>>
  BY UnderwayParts DEF RemoveTarget, At, Hosts
<1>2. PICK left \in {"absent", "broken", "present"} :
        /\ host.tools[Top.tool] = "absent" => left = "absent"
        /\ left = "present" => host.tools[Top.tool] = "present"
        /\ host' = [host EXCEPT !.tools[Top.tool] = left]
        /\ ours' = (IF left = "present" THEN ours ELSE ours \ {Top.tool})
        /\ cmd' = Failing(cmd) \/ (cmd' = Gone(cmd) /\ left = "absent")
  <2>1. CASE /\ cmd' = Gone(cmd) /\ host' = [host EXCEPT !.tools[Top.tool] = "absent"]
             /\ ours' = ours \ {Top.tool}
    BY <1>1, <2>1
  <2>2. ASSUME NEW left \in {"absent", "broken", host.tools[Top.tool]}, cmd' = Failing(cmd),
               host.tools[Top.tool] = "absent" => left = "absent",
               host' = [host EXCEPT !.tools[Top.tool] = left],
               ours' = IF left = "present" THEN ours ELSE ours \ {Top.tool}
        PROVE  \E x \in {"absent", "broken", "present"} :
                 /\ host.tools[Top.tool] = "absent" => x = "absent"
                 /\ x = "present" => host.tools[Top.tool] = "present"
                 /\ host' = [host EXCEPT !.tools[Top.tool] = x]
                 /\ ours' = (IF x = "present" THEN ours ELSE ours \ {Top.tool})
                 /\ cmd' = Failing(cmd) \/ (cmd' = Gone(cmd) /\ x = "absent")
    <3>1. left \in {"absent", "broken", "present"} /\ (left = "present" => host.tools[Top.tool] = "present")
      BY <1>1, <2>2
    <3> QED BY <2>2, <3>1
  <2> QED BY <2>1, <2>2 DEF RemoveTarget
<1>3. Takes /\ host'.sources = host.sources /\ host'.tools[Top.tool] = left
  BY <1>1, <1>2, UninstallTakes
<1>4. \A t \in Tools : t # Top.tool => host'.tools[t] = host.tools[t]
  BY <1>1, <1>2 DEF Hosts
<1> QED BY <1>1, <1>2, <1>3, <1>4

LEMMA RemoveKeeps ==
  ASSUME RemovalInv, RemoveTarget
  PROVE  RemovalInv'
<1>1. Acting(cmd) /\ cmd.stack # <<>>
  BY DEF RemoveTarget, At, Acting, Top
<1>2. /\ Takes /\ UNCHANGED <<snaps, installing>>
      /\ cmd' = Failing(cmd) \/ (cmd' = Gone(cmd) /\ host'.tools[Top.tool] = "absent")
  BY RemoveTargetTakes
<1> QED BY <1>1, <1>2, FailingKeeps, GoneKeeps

LEMMA CleanupSourceKeeps ==
  ASSUME RemovalInv, CleanupSource
  PROVE  RemovalInv'
<1>1. /\ cmd.stack # <<>> /\ Last(cmd.stack).step = "sources" /\ Top = Last(cmd.stack)
      /\ UNCHANGED <<disk, snaps, installing>>
  BY DEF CleanupSource, At, Top
<1>2. /\ cmd \in Commands /\ CommandInv(cmd) /\ HostTrue(cmd) /\ cmd.kind = "remove"
      /\ cmd.mem \in States /\ cmd.mem.owned \in [Resources -> Own!OwnedState] /\ cmd.failed \in BOOLEAN
      /\ Top.sources \subseteq Sources
  <2>1. /\ cmd \in Commands /\ CommandInv(cmd) /\ HostTrue(cmd) /\ FrameSound(cmd, Top)
        /\ cmd.kind \in {"remove", "undo"} /\ Top \in Frames
    BY <1>1, UnderwayParts
  <2> QED BY <1>1, <2>1 DEF FrameSound, Commands, States, Frames
<1>3. ASSUME NEW s \in Top.sources, host' = [host EXCEPT !.sources = @ \ {s}], ours' = ours \ {s},
             UNCHANGED cmd
      PROVE  RemovalInv'
  <2>1. s \in Sources
    BY <1>2
  <2>2. Takes
    BY <1>1, <1>3, <2>1, DropTakes
  <2> QED BY <1>1, <1>3, <2>2, CommandWaits
\* The rest leaves the host alone.
<1>4. ASSUME NEW e, cmd' = Untracked(e), UNCHANGED <<host, ours>>, e \in Commands,
             e.kind = cmd.kind, e.all = cmd.all, e.requested = cmd.requested, e.todo = cmd.todo,
             e.snap = cmd.snap, e.gone = cmd.gone, e.stack = cmd.stack, e.mem.tools = cmd.mem.tools,
             \A r \in Resources : \/ e.mem.owned[r] = cmd.mem.owned[r]
                                  \/ e.mem.owned[r].own = "none" /\ e.mem.owned[r].deps = {},
             ~e.failed => /\ ~cmd.failed
                          /\ \A s \in Last(cmd.stack).sources : e.mem.owned[s].own = "none",
             \A s \in ours \cap Sources : e.mem.owned[s].own = "depengine"
      PROVE  RemovalInv'
  <2>1. /\ CommandInv(cmd') /\ cmd'.gone = cmd.gone /\ cmd'.kind = cmd.kind
        /\ \A s \in Sources : cmd'.mem.owned[s] = e.mem.owned[s]
    BY <1>1, <1>2, <1>4, UntrackedSound
  <2>2. Takes
    BY <1>1, <1>4, NothingTaken DEF RemovalInv
  <2>3. \A t \in cmd'.gone : host'.tools[t] = "absent"
    BY <1>2, <1>4, <2>1 DEF HostTrue
  <2>4. \A s \in ours' \cap Sources : cmd'.mem.owned[s].own = "depengine"
    BY <1>4, <2>1
  <2>5. cmd.kind # "idle" /\ cmd'.kind # "idle"
    BY <1>2, <2>1
  <2> QED BY <1>1, <2>1, <2>2, <2>3, <2>4, <2>5, GoesOn
<1>5. CASE /\ Top.sources \cap host.sources = {} /\ UNCHANGED <<host, ours>>
           /\ cmd' = Untracked([cmd EXCEPT !.mem.owned = Dropped(@, Top.sources)])
  <2> DEFINE e == [cmd EXCEPT !.mem.owned = Dropped(@, Top.sources)]
             o == Dropped(cmd.mem.owned, Top.sources)
             m == [cmd.mem EXCEPT !.owned = o]
  <2>1. e = Becomes(cmd, cmd.gone, m, cmd.stack, cmd.failed)
    BY <1>2, DroppingBecomes
  <2>2. /\ o \in [Resources -> Own!OwnedState]
        /\ \A r \in Resources : /\ r \in Top.sources => o[r].own = "none" /\ o[r].deps = {}
                                /\ r \notin Top.sources => o[r] = cmd.mem.owned[r]
    BY <1>2, DroppedParts
  <2> HIDE DEF o
  <2>3. m \in States /\ m.tools = cmd.mem.tools /\ m.owned = o
    BY <1>2, <2>2 DEF States
  <2> HIDE DEF m, e
  <2>4. cmd.gone \in SUBSET Tools /\ cmd.stack \in Seq(Frames)
    BY <1>2 DEF Commands
  <2>5. e \in Commands /\ e.kind = cmd.kind /\ e.all = cmd.all /\ e.requested = cmd.requested
        /\ e.todo = cmd.todo /\ e.snap = cmd.snap /\ e.gone = cmd.gone /\ e.stack = cmd.stack
        /\ e.mem = m /\ e.failed = cmd.failed
    BY <1>2, <2>1, <2>3, <2>4, BecomesFields
  <2>6. \A s \in Last(cmd.stack).sources : e.mem.owned[s].own = "none"
    BY <1>1, <1>2, <2>2, <2>3, <2>5 DEF Resources
  <2>7. \A s \in ours \cap Sources : s \notin Top.sources
    BY <1>5 DEF RemovalInv, OwnTruth
  <2>8. \A s \in ours \cap Sources : e.mem.owned[s].own = "depengine"
    BY <1>2, <2>2, <2>3, <2>5, <2>7 DEF Resources, HostTrue
  <2>9. \A r \in Resources : \/ e.mem.owned[r] = cmd.mem.owned[r]
                             \/ e.mem.owned[r].own = "none" /\ e.mem.owned[r].deps = {}
    BY <2>2, <2>3, <2>5
  <2>10. cmd' = Untracked(e)
    BY <1>5 DEF e
  <2> QED BY <1>4, <1>5, <2>3, <2>5, <2>6, <2>8, <2>9, <2>10
<1>6. CASE UNCHANGED <<host, ours>> /\ cmd' = Untracked([cmd EXCEPT !.failed = TRUE])
  <2> DEFINE b == TRUE
             e == [cmd EXCEPT !.failed = b]
  <2>1. b \in BOOLEAN /\ b
    OBVIOUS
  <2>2. cmd' = Untracked(e)
    BY <1>6
  <2> HIDE DEF b
  <2>3. e = Becomes(cmd, cmd.gone, cmd.mem, cmd.stack, b)
    BY <1>2, FailedBecomes
  <2>4. cmd.gone \in SUBSET Tools /\ cmd.stack \in Seq(Frames)
    BY <1>2 DEF Commands
  <2> HIDE DEF e
  <2>a. b \in BOOLEAN
    BY <2>1
  <2>5. e \in Commands /\ e.kind = cmd.kind /\ e.all = cmd.all /\ e.requested = cmd.requested
        /\ e.todo = cmd.todo /\ e.snap = cmd.snap /\ e.gone = cmd.gone /\ e.stack = cmd.stack
        /\ e.mem = cmd.mem /\ e.failed = b
    BY <1>2, <2>a, <2>3, <2>4, BecomesFields
  <2>6. e.failed
    BY <2>1, <2>5
  <2>7. \A s \in ours \cap Sources : e.mem.owned[s].own = "depengine"
    BY <1>2, <2>5 DEF HostTrue
  <2> QED BY <1>4, <1>6, <2>2, <2>5, <2>6, <2>7
<1> HIDE DEF RemovalInv
<1> QED BY <1>3, <1>5, <1>6 DEF CleanupSource

LEMMA CleanupHelpersKeeps ==
  ASSUME RemovalInv, CleanupHelpers
  PROVE  RemovalInv'
<1>1. /\ cmd.stack # <<>> /\ Last(cmd.stack).step = "helpers" /\ Top = Last(cmd.stack)
      /\ UNCHANGED <<host, disk, snaps, installing, ours>>
  BY DEF CleanupHelpers, At, Top
<1>2. /\ CommandInv(cmd) /\ HostTrue(cmd) /\ AtHelpers(cmd) /\ cmd.kind = "remove" /\ disk \in States
      /\ Top.helpers \subseteq Tools
  <2>1. /\ CommandInv(cmd) /\ HostTrue(cmd) /\ FrameSound(cmd, Top) /\ disk \in States
        /\ cmd.kind \in {"remove", "undo"} /\ Top \in Frames
    BY <1>1, UnderwayParts
  <2> QED BY <1>1, <2>1 DEF FrameSound, Frames, AtHelpers
<1>3. ASSUME CommandInv(cmd'), Later(cmd, cmd'), cmd'.gone = cmd.gone,
             \A s \in Sources : cmd'.mem.owned[s] = cmd.mem.owned[s]
      PROVE  RemovalInv'
  <2>1. Takes
    BY <1>1, NothingTaken DEF RemovalInv
  <2>2. \A t \in cmd'.gone : host'.tools[t] = "absent"
    BY <1>1, <1>2, <1>3 DEF HostTrue
  <2>3. \A s \in ours' \cap Sources : cmd'.mem.owned[s].own = "depengine"
    BY <1>1, <1>2, <1>3 DEF HostTrue
  <2>4. cmd.kind # "idle" /\ cmd'.kind # "idle"
    BY <1>2, <1>3 DEF Later
  <2> QED BY <1>1, <1>3, <2>1, <2>2, <2>3, <2>4, GoesOn
<1>4. CASE Top.helpers = {} /\ cmd' = Popped(cmd)
  <2>1. CommandInv(cmd') /\ Later(cmd, cmd') /\ cmd'.gone = cmd.gone /\ cmd'.mem = cmd.mem
    BY <1>1, <1>2, <1>4, PoppedAtEnd
  <2> QED BY <1>3, <2>1
<1>5. ASSUME NEW h \in Top.helpers, cmd' = AfterHelper(Skipping(cmd, h), h)
      PROVE  RemovalInv'
  <2> DEFINE c == Skipping(cmd, h)
  <2>1. /\ c \in Commands /\ Sound(c) /\ AtHelpers(c) /\ CompleteBut(c, h) /\ Later(cmd, c)
        /\ c.gone = cmd.gone /\ c.mem = cmd.mem
    BY <1>2, SkippingSound
  <2> HIDE DEF c
  <2>2. cmd' = AfterHelper(c, h) /\ h \in Tools
    BY <1>2, <1>5 DEF c
  <2>3. /\ CommandInv(cmd') /\ Later(c, cmd') /\ cmd'.gone = c.gone
        /\ \A s \in Sources : cmd'.mem.owned[s] = c.mem.owned[s]
    BY <1>2, <2>1, <2>2, AfterHelperSound
  <2>4. Later(cmd, cmd')
    BY <2>1, <2>3 DEF Later
  <2> QED BY <1>3, <2>1, <2>3, <2>4
<1> HIDE DEF RemovalInv
<1> QED BY <1>4, <1>5 DEF CleanupHelpers, Skipping

LEMMA OutcomeParts ==
  ASSUME RemovalInv, cmd.kind # "idle"
  PROVE  /\ Outcome(cmd) \in States /\ Outcome(cmd).owned = cmd.mem.owned
         /\ cmd.kind = "undo" => Outcome(cmd).tools = MergeUndoTools(cmd)
         /\ cmd.kind = "remove" => Outcome(cmd) = cmd.mem
<1>1. cmd.mem \in States /\ cmd.mem.tools \in Records /\ cmd.snap \in Records
      /\ cmd.kind \in {"remove", "undo"}
  BY DEF RemovalInv, Types, Commands, States
<1> DEFINE k == MergeUndoTools(cmd)
<1>2. k \in Records
  BY <1>1 DEF MergeUndoTools, Records
<1> HIDE DEF k
<1>3. [cmd.mem EXCEPT !.tools = k] \in States /\ [cmd.mem EXCEPT !.tools = k].tools = k
      /\ [cmd.mem EXCEPT !.tools = k].owned = cmd.mem.owned
  BY <1>1, <1>2 DEF States
<1> QED BY <1>1, <1>3 DEF Outcome, k

LEMMA SaveKeeps ==
  ASSUME RemovalInv, Save
  PROVE  RemovalInv'
<1>1. cmd.kind # "idle" /\ cmd' = Idle /\ UNCHANGED <<host, snaps, installing, ours>>
  BY DEF Save, Ending
<1>2. CommandInv(cmd) /\ HostTrue(cmd) /\ OwnTruth /\ disk \in States
  BY <1>1 DEF RemovalInv, Underway, Types
<1>3. CASE disk' = Outcome(cmd)
  <2>1. disk' \in States /\ disk'.owned = cmd.mem.owned
    BY <1>1, <1>3, OutcomeParts
  <2>2. \A r \in Resources : disk'.owned[r].own = "depengine" => disk.owned[r].own = "depengine"
    BY <1>2, <2>1 DEF CommandInv, Sound, MemSound
  <2>3. \A s \in ours \cap Sources : disk'.owned[s].own = "depengine"
    BY <1>2, <2>1 DEF HostTrue
  <2> QED BY <1>1, <2>1, <2>2, <2>3, Ends
<1>4. CASE disk' = disk
  BY <1>1, <1>2, <1>4, Ends DEF OwnTruth
<1> QED BY <1>3, <1>4 DEF Save

LEMMA CrashKeeps ==
  ASSUME RemovalInv, Crash
  PROVE  RemovalInv'
<1>1. cmd' = Idle /\ UNCHANGED <<host, disk, snaps, installing, ours>>
  BY DEF Crash
<1>2. OwnTruth /\ disk \in States
  BY DEF RemovalInv, Types
<1> QED BY <1>1, <1>2, Ends DEF OwnTruth

LEMMA UninstallKeeps ==
  ASSUME RemovalInv, NEW t \in Tools, AdminUninstalls(t)
  PROVE  RemovalInv'
<1>1. PICK left \in {"absent", "broken"} : host' = [host EXCEPT !.tools[t] = left]
  BY DEF AdminUninstalls
<1>2. /\ host.tools[t] = "present" /\ ours' = ours \ {t} /\ UNCHANGED <<disk, snaps, installing, cmd>>
  BY DEF AdminUninstalls
<1>3. Takes
  BY <1>1, <1>2, UninstallTakes
<1> QED BY <1>2, <1>3, CommandWaits

LEMMA DropKeeps ==
  ASSUME RemovalInv, NEW s \in Sources, AdminDropsSource(s)
  PROVE  RemovalInv'
<1>1. /\ host' = [host EXCEPT !.sources = @ \ {s}] /\ ours' = ours \ {s}
      /\ UNCHANGED <<disk, snaps, installing, cmd>>
  BY DEF AdminDropsSource
<1>2. Takes
  BY <1>1, DropTakes
<1> QED BY <1>1, <1>2, CommandWaits

LEMMA NextRemoval == RemovalInv /\ [Next]_vars => RemovalInv'
<1> SUFFICES ASSUME RemovalInv, [Next]_vars PROVE RemovalInv'
  OBVIOUS
<1>1. CASE UNCHANGED vars
  <2>1. Takes
    BY <1>1, NothingTaken DEF vars, RemovalInv
  <2> QED BY <1>1, <2>1, CommandWaits DEF vars
<1>2. ASSUME NEW t \in Tools, SaveSnapshot(t) PROVE RemovalInv'
  BY <1>2, SnapshotKeeps
<1>3. ASSUME NEW t \in Tools, AdminUninstalls(t) PROVE RemovalInv'
  BY <1>3, UninstallKeeps
<1>4. ASSUME NEW t \in Tools, Forget(t) PROVE RemovalInv'
  BY <1>4, ForgetKeeps
<1>5. CASE RunInstall
  BY <1>5, InstallKeeps
<1>6. ASSUME NEW r \in Resources, AdminAdds(r) PROVE RemovalInv'
  BY <1>6, AddKeeps
<1>7. ASSUME NEW s \in Sources, AdminDropsSource(s) PROVE RemovalInv'
  BY <1>7, DropKeeps
<1>8. ASSUME NEW requested \in SUBSET Tools, NEW all \in BOOLEAN, StartRemove(requested, all)
      PROVE  RemovalInv'
  BY <1>8, StartRemoveKeeps
<1>9. CASE NextTool \/ StartUndo
  BY <1>9, NextToolKeeps, StartUndoKeeps
<1>10. CASE VerifyTarget \/ RemoveTarget
  BY <1>10, VerifyKeeps, RemoveKeeps
<1>11. CASE CleanupSource \/ CleanupHelpers
  BY <1>11, CleanupSourceKeeps, CleanupHelpersKeeps
<1>12. CASE Save \/ Crash
  BY <1>12, SaveKeeps, CrashKeeps
<1> HIDE DEF RemovalInv
<1> QED BY <1>1, <1>2, <1>3, <1>4, <1>5, <1>6, <1>7, <1>8, <1>9, <1>10, <1>11, <1>12 DEF Next

\* State file, copy and host stay of their types, and a command under way keeps
\* its invariant, whatever fails and whatever the administrator does meanwhile.
THEOREM RemovalInvariant == Spec => []RemovalInv
  BY InitRemoval, NextRemoval, PTL DEF Spec

\* No command, no failure of one and no crash lets go of the record of a source
\* depengine added that is still there: ReleaseDependentResources and the
\* cleanup of internal/app/remove.go drop records after the fact only.
THEOREM SourcesNeverForgotten == Spec => []NothingForgotten
<1>1. RemovalInv => NothingForgotten
  BY DEF RemovalInv, OwnTruth, NothingForgotten, Hosts, Types
<1> QED BY <1>1, InitRemoval, NextRemoval, PTL DEF Spec

\* What a save of remove or undo takes out of the state file is gone from the
\* host: a tool whose removal failed stays recorded, mergeUndoTools included.
THEOREM TrackedAlwaysUntilGone == Spec => TrackedUntilGone
<1> DEFINE A == cmd.kind # "idle" => \A t \in Tracked(disk) \ Tracked(disk') : host.tools[t] = "absent"
<1>1. ASSUME RemovalInv, [Next]_vars PROVE [A]_vars
  <2> SUFFICES ASSUME cmd.kind # "idle", NEW t \in Tracked(disk), t \notin Tracked(disk')
               PROVE  host.tools[t] = "absent"
    OBVIOUS
  <2>1. disk' # disk /\ t \in Tools /\ disk.tools[t] # "none" /\ disk'.tools[t] = "none"
    BY DEF Tracked
  <2>2. Save
    <3>1. CASE UNCHANGED vars
      BY <2>1, <3>1 DEF vars
    <3>2. CASE Next
      BY <2>1, <3>2 DEF Next, SaveSnapshot, AdminUninstalls, Forget, RunInstall, AdminAdds,
           AdminDropsSource, StartRemove, NextTool, VerifyTarget, RemoveTarget, CleanupSource,
           CleanupHelpers, StartUndo, Crash
    <3> QED BY <1>1, <3>1, <3>2
  <2>3. disk' = Outcome(cmd)
    BY <2>1, <2>2 DEF Save
  <2>4. cmd.kind \in {"remove", "undo"} /\ MemSound(cmd) /\ HostTrue(cmd)
    BY <1>1 DEF RemovalInv, Underway, Types, Commands, CommandInv, Sound
  <2>5. t \in cmd.gone
    <3>1. CASE cmd.kind = "remove"
      <4>1. cmd.mem.tools[t] = "none"
        BY <1>1, <2>1, <2>3, <3>1, OutcomeParts
      <4> QED BY <2>4, <4>1 DEF MemSound
    <3>2. CASE cmd.kind = "undo"
      <4>1. MergeUndoTools(cmd)[t] = "none" /\ cmd.mem = disk /\ cmd.requested = Added(cmd.snap)
        BY <1>1, <2>1, <2>3, <2>4, <3>2, OutcomeParts DEF MemSound
      <4> QED BY <2>1, <4>1 DEF MergeUndoTools, Added, Tracked
    <3> QED BY <2>4, <3>1, <3>2
  <2> QED BY <2>4, <2>5 DEF HostTrue
<1>2. RemovalInv /\ [Next]_vars => [A]_vars
  BY <1>1
<1> QED BY <1>2, InitRemoval, NextRemoval, PTL DEF Spec, TrackedUntilGone

\* A remove takes from the host the tools it was asked for, helpers that are no
\* root and sources that depengine itself installed or added, and none of them
\* while a tool that stays needs it: what was found there is never taken.
THEOREM AlwaysTakesOnlyItsOwn == Spec => TakesOnlyItsOwn
<1> DEFINE A == RemoveTarget \/ CleanupSource =>
                  \A r \in Taken : cmd.kind = "remove" =>
                    /\ \/ r \in cmd.requested
                       \/ r \in ours /\ (r \in Tools => cmd.mem.tools[r] = "dep")
                    /\ cmd.mem.owned[r].deps \subseteq cmd.requested
<1>1. ASSUME RemovalInv, RemoveTarget, NEW r \in Taken, cmd.kind = "remove"
      PROVE  /\ \/ r \in cmd.requested
                \/ r \in ours /\ (r \in Tools => cmd.mem.tools[r] = "dep")
             /\ cmd.mem.owned[r].deps \subseteq cmd.requested
  <2>1. cmd.stack # <<>> /\ Top.step = "host"
    BY <1>1 DEF RemoveTarget, At
  <2>2. FrameSound(cmd, Top) /\ CommandInv(cmd) /\ Top.tool \in Tools /\ OwnTruth
    BY <1>1, <2>1, UnderwayParts DEF RemovalInv
  <2>3. r = Top.tool
    BY <1>1, RemoveTargetTakes DEF Taken, OnHost
  <2>4. r \in Resources \cap OnHost
    BY <1>1 DEF Taken
  <2>5. CASE Top.auto
    <3>1. cmd.mem.tools[r] = "dep" /\ Zero(cmd.mem.owned, r)
      BY <1>1, <2>1, <2>2, <2>3, <2>5 DEF FrameSound
    <3>2. disk.owned[r].own = "depengine"
      BY <2>2, <2>4, <3>1 DEF CommandInv, Sound, MemSound, Zero
    <3>3. r \in ours
      BY <2>2, <2>4, <3>2 DEF OwnTruth
    <3> QED BY <3>1, <3>3 DEF Zero
  <2>6. CASE ~Top.auto
    BY <1>1, <2>2, <2>3, <2>6 DEF FrameSound
  <2> QED BY <2>5, <2>6
<1>2. ASSUME RemovalInv, CleanupSource, NEW r \in Taken, cmd.kind = "remove"
      PROVE  /\ r \in ours /\ (r \in Tools => cmd.mem.tools[r] = "dep")
             /\ cmd.mem.owned[r].deps \subseteq cmd.requested
  <2>1. cmd.stack # <<>> /\ Top.step = "sources"
    BY <1>2 DEF CleanupSource, At
  <2>2. FrameSound(cmd, Top) /\ CommandInv(cmd) /\ Top \in Frames /\ OwnTruth /\ host \in Hosts
    BY <1>2, <2>1, UnderwayParts DEF RemovalInv
  <2>3. r \in Resources \cap OnHost /\ r \notin OnHost'
    BY <1>2 DEF Taken
  <2>4. host' # host
    BY <2>3 DEF OnHost
  <2>5. PICK s \in Top.sources : host' = [host EXCEPT !.sources = @ \ {s}]
    BY <1>2, <2>4 DEF CleanupSource
  <2>6. host'.tools = host.tools /\ host'.sources = host.sources \ {s}
    BY <2>2, <2>5 DEF Hosts
  <2>7. r = s
    BY <2>3, <2>6 DEF OnHost
  <2>8. Zero(cmd.mem.owned, r)
    BY <2>1, <2>2, <2>7 DEF FrameSound
  <2>9. disk.owned[r].own = "depengine"
    BY <2>2, <2>3, <2>8 DEF CommandInv, Sound, MemSound, Zero
  <2>10. r \in ours
    BY <2>2, <2>3, <2>9 DEF OwnTruth
  <2>11. r \notin Tools
    BY <2>2, <2>7, RemovalAssumption DEF Frames
  <2> QED BY <2>8, <2>10, <2>11 DEF Zero
<1>3. RemovalInv /\ [Next]_vars => [A]_vars
  BY <1>1, <1>2
<1> QED BY <1>3, InitRemoval, NextRemoval, PTL DEF Spec, TakesOnlyItsOwn

\* A remove that reports no failure has taken the record of all it was asked to
\* remove, and of all that lost its last dependent with them, a helper the user
\* has also asked for as a root excepted: nothing is left behind for nobody.
THEOREM AlwaysCleanExit == Spec => CleanExit
<1> DEFINE A == cmd.kind = "remove" /\ Save /\ ~cmd.failed /\ disk' = cmd.mem =>
                  /\ \A t \in cmd.requested : disk'.tools[t] = "none"
                  /\ \A r \in Resources : Zero(disk'.owned, r) /\ ~Zero(disk.owned, r) =>
                       r \in Tools /\ disk'.tools[r] = "root"
<1>1. ASSUME RemovalInv, cmd.kind = "remove", Save, ~cmd.failed, disk' = cmd.mem
      PROVE  /\ \A t \in cmd.requested : disk'.tools[t] = "none"
             /\ \A r \in Resources : Zero(disk'.owned, r) /\ ~Zero(disk.owned, r) =>
                  r \in Tools /\ disk'.tools[r] = "root"
  <2>1. cmd.stack = <<>> /\ cmd.todo = {}
    BY <1>1 DEF Save, Ending
  <2>2. Complete(cmd)
    BY <1>1 DEF RemovalInv, Underway, CommandInv
  <2>3. \A t \in cmd.requested : cmd.mem.tools[t] = "none"
    BY <1>1, <2>1, <2>2 DEF Complete, Busy
  <2>4. \A r \in Resources : Pending(cmd, r) => r \in Tools /\ cmd.mem.tools[r] = "root"
    BY <2>1 DEF Pending, Busy
  <2>5. \A r \in Resources : Zero(cmd.mem.owned, r) /\ ~Zero(disk.owned, r) => Pending(cmd, r)
    BY <1>1, <2>2 DEF Complete
  <2> QED BY <1>1, <2>3, <2>4, <2>5
<1>2. RemovalInv /\ [Next]_vars => [A]_vars
  BY <1>1
<1> QED BY <1>2, InitRemoval, NextRemoval, PTL DEF Spec, CleanExit

================================================================================
