---------------------------- MODULE NativeManagers ----------------------------
(***************************************************************************)
(* The distribution's package managers: how their state is queried, and    *)
(* what an installation has to show after its command succeeded            *)
(* (src/internal/exec/native_adapter.go, src/internal/native).             *)
(*                                                                         *)
(* Families with a database are asked twice, for the package and for a     *)
(* sentinel that every host of the family has: a query that finds nothing  *)
(* is evidence only while the sentinel is found.                           *)
(***************************************************************************)
EXTENDS PackageManagers, FiniteSets

\* The clan that a method kind named after a manager belongs to.
ClanOfManager ==
  [apt |-> "debian", dnf |-> "fedora", dnf5 |-> "fedora", yum |-> "fedora",
   zypper |-> "suse", pacman |-> "arch", apk |-> "alpine", xbps |-> "void",
   emerge |-> "gentoo", portage |-> "gentoo", brew |-> "macos",
   port |-> "macos", pkg_add |-> "openbsd", pkgin |-> "netbsd",
   winget |-> "windows", opkg |-> "opkg"]

NativeKinds == DOMAIN ClanOfManager

IsDpkgClan(clan) == clan \in {"debian", "mint", "termux"}

IsRpmClan(clan) == clan \in {"fedora", "suse"}

\* How a kind is observed.
Family(kind) ==
  LET clan == ClanOfManager[kind]
  IN CASE IsDpkgClan(clan)           -> "dpkg"
       [] IsRpmClan(clan)            -> "rpm"
       [] kind \in {"port", "winget"} -> kind
       [] OTHER                      -> "status"

HasDatabase(kind) == Family(kind) \in {"dpkg", "rpm"}

\* The record every host of the family has is there.
SentinelFound(b) == b.exit = 0 /\ b.said = "rows"

\* One record of the package, not one for each of several architectures.
OneRecord(c, a) ==
  a.said = "rows" /\ \E r \in a.rows : a.rows = {r} /\ r.name = c.pkg

\* A status of 1 without data means absence; a removed package may have left
\* its configuration behind.
DpkgReading(c, a, b) ==
  IF a.exit \notin {0, 1} \/ ~SentinelFound(b) THEN "unknown"
  ELSE IF a.exit = 1
    THEN IF a.rows = {} THEN "absent" ELSE "unknown"
  ELSE IF ~OneRecord(c, a) THEN "unknown"
  ELSE CASE \E r \in a.rows : r.form = "whole"    -> "present"
         [] \E r \in a.rows : r.form = "leftover" -> "absent"
         [] OTHER                                 -> "unknown"

\* A status of 1 is absence only in the words that say so.
RpmReading(c, a, b) ==
  IF ~SentinelFound(b) THEN "unknown"
  ELSE CASE a.exit = 0 /\ OneRecord(c, a)    -> "present"
         [] a.exit = 1 /\ a.said = "missing" -> "absent"
         [] OTHER                            -> "unknown"

\* DatabaseReading that does without the sentinel.
DatabaseTrusted(c, a, b) ==
  LET found == [b EXCEPT !.exit = 0, !.said = "rows"]
  IN IF Family(c.kind) = "dpkg" THEN DpkgReading(c, a, found)
     ELSE RpmReading(c, a, found)

\* What both answers of a database say.
DatabaseReading(c, a, b) ==
  IF Family(c.kind) = "dpkg" THEN DpkgReading(c, a, b) ELSE RpmReading(c, a, b)

Complete(a) == a.ran /\ a.whole

ThisPackage(c) == Observed("present", Stated([package |-> c.pkg]))

NoIdentity == Observed("absent", Nothing)

DatabaseObserve(c, a, b) ==
  IF ~Complete(a) \/ ~Complete(b) THEN ProbeFailed
  ELSE CASE DatabaseReading(c, a, b) = "present" -> ThisPackage(c)
         [] DatabaseReading(c, a, b) = "absent"  ->
              [NoIdentity EXCEPT !.detail = TRUE]
         [] OTHER                                -> Unclear

\* MacPorts exits 0 with no port installed: only its own words are evidence.
PortInstalled(a) == \E r \in a.rows : r.form = "whole"

PortObserve(c, a) ==
  IF ~a.ran THEN ProbeFailed
  ELSE IF ~a.whole \/ a.exit # 0 \/ a.said = "other" THEN Unclear
  ELSE IF PortInstalled(a) THEN ThisPackage(c)
  ELSE NoIdentity

\* winget prints the version and the source of what it lists.
WingetObserve(c, a) ==
  LET rows == {r \in a.rows : r.pkg = c.pkg /\ c.src \in {"", r.src}}
      row  == CHOOSE r \in rows : TRUE
  IN IF ~a.ran THEN ProbeFailed
     ELSE IF a.exit # 0 \/ rows = {} THEN NoIdentity
     ELSE Observed("present", Stated([package |-> c.pkg, version |-> row.ver,
                                      source |-> row.src]))

\* The others answer by their exit status alone.
StatusObserve(c, a) ==
  IF ~a.ran THEN ProbeFailed
  ELSE IF a.exit = 0 THEN ThisPackage(c) ELSE NoIdentity

NativeObserve(c, a, b) ==
  CASE HasDatabase(c.kind)         -> DatabaseObserve(c, a, b)
    [] Family(c.kind) = "port"     -> PortObserve(c, a)
    [] Family(c.kind) = "winget"   -> WingetObserve(c, a)
    [] Family(c.kind) = "status"   -> StatusObserve(c, a)

\* Every native installation but winget's is looked up before it counts.
LooksUpInstall(kind) == kind \in NativeKinds /\ Family(kind) # "winget"

VerifyNativeInstall(c, a, b) ==
  CASE HasDatabase(c.kind) ->
         /\ Complete(a) /\ Complete(b)
         /\ DatabaseReading(c, a, b) = "present"
    [] Family(c.kind) = "port" ->
         Complete(a) /\ a.exit = 0 /\ a.said # "other" /\ PortInstalled(a)
    [] OTHER -> a.ran /\ a.exit = 0

=============================================================================
