----------------------------- MODULE LinksProofs -----------------------------
(***************************************************************************)
(* Proofs about the two tools that put links where files may be: Facade,   *)
(* for every manifest, whichever sources exist, and every set of           *)
(* installers; LinkSetup, for every set of file names and any number of    *)
(* runs of the script.                                                     *)
(***************************************************************************)
EXTENDS Facade, LinkSetup, TLAPS

Seen == {"absent", "real"} \cup Links
Deciding == {"decide", "create", "replace", "publish"}

FacadeTypeOK ==
  /\ destination \in [Manifest -> Seen]
  /\ changes \in Nat
  /\ installMode \in [Installers -> Modes]
  /\ remaining \in [Installers -> SUBSET Manifest]
  /\ facadePc \in [Installers -> {"next", "look", "done", "threw", "dead"} \cup Deciding]
  /\ entry \in [Installers -> Manifest \cup {NoEntry}]
  /\ looked \in [Installers -> Seen]
  /\ facadeReport \in [Installers -> [Manifest -> {"none", "ok", "error"}]]

\* An installer works on an entry whose source exists, and replaces what it saw
\* to be a link, in repair mode only.
OnItsEntry ==
  \A i \in Installers :
    /\ facadePc[i] \in {"look"} \cup Deciding => entry[i] \in Sources
    /\ facadePc[i] \in {"replace", "publish"} =>
         installMode[i] = "repair" /\ looked[i] \in {"wrong", "broken"}

\* While the owner leaves the destinations alone, a link that was seen is still
\* a link, and one that was seen to be right still is.
SeenStays ==
  changes = 0 =>
    \A i \in Installers : facadePc[i] \in Deciding =>
      /\ looked[i] \in Links => destination[entry[i]] \in Links
      /\ looked[i] = "right" => destination[entry[i]] = "right"

ReportsHold ==
  changes = 0 =>
    \A i \in Installers, e \in Manifest :
      facadeReport[i][e] = "ok" => e \in Sources /\ destination[e] = "right"

FacadeInv == FacadeTypeOK /\ OnItsEntry /\ SeenStays /\ ReportsHold

-----------------------------------------------------------------------------
\* No installer has seen or reported anything at first.
LEMMA FacadeInitInv == FacadeInit => FacadeInv
<1> SUFFICES ASSUME FacadeInit PROVE FacadeInv
  OBVIOUS
<1>1. FacadeTypeOK
  BY FacadeConstants DEF FacadeInit, FacadeTypeOK, Seen, Links, Deciding
<1>2. OnItsEntry /\ SeenStays /\ ReportsHold
  BY DEF FacadeInit, OnItsEntry, SeenStays, ReportsHold, Deciding
<1> QED
  BY <1>1, <1>2 DEF FacadeInv


\* An installer that goes on to a place, and changes nothing else that the
\* invariant is about, keeps it, provided that it may be at that place.
LEMMA InstallerMoves ==
  ASSUME FacadeInv, NEW i \in Installers,
         NEW place \in {"done", "threw", "dead"} \cup Deciding,
         Continues(i, place),
         UNCHANGED <<destination, changes, installMode, remaining, entry, looked,
                     facadeReport>>,
         place \in Deciding => facadePc[i] \in Deciding,
         place \in {"replace", "publish"} =>
           installMode[i] = "repair" /\ looked[i] \in {"wrong", "broken"}
  PROVE  FacadeInv'
<1>1. FacadeTypeOK'
  BY DEF FacadeInv, FacadeTypeOK, Continues
<1>2. OnItsEntry'
  BY DEF FacadeInv, FacadeTypeOK, OnItsEntry, Continues, Deciding
<1>3. SeenStays'
  BY DEF FacadeInv, FacadeTypeOK, SeenStays, Continues, Deciding
<1>4. ReportsHold'
  BY DEF FacadeInv, ReportsHold
<1> QED
  BY <1>1, <1>2, <1>3, <1>4 DEF FacadeInv

\* So does one that reports on its entry, with or without the right link put at
\* its destination, unless it reports what is not there.
LEMMA InstallerReports ==
  ASSUME FacadeInv, NEW i \in Installers, NEW verdict \in {"ok", "error"},
         facadePc[i] \in Deciding, Reports(i, verdict),
         \/ UNCHANGED destination
         \/ destination' = [destination EXCEPT ![entry[i]] = "right"],
         verdict = "ok" /\ changes = 0 => destination'[entry[i]] = "right",
         UNCHANGED <<changes, installMode, remaining, entry, looked>>
  PROVE  FacadeInv'
<1>0. entry[i] \in Sources /\ entry[i] \in Manifest
  BY FacadeConstants DEF FacadeInv, OnItsEntry
<1>a. facadePc' = [facadePc EXCEPT ![i] = "next"]
  BY DEF Reports, Continues
<1>b. facadeReport' = [facadeReport EXCEPT ![i][entry[i]] = verdict]
  BY DEF Reports
<1>c. /\ destination' \in [Manifest -> Seen]
      /\ \A e \in Manifest :
           /\ destination[e] \in Links => destination'[e] \in Links
           /\ destination[e] = "right" => destination'[e] = "right"
  BY <1>0 DEF FacadeInv, FacadeTypeOK, Seen, Links
<1>1. FacadeTypeOK'
  <2>1. facadeReport' \in [Installers -> [Manifest -> {"none", "ok", "error"}]]
    BY <1>0, <1>b DEF FacadeInv, FacadeTypeOK
  <2> QED
    BY <1>a, <1>c, <2>1 DEF FacadeInv, FacadeTypeOK
<1>2. OnItsEntry'
  BY <1>a DEF FacadeInv, FacadeTypeOK, OnItsEntry, Deciding
<1>3. SeenStays'
  <2> SUFFICES ASSUME changes = 0, NEW j \in Installers, facadePc[j] \in Deciding
               PROVE  /\ looked[j] \in Links => destination'[entry[j]] \in Links
                      /\ looked[j] = "right" => destination'[entry[j]] = "right"
    BY <1>a DEF FacadeInv, FacadeTypeOK, SeenStays, Deciding
  <2>1. entry[j] \in Manifest
    BY FacadeConstants DEF FacadeInv, OnItsEntry
  <2> QED
    BY <1>c, <2>1 DEF FacadeInv, SeenStays
<1>4. ReportsHold'
  <2> SUFFICES ASSUME changes = 0, NEW j \in Installers, NEW e \in Manifest,
                      facadeReport'[j][e] = "ok"
               PROVE  e \in Sources /\ destination'[e] = "right"
    BY DEF ReportsHold
  <2>1. CASE j = i /\ e = entry[i]
    BY <1>0, <1>b, <2>1 DEF FacadeInv, FacadeTypeOK
  <2>2. CASE ~(j = i /\ e = entry[i])
    <3>1. facadeReport[j][e] = "ok"
      BY <1>0, <1>b, <2>2 DEF FacadeInv, FacadeTypeOK
    <3> QED
      BY <1>c, <3>1 DEF FacadeInv, ReportsHold
  <2> QED
    BY <2>1, <2>2
<1> QED
  BY <1>1, <1>2, <1>3, <1>4 DEF FacadeInv

\* Each installer takes its next entry, or looks, and keeps the invariant.
LEMMA NextEntryInv ==
  ASSUME FacadeInv, NEW i \in Installers, NextEntry(i)
  PROVE  FacadeInv'
<1>1. CASE remaining[i] = {}
  BY <1>1, InstallerMoves DEF NextEntry, Deciding
<1>2. ASSUME NEW e \in remaining[i],
             remaining' = [remaining EXCEPT ![i] = @ \ {e}],
             entry' = [entry EXCEPT ![i] = e],
             \/ e \in Sources /\ Continues(i, "look") /\ UNCHANGED facadeReport
             \/ /\ facadeReport' = [facadeReport EXCEPT ![i][e] = "error"]
                /\ UNCHANGED facadePc
      PROVE  FacadeInv'
  <2>0. /\ e \in Manifest /\ facadePc[i] = "next"
        /\ UNCHANGED <<destination, changes, installMode, looked>>
    BY <1>2 DEF NextEntry, FacadeInv, FacadeTypeOK
  <2>1. FacadeTypeOK'
    <3>1. facadeReport' \in [Installers -> [Manifest -> {"none", "ok", "error"}]]
      <4>1. facadeReport \in [Installers -> [Manifest -> {"none", "ok", "error"}]]
        BY DEF FacadeInv, FacadeTypeOK
      <4> QED
        BY <1>2, <2>0, <4>1
    <3>2. facadePc' \in [Installers -> {"next", "look", "done", "threw", "dead"}
                                          \cup Deciding]
      BY <1>2 DEF FacadeInv, FacadeTypeOK, Continues
    <3>3. /\ remaining' \in [Installers -> SUBSET Manifest]
          /\ entry' \in [Installers -> Manifest \cup {NoEntry}]
      BY <1>2, <2>0 DEF FacadeInv, FacadeTypeOK
    <3> QED
      BY <2>0, <3>1, <3>2, <3>3 DEF FacadeInv, FacadeTypeOK
  <2>2. OnItsEntry'
    BY <1>2, <2>0 DEF FacadeInv, FacadeTypeOK, OnItsEntry, Continues, Deciding
  <2>3. SeenStays'
    BY <1>2, <2>0 DEF FacadeInv, FacadeTypeOK, SeenStays, Continues, Deciding
  <2>4. ReportsHold'
    BY <1>2, <2>0 DEF FacadeInv, FacadeTypeOK, ReportsHold
  <2> QED
    BY <2>1, <2>2, <2>3, <2>4 DEF FacadeInv
<1> QED
  BY <1>1, <1>2 DEF NextEntry

\* What an installer looks at is what it then knows of the destination.
LEMMA LookInv ==
  ASSUME FacadeInv, NEW i \in Installers, Look(i)
  PROVE  FacadeInv'
<1>0. entry[i] \in Manifest
  BY FacadeConstants DEF FacadeInv, OnItsEntry, Look
<1>1. FacadeTypeOK'
  BY <1>0 DEF FacadeInv, FacadeTypeOK, Look, Continues, Deciding
<1>2. OnItsEntry'
  BY DEF FacadeInv, FacadeTypeOK, OnItsEntry, Look, Continues, Deciding
<1>3. SeenStays'
  BY DEF FacadeInv, FacadeTypeOK, SeenStays, Look, Continues, Deciding
<1>4. ReportsHold'
  BY DEF FacadeInv, ReportsHold, Look
<1> QED
  BY <1>1, <1>2, <1>3, <1>4 DEF FacadeInv

\* Every step of an installer keeps the invariant.
LEMMA InstallStepInv ==
  ASSUME FacadeInv, NEW i \in Installers, InstallStep(i) \/ InstallerDies(i)
  PROVE  FacadeInv'
<1>0. ASSUME facadePc[i] \in Deciding
      PROVE  /\ entry[i] \in Manifest
             /\ looked[i] = "right" /\ changes = 0 => destination[entry[i]] = "right"
             /\ facadePc[i] \in {"replace", "publish"} =>
                  installMode[i] = "repair" /\ looked[i] \in {"wrong", "broken"}
  BY <1>0, FacadeConstants DEF FacadeInv, OnItsEntry, SeenStays
<1>1. CASE DecideEntry(i)
  <2>1. facadePc[i] \in Deciding
    BY <1>1 DEF DecideEntry, Deciding
  <2>2. CASE Reports(i, "ok") /\ looked[i] = "right"
    BY <1>0, <1>1, <2>1, <2>2, InstallerReports DEF DecideEntry
  <2>3. CASE Reports(i, "error")
    BY <1>1, <2>1, <2>3, InstallerReports DEF DecideEntry
  <2>4. CASE Continues(i, "create") /\ UNCHANGED facadeReport
    BY <1>1, <2>1, <2>4, InstallerMoves DEF DecideEntry, Deciding
  <2>5. CASE /\ Continues(i, "replace") /\ UNCHANGED facadeReport
             /\ looked[i] \in {"wrong", "broken"} /\ installMode[i] = "repair"
    BY <1>1, <2>1, <2>5, InstallerMoves DEF DecideEntry, Deciding
  <2>6. CASE Continues(i, "threw") /\ UNCHANGED facadeReport
    BY <1>1, <2>6, InstallerMoves DEF DecideEntry, Deciding
  <2> QED
    BY <1>1, <2>2, <2>3, <2>4, <2>5, <2>6 DEF DecideEntry
<1>2. CASE Create(i)
  <2>1. facadePc[i] \in Deciding
    BY <1>2 DEF Create, Deciding
  <2>2. CASE destination[entry[i]] = "absent"
    <3>1. destination'[entry[i]] = "right"
      BY <1>0, <1>2, <2>1, <2>2 DEF Create, FacadeInv, FacadeTypeOK
    <3> QED
      BY <1>2, <2>1, <2>2, <3>1, InstallerReports DEF Create
  <2>3. CASE destination[entry[i]] # "absent"
    BY <1>2, <2>3, InstallerMoves DEF Create, Deciding
  <2> QED
    BY <2>2, <2>3
<1>3. CASE LinkTemporary(i)
  BY <1>0, <1>3, InstallerMoves DEF LinkTemporary, Deciding
<1>4. CASE PublishLink(i)
  <2>1. facadePc[i] \in Deciding
    BY <1>4 DEF PublishLink, Deciding
  <2>2. destination'[entry[i]] = "right"
    BY <1>0, <1>4, <2>1 DEF PublishLink, FacadeInv, FacadeTypeOK
  <2> QED
    BY <1>4, <2>1, <2>2, InstallerReports DEF PublishLink
<1>5. CASE PublishFails(i)
  BY <1>5, InstallerMoves DEF PublishFails, Deciding
<1>6. CASE InstallerDies(i)
  BY <1>6, InstallerMoves DEF InstallerDies, Deciding
<1> QED
  BY <1>1, <1>2, <1>3, <1>4, <1>5, <1>6, NextEntryInv, LookInv DEF InstallStep

\* What the owner does keeps the invariant.
LEMMA OwnerInv ==
  ASSUME FacadeInv, NEW e \in Manifest, OwnerChanges(e)
  PROVE  FacadeInv'
<1>1. changes' \in Nat \ {0}
  BY DEF OwnerChanges, FacadeInv, FacadeTypeOK
<1>2. destination' \in [Manifest -> Seen]
  BY DEF OwnerChanges, FacadeInv, FacadeTypeOK, Seen
<1>3. FacadeTypeOK' /\ OnItsEntry'
  BY <1>1, <1>2 DEF OwnerChanges, FacadeInv, FacadeTypeOK, OnItsEntry
<1> QED
  BY <1>1, <1>3 DEF FacadeInv, SeenStays, ReportsHold

\* Installers and the owner keep the invariant, a death of an installer included.
LEMMA FacadeInductive == FacadeInv /\ [FacadeNext]_facadeVars => FacadeInv'
<1> SUFFICES ASSUME FacadeInv, [FacadeNext]_facadeVars PROVE FacadeInv'
  OBVIOUS
<1>1. CASE UNCHANGED facadeVars
  BY <1>1 DEF facadeVars, FacadeInv, FacadeTypeOK, OnItsEntry, SeenStays, ReportsHold
<1> QED
  BY <1>1, InstallStepInv, OwnerInv DEF FacadeNext

\* The invariant of the installers holds always: their state keeps its types, each
\* works on an entry with a source and replaces only links, and what it has seen
\* and reported still holds.
THEOREM FacadeInvariant == FacadeSpec => []FacadeInv
BY FacadeInitInv, FacadeInductive, PTL DEF FacadeSpec

\* What any installer reports as installed checks as OK unless the owner has
\* changed it: facade.ts:240-293 for any number of installers and entries.
THEOREM InstalledAsReported == FacadeSpec => []ReportedIsInstalled
<1>1. FacadeInv => ReportedIsInstalled
  BY DEF FacadeInv, ReportsHold, ReportedIsInstalled, CheckEntry
<1> QED
  BY <1>1, FacadeInvariant, PTL

\* Whatever an installer changes becomes the right link in one step, and was
\* absent or had been seen by it, in repair mode, as a link that is not right; no
\* real file is replaced while the owner does nothing.  What the owner puts there
\* between that look and the rename is not protected (facade.ts:217-280).
THEOREM ReplacesWhatItSaw == FacadeSpec => OnlyLinksReplaced
<1> DEFINE Replaced(e) ==
      /\ destination'[e] = "right" /\ e \in Sources
      /\ destination[e] # "absent" =>
           \E i \in Installers :
             /\ entry[i] = e /\ facadePc[i] = "publish"
             /\ installMode[i] = "repair" /\ looked[i] \in {"wrong", "broken"}
      /\ destination[e] = "real" => changes > 0
<1>1. ASSUME FacadeInv, [FacadeNext]_facadeVars,
             NEW e \in Manifest, changes' = changes, destination'[e] # destination[e]
      PROVE  Replaced(e)
  <2>1. PICK i \in Installers : Create(i) \/ PublishLink(i)
    <3>1. changes \in Nat /\ changes + 1 # changes
      BY <1>1 DEF FacadeInv, FacadeTypeOK
    <3> QED
      BY <1>1, <3>1
         DEF facadeVars, FacadeNext, InstallStep, NextEntry, Look, DecideEntry,
             LinkTemporary, PublishFails, InstallerDies, OwnerChanges
  <2>2. /\ entry[i] = e /\ e \in Sources /\ destination'[e] = "right"
        /\ destination[e] # "absent" => PublishLink(i)
    BY <1>1, <2>1, FacadeConstants
       DEF Create, PublishLink, FacadeInv, FacadeTypeOK, OnItsEntry, Deciding
  <2>3. ASSUME PublishLink(i)
        PROVE  /\ facadePc[i] = "publish" /\ installMode[i] = "repair"
               /\ looked[i] \in {"wrong", "broken"}
               /\ changes = 0 => destination[e] \in Links
    BY <1>1, <2>2, <2>3
       DEF PublishLink, FacadeInv, OnItsEntry, SeenStays, Deciding, Links
  <2>4. changes = 0 \/ changes > 0
    BY <1>1 DEF FacadeInv, FacadeTypeOK
  <2> QED
    BY <2>2, <2>3, <2>4 DEF Links
<1>2. FacadeInv /\ [FacadeNext]_facadeVars =>
        [\A e \in Manifest : changes' = changes /\ destination'[e] # destination[e] =>
                               Replaced(e)]_facadeVars
  BY <1>1
<1> QED
  BY <1>2, FacadeInvariant, PTL DEF FacadeSpec, OnlyLinksReplaced

-----------------------------------------------------------------------------
(* The set-up of a link.                                                    *)

FileAt(place) == Thing("file", {<<OwnName, place>>})
Copies == {Nowhere} \cup {FileAt("path"), Thing("file", {})}
            \cup {Thing("directory", h) : h \in SUBSET (Names \X {"path"})}

SetupTypeOK ==
  /\ linkPath \in Things("path") \cup {Thing("right", {}), Thing("wrong", {})}
  /\ physical \in [kind : {"absent", "file", "directory"},
                   holds : SUBSET (Names \X {"path", "target"})]
  /\ physical.kind = "absent" => physical.holds = {}
  /\ physical.kind = "file" => physical.holds \subseteq {OwnName} \X {"path", "target"}
  /\ backups \in [1 .. MaxSetups -> Copies]
  /\ setups \in 1 .. MaxSetups
  /\ setupPc \in {"look", "backup", "remove", "target", "link", "restore", "done", "threw"}
  /\ original \subseteq Names \X {"path", "target"}

\* A run removes what is at the path only when its own copy is whole, and what
\* it restores is that copy.
CopyInHand ==
  /\ setupPc \in {"look", "backup"} => backup = Nowhere
  /\ setupPc = "backup" => linkPath.kind \in {"file", "directory"}
  /\ setupPc = "remove" => \/ linkPath = backup /\ backup # Nowhere
                           \/ linkPath = Thing("wrong", {}) /\ backup = Nowhere
  /\ setupPc \in {"target", "link"} => linkPath = Nowhere
  /\ setupPc \in {"remove", "target", "link", "restore"} /\ backup.kind = "file" =>
       backup = FileAt("path")
  /\ setupPc = "restore" => linkPath = Thing("right", {}) /\ backup # Nowhere

\* The runs that have not begun have no copy.
NoCopyYet == \A n \in setups + 1 .. MaxSetups : backups[n] = Nowhere

\* Only the file at the target may be lost, to the file of the path.
NothingLost ==
  \A c \in original \ (linkPath.holds \cup physical.holds) :
    \/ \E n \in 1 .. MaxSetups : c \in backups[n].holds
    \/ c = <<OwnName, "target">> /\ <<OwnName, "path">> \in physical.holds

\* Nothing comes to be at any place that was not at the path or the target at first.
NothingAppears ==
  /\ linkPath.holds \cup physical.holds \subseteq original
  /\ \A n \in 1 .. MaxSetups : backups[n].holds \subseteq original

\* The first run has all contents at the path, at the target or in its copy
\* until it ends; then they are at the target, but for those whose name is taken.
FirstRun ==
  setups = 1 =>
    /\ setupPc \in {"look", "backup", "remove", "target", "link", "restore"} =>
         original \subseteq linkPath.holds \cup backup.holds \cup physical.holds
    /\ setupPc = "done" =>
         /\ linkPath.kind = "right"
         /\ \A c \in original \ physical.holds : <<c[1], "target">> \in original

SetupInv ==
  SetupTypeOK /\ CopyInHand /\ NoCopyYet /\ NothingLost /\ NothingAppears /\ FirstRun

-----------------------------------------------------------------------------
\* Before the first run nothing is in a copy, and everything is where it was.
LEMMA SetupInitInv == SetupInit => SetupInv
<1> SUFFICES ASSUME SetupInit PROVE SetupInv
  OBVIOUS
<1> USE SetupConstants DEF Thing, Nowhere, Things
<1>1. SetupTypeOK
  BY DEF SetupInit, SetupTypeOK, Copies, FileAt
<1>2. CopyInHand
  BY DEF SetupInit, CopyInHand, backup
<1>3. NoCopyYet
  BY DEF SetupInit, NoCopyYet
<1>4. NothingLost /\ NothingAppears /\ FirstRun
  BY DEF SetupInit, NothingLost, NothingAppears, FirstRun
<1> QED
  BY <1>1, <1>2, <1>3, <1>4 DEF SetupInv

\* The copy of the running run is one of the copies.
LEMMA OwnCopy ==
  ASSUME SetupInv
  PROVE  /\ setups \in 1 .. MaxSetups
         /\ backup \in Copies /\ backup = backups[setups]
         /\ backup # Nowhere <=> backup.kind # "absent"
         /\ backup.holds \subseteq Names \X {"path"}
         /\ backup.kind = "absent" => backup.holds = {}
BY SetupConstants DEF SetupInv, SetupTypeOK, backup, Copies, FileAt, Thing, Nowhere

\* A run that looks, makes or fails without moving contents keeps the invariant.
LEMMA LookAtPathInv == SetupInv /\ LookAtPath => SetupInv'
<1> SUFFICES ASSUME SetupInv, LookAtPath PROVE SetupInv'
  OBVIOUS
<1>1. SetupTypeOK' /\ NoCopyYet' /\ NothingLost' /\ NothingAppears'
  BY DEF SetupInv, SetupTypeOK, NoCopyYet, NothingLost, NothingAppears, LookAtPath,
         SetupGoes
<1>2. CopyInHand' /\ FirstRun'
  BY OwnCopy DEF SetupInv, SetupTypeOK, CopyInHand, FirstRun, LookAtPath, SetupGoes,
       backup, Things, Thing, Nowhere
<1> QED
  BY <1>1, <1>2 DEF SetupInv

\* The copy is whole before anything is removed.
LEMMA BackUpInv == SetupInv /\ BackUp => SetupInv'
<1> SUFFICES ASSUME SetupInv, BackUp PROVE SetupInv'
  OBVIOUS
<1>0. /\ setupPc = "backup" /\ setupPc' = "remove" /\ backup = Nowhere
      /\ linkPath \in Things("path") /\ linkPath.kind \in {"file", "directory"}
      /\ backups' = [backups EXCEPT ![setups] = linkPath]
      /\ UNCHANGED <<linkPath, physical, fileLike, setups, original>>
  BY DEF BackUp, SetupGoes, SetupInv, SetupTypeOK, CopyInHand, Thing
<1>1. linkPath \in Copies /\ (linkPath.kind = "file" => linkPath = FileAt("path"))
  BY <1>0 DEF Things, Thing, Nowhere, Copies, FileAt
<1>2. SetupTypeOK'
  BY <1>0, <1>1 DEF SetupInv, SetupTypeOK
<1>3. backup' = linkPath /\ linkPath # Nowhere
  BY <1>0 DEF SetupInv, SetupTypeOK, backup, Thing, Nowhere
<1>4. CopyInHand'
  BY <1>0, <1>1, <1>3 DEF CopyInHand
<1>5. NoCopyYet'
  BY <1>0 DEF SetupInv, SetupTypeOK, NoCopyYet
<1>6. NothingLost'
  BY <1>0 DEF SetupInv, SetupTypeOK, NothingLost, backup, Thing, Nowhere
<1>7. FirstRun'
  BY <1>0, <1>3 DEF SetupInv, FirstRun, Thing, Nowhere
<1>8. NothingAppears'
  BY <1>0 DEF SetupInv, SetupTypeOK, NothingAppears
<1> QED
  BY <1>2, <1>4, <1>5, <1>6, <1>7, <1>8 DEF SetupInv

\* What is removed is in the copy that the run has just made.
LEMMA RemovePathInv == SetupInv /\ RemovePath => SetupInv'
<1> SUFFICES ASSUME SetupInv, RemovePath PROVE SetupInv'
  OBVIOUS
<1>0. /\ setupPc = "remove" /\ setupPc' = "target" /\ linkPath' = Nowhere
      /\ UNCHANGED <<physical, backups, fileLike, setups, original>>
  BY DEF RemovePath, SetupGoes
<1>1. linkPath.holds \subseteq backup.holds
  BY <1>0 DEF SetupInv, CopyInHand, Thing, Nowhere
<1>2. SetupTypeOK' /\ NoCopyYet'
  BY <1>0 DEF SetupInv, SetupTypeOK, NoCopyYet, Things
<1>3. CopyInHand'
  BY <1>0 DEF SetupInv, CopyInHand, backup
<1>4. NothingLost'
  BY <1>0, <1>1, OwnCopy DEF SetupInv, NothingLost
<1>5. FirstRun' /\ NothingAppears'
  BY <1>0, <1>1 DEF SetupInv, FirstRun, NothingAppears, backup, Nowhere, Thing
<1> QED
  BY <1>2, <1>3, <1>4, <1>5 DEF SetupInv

\* Making the target takes nothing away.
LEMMA MakePhysicalInv == SetupInv /\ MakePhysical => SetupInv'
<1> SUFFICES ASSUME SetupInv, MakePhysical PROVE SetupInv'
  OBVIOUS
<1>0. /\ setupPc = "target" /\ setupPc' = "link"
      /\ UNCHANGED <<linkPath, backups, fileLike, setups, original>>
  BY DEF MakePhysical, SetupGoes
<1>1. \/ UNCHANGED physical
      \/ physical = Nowhere /\ physical' = Thing("file", {})
      \/ physical' = Thing("directory", physical.holds)
  BY DEF MakePhysical
<1>2. /\ physical' \in [kind : {"absent", "file", "directory"},
                        holds : SUBSET (Names \X {"path", "target"})]
      /\ physical'.kind = "absent" => physical'.holds = {}
      /\ physical'.kind = "file" => physical'.holds \subseteq {OwnName} \X {"path", "target"}
      /\ physical'.holds = physical.holds
  <2>1. CASE UNCHANGED physical
    BY <2>1 DEF SetupInv, SetupTypeOK
  <2>2. CASE physical = Nowhere /\ physical' = Thing("file", {})
    BY <2>2 DEF Thing, Nowhere
  <2>3. CASE physical' = Thing("directory", physical.holds)
    BY <2>3 DEF SetupInv, SetupTypeOK, Thing
  <2> QED
    BY <1>1, <2>1, <2>2, <2>3
<1>3. SetupTypeOK' /\ NoCopyYet'
  BY <1>0, <1>2 DEF SetupInv, SetupTypeOK, NoCopyYet
<1>4. CopyInHand'
  BY <1>0 DEF SetupInv, CopyInHand, backup
<1>5. NothingLost' /\ NothingAppears' /\ FirstRun'
  BY <1>0, <1>2 DEF SetupInv, NothingLost, NothingAppears, FirstRun, backup
<1> QED
  BY <1>3, <1>4, <1>5 DEF SetupInv

\* The link is made where nothing is; the copy is still to be restored.
LEMMA MakeLinkInv == SetupInv /\ MakeLink => SetupInv'
<1> SUFFICES ASSUME SetupInv, MakeLink PROVE SetupInv'
  OBVIOUS
<1>0. /\ setupPc = "link" /\ setupPc' = (IF backup = Nowhere THEN "done" ELSE "restore")
      /\ linkPath = Nowhere /\ linkPath' = Thing("right", {})
      /\ UNCHANGED <<physical, backups, fileLike, setups, original>>
  BY DEF MakeLink, SetupGoes, SetupInv, CopyInHand
<1>1. linkPath'.holds = {} /\ linkPath.holds = {} /\ linkPath'.kind = "right"
  BY <1>0 DEF Thing, Nowhere
<1>2. SetupTypeOK' /\ NoCopyYet'
  BY <1>0 DEF SetupInv, SetupTypeOK, NoCopyYet
<1>3. CopyInHand'
  BY <1>0 DEF SetupInv, CopyInHand, backup
<1>4. NothingLost'
  BY <1>0, <1>1 DEF SetupInv, NothingLost
<1>5. FirstRun' /\ NothingAppears'
  BY <1>0, <1>1 DEF SetupInv, FirstRun, NothingAppears, backup, Nowhere, Thing
<1> QED
  BY <1>2, <1>3, <1>4, <1>5 DEF SetupInv

\* An entry that moves to the target takes no other's place there.
LEMMA RestoreEntryInv == SetupInv /\ RestoreEntry => SetupInv'
<1> SUFFICES ASSUME SetupInv, RestoreEntry PROVE SetupInv'
  OBVIOUS
<1>a. PICK c \in backup.holds :
        /\ ~Present(c[1])
        /\ physical' = Thing("directory", {d \in physical.holds : d[1] # c[1]} \cup {c})
        /\ backups' = [backups EXCEPT ![setups].holds = @ \ {c}]
  BY DEF RestoreEntry
<1>0. /\ setupPc = "restore" /\ setupPc' = "restore" /\ backup.kind = "directory"
      /\ UNCHANGED <<linkPath, fileLike, setups, original>>
  BY DEF RestoreEntry, SetupGoes
<1>1. physical'.holds = physical.holds \cup {c} /\ physical'.kind = "directory"
  BY <1>a DEF Present, Thing
<1>2. /\ backup' = Thing("directory", backup.holds \ {c})
      /\ \A n \in 1 .. MaxSetups : n # setups => backups'[n] = backups[n]
      /\ backups' \in [1 .. MaxSetups -> Copies]
  <2>1. backup \in Copies /\ setups \in 1 .. MaxSetups /\ backups \in [1 .. MaxSetups -> Copies]
    BY OwnCopy DEF SetupInv, SetupTypeOK
  <2>2. [backup EXCEPT !.holds = @ \ {c}] = Thing("directory", backup.holds \ {c})
    <3>1. PICK h \in SUBSET (Names \X {"path"}) : backup = Thing("directory", h)
      BY <1>0, <2>1 DEF Copies, Thing, Nowhere, FileAt
    <3> QED
      BY <3>1 DEF Thing
  <2>3. Thing("directory", backup.holds \ {c}) \in Copies
    BY OwnCopy DEF Copies
  <2>4. backups' = [backups EXCEPT ![setups] = Thing("directory", backup.holds \ {c})]
    BY <1>a, <2>2 DEF backup
  <2> QED
    BY <1>0, <2>1, <2>3, <2>4 DEF backup
<1>3. backup'.holds = backup.holds \ {c} /\ backup'.kind = "directory"
  BY <1>2 DEF Thing
<1>4. SetupTypeOK'
  <2>1. c \in Names \X {"path", "target"}
    BY <1>a, OwnCopy
  <2>2. physical' \in [kind : {"absent", "file", "directory"},
                       holds : SUBSET (Names \X {"path", "target"})]
    BY <1>a, <2>1 DEF SetupInv, SetupTypeOK, Thing
  <2> QED
    BY <1>0, <1>1, <1>2, <2>2 DEF SetupInv, SetupTypeOK
<1>5. CopyInHand'
  BY <1>0, <1>3 DEF SetupInv, CopyInHand, Nowhere, Thing
<1>6. NoCopyYet'
  BY <1>0, <1>2 DEF SetupInv, SetupTypeOK, NoCopyYet
<1>7. NothingLost'
  <2> SUFFICES ASSUME NEW d \in original, d \notin linkPath.holds, d \notin physical.holds,
                      d # c
               PROVE  \/ \E n \in 1 .. MaxSetups : d \in backups'[n].holds
                      \/ d = <<OwnName, "target">> /\ <<OwnName, "path">> \in physical'.holds
    BY <1>0, <1>1 DEF NothingLost
  <2>1. CASE \E n \in 1 .. MaxSetups : d \in backups[n].holds
    <3>1. PICK n \in 1 .. MaxSetups : d \in backups[n].holds
      BY <2>1
    <3>2. d \in backups'[n].holds
      BY <1>0, <1>2, <1>3, <3>1 DEF backup
    <3> QED
      BY <3>2
  <2>2. CASE d = <<OwnName, "target">> /\ <<OwnName, "path">> \in physical.holds
    BY <1>1, <2>2
  <2> QED
    BY <2>1, <2>2 DEF SetupInv, NothingLost
<1>8. FirstRun'
  BY <1>0, <1>1, <1>3 DEF SetupInv, FirstRun
<1>9. NothingAppears'
  <2>1. c \in original /\ backup'.holds \subseteq original
    BY <1>3, OwnCopy DEF SetupInv, NothingAppears
  <2>2. backups'[setups].holds \subseteq original
    BY <1>0, <2>1 DEF backup
  <2> QED
    BY <1>0, <1>1, <1>2, <2>1, <2>2 DEF SetupInv, NothingAppears
<1> QED
  BY <1>4, <1>5, <1>6, <1>7, <1>8, <1>9 DEF SetupInv

\* What is still in the copy of a run that ends has its name taken at the target.
LEMMA RestoreEndsInv == SetupInv /\ RestoreEnds => SetupInv'
<1> SUFFICES ASSUME SetupInv, RestoreEnds PROVE SetupInv'
  OBVIOUS
<1>0. /\ setupPc = "restore" /\ setupPc' = "done"
      /\ UNCHANGED <<linkPath, physical, backups, fileLike, setups, original>>
      /\ \A c \in backup.holds : \E d \in physical.holds : d[1] = c[1]
  BY DEF RestoreEnds, SetupGoes, Present
<1>1. SetupTypeOK' /\ NoCopyYet' /\ CopyInHand' /\ NothingLost' /\ NothingAppears'
  BY <1>0 DEF SetupInv, SetupTypeOK, NoCopyYet, CopyInHand, NothingLost, NothingAppears
<1>2. linkPath.kind = "right" /\ linkPath.holds = {}
  BY <1>0 DEF SetupInv, CopyInHand, Thing
<1>3. ASSUME setups = 1, NEW c \in original \ physical.holds
      PROVE  <<c[1], "target">> \in original
  <2>1. c \in backup.holds
    BY <1>0, <1>2, <1>3 DEF SetupInv, FirstRun
  <2>2. PICK d \in physical.holds : d[1] = c[1]
    BY <1>0, <2>1
  <2>3. c = <<c[1], "path">> /\ d \in Names \X {"path", "target"}
    BY <2>1, OwnCopy DEF SetupInv, SetupTypeOK
  <2>4. d # <<d[1], "path">>
    BY <1>3, <2>2, <2>3
  <2>5. d = <<c[1], "target">>
    BY <2>2, <2>3, <2>4
  <2>6. <<c[1], "target">> \in physical.holds
    BY <2>2, <2>5
  <2> QED
    BY <2>6 DEF SetupInv, NothingAppears
<1>4. FirstRun'
  BY <1>0, <1>2, <1>3 DEF FirstRun
<1> QED
  BY <1>1, <1>4 DEF SetupInv

\* A file is restored whole, or what was at the target is replaced by it.
LEMMA RestoreFileInv == SetupInv /\ RestoreFile => SetupInv'
<1> SUFFICES ASSUME SetupInv, RestoreFile PROVE SetupInv'
  OBVIOUS
<1>0. /\ setupPc = "restore" /\ setupPc' = "done" /\ backup.kind = "file"
      /\ backups' = [backups EXCEPT ![setups] = Nowhere]
      /\ UNCHANGED <<linkPath, fileLike, setups, original>>
      /\ \/ physical.kind # "directory" /\ physical' = backup
         \/ physical' = Thing("directory",
              {c \in physical.holds : c[1] # OwnName} \cup backup.holds)
  BY DEF RestoreFile, SetupGoes
<1>1. /\ backup = FileAt("path") /\ backup.holds = {<<OwnName, "path">>}
      /\ linkPath = Thing("right", {}) /\ linkPath.holds = {} /\ linkPath.kind = "right"
  BY <1>0 DEF SetupInv, CopyInHand, FileAt, Thing
<1>2. /\ physical' \in [kind : {"absent", "file", "directory"},
                        holds : SUBSET (Names \X {"path", "target"})]
      /\ physical'.kind = "absent" => physical'.holds = {}
      /\ physical'.kind = "file" => physical'.holds \subseteq {OwnName} \X {"path", "target"}
  BY <1>0, <1>1, SetupConstants DEF SetupInv, SetupTypeOK, FileAt, Thing
<1>3. <<OwnName, "path">> \in physical'.holds
  BY <1>0, <1>1 DEF Thing
<1>4. \A c \in physical.holds \ physical'.holds : c = <<OwnName, "target">>
  <2> SUFFICES ASSUME NEW c \in physical.holds, c \notin physical'.holds
               PROVE  c = <<OwnName, "target">>
    OBVIOUS
  <2>1. c \in Names \X {"path", "target"} /\ c # <<OwnName, "path">>
    BY <1>3 DEF SetupInv, SetupTypeOK
  <2>2. c[1] = OwnName
    <3>1. CASE physical.kind # "directory"
      BY <3>1 DEF SetupInv, SetupTypeOK
    <3>2. CASE physical' = Thing("directory",
                 {d \in physical.holds : d[1] # OwnName} \cup backup.holds)
      BY <3>2 DEF Thing
    <3> QED
      BY <1>0, <3>1, <3>2
  <2> QED
    BY <2>1, <2>2
<1>5. backups' \in [1 .. MaxSetups -> Copies]
  BY <1>0 DEF SetupInv, SetupTypeOK, Copies
<1>6. SetupTypeOK'
  BY <1>0, <1>2, <1>5 DEF SetupInv, SetupTypeOK
<1>7. CopyInHand'
  BY <1>0 DEF CopyInHand
<1>8. NoCopyYet'
  BY <1>0 DEF SetupInv, SetupTypeOK, NoCopyYet
<1>9. NothingLost'
  <2> SUFFICES ASSUME NEW c \in original, c \notin physical'.holds,
                      c # <<OwnName, "target">>
               PROVE  \E n \in 1 .. MaxSetups : c \in backups'[n].holds
    BY <1>0, <1>3 DEF NothingLost
  <2>1. PICK n \in 1 .. MaxSetups : c \in backups[n].holds
    BY <1>0, <1>1, <1>4 DEF SetupInv, NothingLost
  <2>2. n # setups
    BY <1>1, <1>3, <2>1 DEF backup
  <2> QED
    BY <1>0, <2>1, <2>2 DEF SetupInv, SetupTypeOK
<1>10. FirstRun'
  <2> SUFFICES ASSUME setups = 1, NEW c \in original \ physical'.holds
               PROVE  <<c[1], "target">> \in original
    BY <1>0, <1>1 DEF FirstRun
  <2>1. c \in physical.holds
    BY <1>0, <1>1, <1>3 DEF SetupInv, FirstRun
  <2> QED
    BY <1>4, <2>1
<1>11. NothingAppears'
  <2>1. physical'.holds \subseteq physical.holds \cup backup.holds
    BY <1>0 DEF Thing
  <2>2. \A n \in 1 .. MaxSetups : backups'[n].holds \subseteq backups[n].holds
    BY <1>0 DEF SetupInv, SetupTypeOK, Nowhere, Thing
  <2> QED
    BY <1>0, <2>1, <2>2, OwnCopy DEF SetupInv, NothingAppears
<1> QED
  BY <1>6, <1>7, <1>8, <1>9, <1>10, <1>11 DEF SetupInv

\* A run that throws has copied or removed a part: what it removed is in its copy.
LEMMA SetupFailsInv == SetupInv /\ SetupFails => SetupInv'
<1> SUFFICES ASSUME SetupInv, SetupFails PROVE SetupInv'
  OBVIOUS
<1>0. /\ setupPc' = "threw" /\ UNCHANGED <<physical, fileLike, setups, original>>
  BY DEF SetupFails, SetupGoes
<1>1. CopyInHand' /\ FirstRun'
  BY <1>0 DEF CopyInHand, FirstRun
<1>2. CASE UNCHANGED <<linkPath, backups>>
  BY <1>0, <1>1, <1>2
     DEF SetupInv, SetupTypeOK, NoCopyYet, NothingLost, NothingAppears
<1>3. ASSUME setupPc = "backup", NEW part \in SUBSET linkPath.holds,
             backups' = [backups EXCEPT ![setups] = Thing(linkPath.kind, part)],
             UNCHANGED linkPath
      PROVE  SetupInv'
  <2>1. Thing(linkPath.kind, part) \in Copies
    <3>1. linkPath.kind \in {"file", "directory"} /\ linkPath \in Things("path")
      BY <1>3 DEF SetupInv, SetupTypeOK, CopyInHand, Thing
    <3>2. CASE linkPath.kind = "file"
      <4>1. part = {} \/ part = {<<OwnName, "path">>}
        BY <3>1, <3>2 DEF Things, Thing, Nowhere
      <4> QED
        BY <3>2, <4>1 DEF Copies, FileAt
    <3>3. CASE linkPath.kind = "directory"
      <4>1. part \in SUBSET (Names \X {"path"})
        BY <3>1, <3>3 DEF Things, Thing, Nowhere
      <4> QED
        BY <3>3, <4>1 DEF Copies
    <3> QED
      BY <3>1, <3>2, <3>3
  <2>2. SetupTypeOK' /\ NoCopyYet'
    BY <1>0, <1>3, <2>1 DEF SetupInv, SetupTypeOK, NoCopyYet
  <2>3. backups[setups].holds = {}
    BY <1>3 DEF SetupInv, CopyInHand, backup, Nowhere, Thing
  <2>4. NothingLost'
    BY <1>0, <1>3, <2>3 DEF SetupInv, SetupTypeOK, NothingLost
  <2>5. NothingAppears'
    BY <1>0, <1>3 DEF SetupInv, SetupTypeOK, NothingAppears, Thing
  <2> QED
    BY <1>1, <2>2, <2>4, <2>5 DEF SetupInv
<1>4. ASSUME setupPc = "remove", linkPath.kind = "directory",
             NEW part \in SUBSET linkPath.holds, linkPath' = Thing("directory", part),
             UNCHANGED backups
      PROVE  SetupInv'
  <2>1. linkPath = backup
    BY <1>4 DEF SetupInv, CopyInHand, Thing
  <2>2. linkPath' \in Things("path")
    BY <1>4, <2>1, OwnCopy DEF Things
  <2>3. SetupTypeOK' /\ NoCopyYet'
    BY <1>0, <1>4, <2>2 DEF SetupInv, SetupTypeOK, NoCopyYet
  <2>4. NothingLost'
    BY <1>0, <1>4, <2>1, OwnCopy DEF SetupInv, NothingLost
  <2>5. NothingAppears'
    BY <1>0, <1>4 DEF SetupInv, NothingAppears, Thing
  <2> QED
    BY <1>1, <2>3, <2>4, <2>5 DEF SetupInv
<1> QED
  BY <1>2, <1>3, <1>4 DEF SetupFails

\* A further run begins with a copy of its own.
LEMMA SetupAgainInv == SetupInv /\ SetupAgain => SetupInv'
<1> SUFFICES ASSUME SetupInv, SetupAgain PROVE SetupInv'
  OBVIOUS
<1>0. /\ setupPc' = "look" /\ setups' = setups + 1 /\ setups \in 1 .. MaxSetups
      /\ setups' \in 1 .. MaxSetups /\ setups' # 1
      /\ UNCHANGED <<linkPath, physical, backups, fileLike, original>>
  BY SetupConstants DEF SetupAgain, SetupInv, SetupTypeOK
<1>1. backup' = Nowhere
  BY <1>0 DEF SetupInv, NoCopyYet, backup
<1>2. NoCopyYet'
  BY <1>0, SetupConstants DEF SetupInv, NoCopyYet
<1> QED
  BY <1>0, <1>1, <1>2
     DEF SetupInv, SetupTypeOK, CopyInHand, NothingLost, NothingAppears, FirstRun

\* Each step of the script, its failure and its rerun keep the invariant.
LEMMA SetupInductive == SetupInv /\ [SetupNext]_setupVars => SetupInv'
<1> SUFFICES ASSUME SetupInv, [SetupNext]_setupVars PROVE SetupInv'
  OBVIOUS
<1>1. CASE UNCHANGED setupVars
  BY <1>1 DEF setupVars, SetupInv, SetupTypeOK, CopyInHand, NoCopyYet, NothingLost,
              NothingAppears, FirstRun, backup
<1> QED
  BY <1>1, LookAtPathInv, BackUpInv, RemovePathInv, MakePhysicalInv, MakeLinkInv,
     RestoreEntryInv, RestoreEndsInv, RestoreFileInv, SetupFailsInv, SetupAgainInv
     DEF SetupNext

\* The invariant of the set-up holds always: what a run removes is in its own
\* copy, whole, and no content is lost but the file that another takes the place of.
THEOREM SetupInvariant == SetupSpec => []SetupInv
BY SetupInitInv, SetupInductive, PTL DEF SetupSpec

\* Wherever runs of the script fail and however often it is run again, no content
\* is lost, and a first run that succeeds has moved them all (SKILL.md:3).
THEOREM NoContentLost == SetupSpec => []ContentSurvives
<1>1. SetupInv => ContentSurvives
  <2> SUFFICES ASSUME SetupInv PROVE ContentSurvives
    OBVIOUS
  <2>1. DOMAIN backups = 1 .. MaxSetups
    BY DEF SetupInv, SetupTypeOK
  <2> QED
    BY <2>1 DEF SetupInv, NothingLost, FirstRun, ContentSurvives
<1> QED
  BY <1>1, SetupInvariant, PTL
=============================================================================
