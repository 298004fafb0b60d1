------------------------------- MODULE Facade -------------------------------
(***************************************************************************)
(* The installer of the Claude Code facade: several processes install or   *)
(* repair the same symbolic links from the manifest, entry by entry, on    *)
(* destinations that their owner changes too, and may die between any two  *)
(* of their system calls.                                                  *)
(*                                                                         *)
(* A destination is "absent", a "real" file or directory, or a link:       *)
(* "right", "wrong" or "broken".  The sources exist or not, for good.      *)
(***************************************************************************)
EXTENDS Naturals

CONSTANTS
  Manifest,       \* FACADE_ENTRIES
  Sources,        \* the entries whose source exists
  Installers,     \* processes that run install
  Modes,          \* modes they may run in
  MaxChanges      \* bound on what the owner does

ASSUME FacadeConstants ==
  /\ Sources \subseteq Manifest
  /\ Modes \subseteq {"install", "repair"}
  /\ MaxChanges \in Nat

VARIABLES
  destination,    \* what is at the destination of each entry
  strays,         \* temporary links: pairs of an installer and an entry
  changes,        \* what the owner has done
  installMode,           \* of each installer
  remaining,      \* of each installer: entries it has not come to
  facadePc, entry,\* of each installer: its place, the entry it is at
  looked,         \* of each installer: what it saw at the destination
  facadeReport    \* of each installer: ok or not, for each entry done

facadeVars == <<destination, strays, changes, installMode, remaining, facadePc, entry,
                looked, facadeReport>>

Links == {"right", "wrong", "broken"}
NoEntry == "no entry"

FacadeInit ==
  /\ destination \in [Manifest -> {"absent", "real"} \cup Links]
  /\ strays = {} /\ changes = 0
  /\ installMode \in [Installers -> Modes]
  /\ remaining = [i \in Installers |-> Manifest]
  /\ facadePc = [i \in Installers |-> "next"]
  /\ entry = [i \in Installers |-> NoEntry]
  /\ looked = [i \in Installers |-> "absent"]
  /\ facadeReport = [i \in Installers |-> [e \in Manifest |-> "none"]]

Continues(i, place) == facadePc' = [facadePc EXCEPT ![i] = place]

Reports(i, verdict) ==
  /\ facadeReport' = [facadeReport EXCEPT ![i][entry[i]] = verdict]
  /\ Continues(i, "next")

\* installAll: the next entry, until none is left; a missing source is an
\* error of the entry.
NextEntry(i) ==
  /\ facadePc[i] = "next"
  /\ IF remaining[i] = {}
     THEN Continues(i, "done") /\ UNCHANGED <<remaining, entry, facadeReport>>
     ELSE \E e \in remaining[i] :
            /\ remaining' = [remaining EXCEPT ![i] = @ \ {e}]
            /\ entry' = [entry EXCEPT ![i] = e]
            /\ IF e \in Sources THEN Continues(i, "look") /\ UNCHANGED facadeReport
               ELSE /\ facadeReport' = [facadeReport EXCEPT ![i][e] = "error"]
                    /\ UNCHANGED facadePc
  /\ UNCHANGED <<destination, strays, changes, installMode, looked>>

\* lstat, readlink and realpath of the destination.
Look(i) ==
  /\ facadePc[i] = "look"
  /\ looked' = [looked EXCEPT ![i] = destination[entry[i]]]
  /\ Continues(i, "decide")
  /\ UNCHANGED <<destination, strays, changes, installMode, remaining, entry, facadeReport>>

\* Mutant of DecideEntry: whatever is there is repaired.
DecideEntryBoldly(i) ==
  /\ facadePc[i] = "decide"
  /\ IF looked[i] = "right" THEN Reports(i, "ok")
     ELSE /\ Continues(i, IF looked[i] = "absent" THEN "create" ELSE "replace")
          /\ UNCHANGED facadeReport
  /\ UNCHANGED <<destination, strays, changes, installMode, remaining, entry, looked>>

\* A real file is an error, for whose message it is looked at again, which
\* throws if it is gone; a link that is not right is replaced in repair mode.
DecideEntry(i) ==
  /\ facadePc[i] = "decide"
  /\ CASE looked[i] = "right" -> Reports(i, "ok")
       [] looked[i] = "absent" -> Continues(i, "create") /\ UNCHANGED facadeReport
       [] looked[i] = "real" /\ destination[entry[i]] = "absent" ->
            Continues(i, "threw") /\ UNCHANGED facadeReport
       [] looked[i] \in {"wrong", "broken"} /\ installMode[i] = "repair" ->
            Continues(i, "replace") /\ UNCHANGED facadeReport
       [] OTHER -> Reports(i, "error")
  /\ UNCHANGED <<destination, strays, changes, installMode, remaining, entry, looked>>

\* symlink fails, and with it the whole installation, if something has come.
Create(i) ==
  /\ facadePc[i] = "create"
  /\ IF destination[entry[i]] = "absent"
     THEN /\ destination' = [destination EXCEPT ![entry[i]] = "right"]
          /\ Reports(i, "ok")
     ELSE Continues(i, "threw") /\ UNCHANGED <<destination, facadeReport>>
  /\ UNCHANGED <<strays, changes, installMode, remaining, entry, looked>>

\* replaceSymlinkAtomically: a temporary link of a random name beside the
\* destination ...
LinkTemporary(i) ==
  /\ facadePc[i] = "replace"
  /\ strays' = strays \cup {<<i, entry[i]>>}
  /\ Continues(i, "publish")
  /\ UNCHANGED <<destination, changes, installMode, remaining, entry, looked, facadeReport>>

\* Mutant of PublishLink: the old link is removed first.
PublishLinkInTwo(i) ==
  /\ facadePc[i] = "publish"
  /\ IF destination[entry[i]] = "absent"
     THEN /\ destination' = [destination EXCEPT ![entry[i]] = "right"]
          /\ strays' = strays \ {<<i, entry[i]>>}
          /\ Reports(i, "ok")
     ELSE /\ destination' = [destination EXCEPT ![entry[i]] = "absent"]
          /\ UNCHANGED <<strays, facadePc, facadeReport>>
  /\ UNCHANGED <<changes, installMode, remaining, entry, looked>>

\* ... is renamed over it.
PublishLink(i) ==
  /\ facadePc[i] = "publish"
  /\ destination' = [destination EXCEPT ![entry[i]] = "right"]
  /\ strays' = strays \ {<<i, entry[i]>>}
  /\ Reports(i, "ok")
  /\ UNCHANGED <<changes, installMode, remaining, entry, looked>>

\* The rename fails; the temporary link is removed, if it can be.
PublishFails(i) ==
  /\ facadePc[i] = "publish"
  /\ strays' \in {strays, strays \ {<<i, entry[i]>>}}
  /\ Continues(i, "threw")
  /\ UNCHANGED <<destination, changes, installMode, remaining, entry, looked, facadeReport>>

InstallerDies(i) ==
  /\ facadePc[i] \notin {"done", "threw", "dead"}
  /\ Continues(i, "dead")
  /\ UNCHANGED <<destination, strays, changes, installMode, remaining, entry, looked,
                 facadeReport>>

\* The owner puts something at a destination, or takes it away, at any time.
OwnerChanges(e) ==
  /\ changes < MaxChanges
  /\ changes' = changes + 1
  /\ \E d \in {"absent", "real"} \cup Links :
       destination' = [destination EXCEPT ![e] = d]
  /\ UNCHANGED <<strays, installMode, remaining, facadePc, entry, looked, facadeReport>>

InstallStep(i) ==
  \/ NextEntry(i) \/ Look(i) \/ DecideEntry(i) \/ Create(i)
  \/ LinkTemporary(i) \/ PublishLink(i) \/ PublishFails(i)

FacadeNext ==
  \/ \E i \in Installers : InstallStep(i) \/ InstallerDies(i)
  \/ \E e \in Manifest : OwnerChanges(e)

FacadeSpec == FacadeInit /\ [][FacadeNext]_facadeVars

-----------------------------------------------------------------------------
(* checkEntry, on a quiet directory.                                        *)

CheckEntry(e) ==
  IF e \notin Sources THEN "SOURCE_MISSING"
  ELSE CASE destination[e] = "absent" -> "DESTINATION_MISSING"
         [] destination[e] = "real" -> "DESTINATION_NOT_SYMLINK"
         [] destination[e] = "broken" -> "BROKEN_SYMLINK"
         [] destination[e] = "wrong" -> "WRONG_TARGET"
         [] OTHER -> "OK"

-----------------------------------------------------------------------------
(* Properties.                                                              *)

\* "Destination is real file/dir -> error (never overwrite)" (facade.ts:193), as
\* far as the code keeps it, with installers at work together, dying anywhere, and
\* an owner at work too: what an installer changes becomes the right link at once,
\* is never missing in between, and was absent or seen by it, in repair mode, as a
\* link that is not right; and while the owner does nothing no real file is
\* replaced.  One that the owner puts there after that look is overwritten.
OnlyLinksReplaced ==
  [][\A e \in Manifest :
       changes' = changes /\ destination'[e] # destination[e] =>
         /\ destination'[e] = "right" /\ e \in Sources
         /\ destination[e] # "absent" =>
              \E i \in Installers :
                /\ entry[i] = e /\ facadePc[i] = "publish"
                /\ installMode[i] = "repair" /\ looked[i] \in {"wrong", "broken"}
         /\ destination[e] = "real" => changes > 0]_facadeVars

\* What an installer reports as installed checks as OK, whoever works on the
\* same links at the same time, unless the owner changes it.
ReportedIsInstalled ==
  \A i \in Installers, e \in Manifest :
    changes = 0 /\ facadeReport[i][e] = "ok" => CheckEntry(e) = "OK"
=============================================================================
