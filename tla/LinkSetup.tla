----------------------------- MODULE LinkSetup -----------------------------
(***************************************************************************)
(* create-symlink.mjs: a path becomes a link to a physical target, and     *)
(* what was at the path moves to the target through a copy in /tmp.  Any   *)
(* call may throw, a move from /tmp to another device among them, or the   *)
(* script is killed; then it is run again.                                 *)
(*                                                                         *)
(* What is at a place has a kind and holds contents, each named, and known *)
(* by the place where it was at first.  A file holds one, of the name of   *)
(* the path.                                                               *)
(***************************************************************************)
EXTENDS Naturals

CONSTANTS
  Names,       \* names of files
  OwnName,     \* the last part of the path
  MaxSetups    \* bound on the runs of the script

ASSUME SetupConstants == OwnName \in Names /\ MaxSetups \in Nat \ {0}

VARIABLES
  linkPath, physical,  \* what is at the path and at the target
  backups,             \* the copy each run has made
  fileLike,            \* the path ends in a dot and letters: so a dot folder's does
  setupPc, setups,
  original             \* the contents at first

setupVars == <<linkPath, physical, backups, fileLike, setupPc, setups, original>>

Thing(kind, contents) == [kind |-> kind, holds |-> contents]
Nowhere == Thing("absent", {})

Things(place) ==
  {Nowhere, Thing("file", {<<OwnName, place>>})}
    \cup {Thing("directory", h) : h \in SUBSET (Names \X {place})}

SetupInit ==
  /\ linkPath \in Things("path") \cup {Thing("right", {}), Thing("wrong", {})}
  /\ physical \in Things("target")
  /\ backups = [n \in 1 .. MaxSetups |-> Nowhere]
  /\ fileLike \in BOOLEAN
  /\ setupPc = "look" /\ setups = 1
  /\ original = linkPath.holds \cup physical.holds

backup == backups[setups]

SetupGoes(from, to) ==
  /\ setupPc = from /\ setupPc' = to
  /\ UNCHANGED <<fileLike, setups, original>>

-----------------------------------------------------------------------------
LookAtPath ==
  /\ SetupGoes("look", CASE linkPath.kind = "right" -> "done"
                         [] linkPath.kind = "absent" -> "target"
                         [] linkPath.kind = "wrong" -> "remove"
                         [] OTHER -> "backup")
  /\ UNCHANGED <<linkPath, physical, backups>>

\* Mutant of BackUp: the names are made, without what they hold.
BackUpNames ==
  /\ SetupGoes("backup", "remove")
  /\ backups' = [backups EXCEPT ![setups] = Thing(linkPath.kind, {})]
  /\ UNCHANGED <<linkPath, physical>>

BackUp ==
  /\ SetupGoes("backup", "remove")
  /\ backups' = [backups EXCEPT ![setups] = linkPath]
  /\ UNCHANGED <<linkPath, physical>>

RemovePath ==
  /\ SetupGoes("remove", "target")
  /\ linkPath' = Nowhere
  /\ UNCHANGED <<physical, backups>>

\* mkdir -p fails on a file; an empty file is made where none is restored.
MakePhysical ==
  /\ SetupGoes("target", "link")
  /\ IF fileLike
     THEN physical' = IF backup.kind # "file" /\ physical = Nowhere
                      THEN Thing("file", {}) ELSE physical
     ELSE /\ physical.kind # "file"
          /\ physical' = Thing("directory", physical.holds)
  /\ UNCHANGED <<linkPath, backups>>

MakeLink ==
  /\ SetupGoes("link", IF backup = Nowhere THEN "done" ELSE "restore")
  /\ linkPath' = Thing("right", {})
  /\ UNCHANGED <<physical, backups>>

Present(name) == \E c \in physical.holds : c[1] = name

\* An entry moves to the target, unless there is one of that name.
RestoreEntry ==
  /\ SetupGoes("restore", "restore")
  /\ backup.kind = "directory" /\ physical.kind = "directory"
  /\ \E c \in backup.holds :
       /\ ~Present(c[1])
       /\ physical' = Thing("directory", {d \in physical.holds : d[1] # c[1]} \cup {c})
       /\ backups' = [backups EXCEPT ![setups].holds = @ \ {c}]
  /\ UNCHANGED linkPath

RestoreEnds ==
  /\ SetupGoes("restore", "done")
  /\ backup.kind = "directory"
  /\ physical.kind = "directory" \/ backup.holds = {}
  /\ \A c \in backup.holds : Present(c[1])
  /\ UNCHANGED <<linkPath, physical, backups>>

\* A file replaces the target, or the file of its name there.
RestoreFile ==
  /\ SetupGoes("restore", "done")
  /\ backup.kind = "file"
  /\ \/ /\ fileLike /\ physical.kind # "directory"
        /\ physical' = backup
     \/ /\ ~fileLike
        /\ physical' = Thing("directory",
             {c \in physical.holds : c[1] # OwnName} \cup backup.holds)
  /\ backups' = [backups EXCEPT ![setups] = Nowhere]
  /\ UNCHANGED linkPath

\* Half of a directory may have been copied, or removed.
SetupFails ==
  /\ SetupGoes(setupPc, "threw")
  /\ setupPc \notin {"done", "threw"}
  /\ \/ UNCHANGED <<linkPath, backups>>
     \/ /\ setupPc = "backup"
        /\ \E part \in SUBSET linkPath.holds :
             backups' = [backups EXCEPT ![setups] = Thing(linkPath.kind, part)]
        /\ UNCHANGED linkPath
     \/ /\ setupPc = "remove" /\ linkPath.kind = "directory"
        /\ \E part \in SUBSET linkPath.holds :
             linkPath' = Thing("directory", part)
        /\ UNCHANGED backups
  /\ UNCHANGED physical

SetupAgain ==
  /\ setupPc = "threw" /\ setups < MaxSetups
  /\ setupPc' = "look" /\ setups' = setups + 1
  /\ UNCHANGED <<linkPath, physical, backups, fileLike, original>>

SetupNext ==
  \/ LookAtPath \/ BackUp \/ RemovePath \/ MakePhysical \/ MakeLink
  \/ RestoreEntry \/ RestoreEnds \/ RestoreFile \/ SetupFails \/ SetupAgain

SetupSpec == SetupInit /\ [][SetupNext]_setupVars

-----------------------------------------------------------------------------
\* "Automatically backs up existing data to prevent loss" (SKILL.md:3): wherever
\* a run fails, and whatever is run again, each content is at the path, at the
\* target or in /tmp - but for a file at the target whose place the file of the
\* path takes.  And a first run that succeeds has moved all contents to the
\* target, those excepted that found their name taken.
ContentSurvives ==
  LET copies == UNION {backups[n].holds : n \in DOMAIN backups}
  IN  /\ \A c \in original \ (linkPath.holds \cup physical.holds \cup copies) :
           c = <<OwnName, "target">> /\ <<OwnName, "path">> \in physical.holds
      /\ setupPc = "done" /\ setups = 1 =>
           /\ linkPath.kind = "right"
           /\ \A c \in original \ physical.holds :
                <<c[1], "target">> \in original
=============================================================================
