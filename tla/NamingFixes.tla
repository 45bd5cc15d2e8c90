---------------------------- MODULE NamingFixes ----------------------------
(***************************************************************************)
(* fix_naming of scripts/code_quality.py: the renamings that clang-tidy    *)
(* proposes for every source file are collected before any file is         *)
(* changed, because a header gets them from several sources; then they are *)
(* written, unless two of them overlap or a file has been edited since it  *)
(* was read.                                                               *)
(*                                                                         *)
(* Files are read, compared and written one after another (here in any     *)
(* order), and writing one empties it first.  clang-tidy is free to        *)
(* propose any of Reports for a source.  An editor may save a file at any  *)
(* moment, and the script may be killed, or the disk be full, at any.      *)
(***************************************************************************)
EXTENDS Lists, Integers

CONSTANTS
  ProjectFiles,  \* the files that are tracked
  Sources,       \* those of them that are analysed, in this order
  InitialBytes,  \* the bytes of a file at first, a function of the file
  EditedBytes,   \* what an editor may save, the same for every file
  Reports        \* sets of fixes: [path, offset, length, text]

ASSUME FileAssumption ==
  /\ Sources \in Seq(ProjectFiles) \ {<<>>}
  /\ InitialBytes \in [ProjectFiles -> Seq(0..255)]
  /\ EditedBytes \in Seq(0..255)

\* To save what is there already is not to edit.
ASSUME EditAssumption == \A path \in ProjectFiles : InitialBytes[path] # EditedBytes

\* LLVM counts lengths in numbers without a sign.
ASSUME ReportAssumption ==
  \A report \in Reports :
    /\ IsFiniteSet(report)
    /\ \A fix \in report :
         fix.offset \in Int /\ fix.length \in Nat /\ fix.text \in Seq(0..255)

VARIABLES
  disk,          \* the bytes of every file
  unread,        \* the files that are still to be read
  originals,     \* the bytes of those that were read, before clang-tidy is started
  replacements,  \* the fixes collected, of every file
  analyzed,      \* the number of sources analysed
  uncompared,    \* the files that are still to be compared with what was read
  unwritten,     \* the files that are still to be written
  writing,       \* the file that is open for writing, or was when the script ended
  phase,         \* "read", "analyze", "check", "compare", "write", "applied" or "stopped"
  edited         \* history: the files an editor has saved, and when

namingVars == <<disk, unread, originals, replacements, analyzed, uncompared, unwritten,
                writing, phase, edited>>

NamingInit ==
  /\ disk = InitialBytes
  /\ unread = ProjectFiles
  /\ originals = [path \in ProjectFiles |-> <<>>]
  /\ replacements = [path \in ProjectFiles |-> {}]
  /\ analyzed = 0
  /\ uncompared = ProjectFiles
  /\ unwritten = {}
  /\ writing = {}
  /\ phase = "read"
  /\ edited = [path \in ProjectFiles |-> "never"]

-----------------------------------------------------------------------------

ReadOriginal ==
  /\ phase = "read"
  /\ \E path \in unread :
       /\ originals' = [originals EXCEPT ![path] = disk[path]]
       /\ unread' = unread \ {path}
       /\ phase' = IF unread = {path} THEN "analyze" ELSE "read"
  /\ UNCHANGED <<disk, replacements, analyzed, uncompared, unwritten, writing, edited>>

\* A fix outside the project files stops the script; otherwise a set holds the
\* same fix of two sources once.
AnalyzeSource ==
  /\ phase = "analyze"
  /\ \E report \in Reports :
       IF \E fix \in report : fix.path \notin ProjectFiles
         THEN phase' = "stopped" /\ UNCHANGED <<replacements, analyzed>>
         ELSE /\ replacements' = [path \in ProjectFiles |->
                   replacements[path] \cup
                     {[offset |-> fix.offset, length |-> fix.length, text |-> fix.text] :
                        fix \in {fix \in report : fix.path = path}}]
              /\ analyzed' = analyzed + 1
              /\ phase' = IF analyzed + 1 = Len(Sources) THEN "check" ELSE "analyze"
  /\ UNCHANGED <<disk, unread, originals, uncompared, unwritten, writing, edited>>

\* The order in which Python sorts the fixes of a file.
FixBefore(fix, other) ==
  \/ fix.offset < other.offset
  \/ fix.offset = other.offset /\ fix.length < other.length
  \/ /\ fix.offset = other.offset /\ fix.length = other.length
     /\ Precedes(fix.text, other.text)

SortedFixes(path) ==
  LET fixes == replacements[path]
  IN SortedBy(fixes, {pair \in fixes \X fixes : FixBefore(pair[1], pair[2])})

\* Mutant of Conflicting: only equal ranges are taken for a conflict.
ConflictingEqualRanges(path) ==
  LET fixes == SortedFixes(path)
  IN \E i \in DOMAIN fixes :
       \/ fixes[i].offset + fixes[i].length > Len(originals[path])
       \/ i > 1 /\ fixes[i].offset = fixes[i - 1].offset
                /\ fixes[i].length = fixes[i - 1].length

\* A fix begins before the file or the end of the one before it, or ends after
\* the file.
Conflicting(path) ==
  LET fixes == SortedFixes(path)
  IN \E i \in DOMAIN fixes :
       \/ fixes[i].offset < 0
       \/ fixes[i].offset + fixes[i].length > Len(originals[path])
       \/ i > 1 /\ fixes[i].offset < fixes[i - 1].offset + fixes[i - 1].length

\* From the end, so that the offsets before stay right.
Updated(path) == ReplacedFromEnd(originals[path], SortedFixes(path))

Changed == {path \in ProjectFiles : replacements[path] # {}}

\* All fixes are checked before the first file is compared.
CheckFixes ==
  /\ phase = "check"
  /\ phase' = IF \E path \in Changed : Conflicting(path) THEN "stopped" ELSE "compare"
  /\ UNCHANGED <<disk, unread, originals, replacements, analyzed, uncompared, unwritten,
                 writing, edited>>

\* Mutant of CompareFile: only the files that have fixes are compared.
CompareFileWithFixes ==
  /\ phase = "compare"
  /\ \E path \in uncompared :
       IF path \in Changed /\ disk[path] # originals[path]
         THEN phase' = "stopped" /\ UNCHANGED <<uncompared, unwritten>>
         ELSE /\ uncompared' = uncompared \ {path}
              /\ unwritten' = IF uncompared = {path} THEN Changed ELSE {}
              /\ phase' = IF uncompared # {path} THEN "compare"
                          ELSE IF Changed = {} THEN "applied" ELSE "write"
  /\ UNCHANGED <<disk, unread, originals, replacements, analyzed, writing, edited>>

\* All files are compared before the first is written.
CompareFile ==
  /\ phase = "compare"
  /\ \E path \in uncompared :
       IF disk[path] # originals[path]
         THEN phase' = "stopped" /\ UNCHANGED <<uncompared, unwritten>>
         ELSE /\ uncompared' = uncompared \ {path}
              /\ unwritten' = IF uncompared = {path} THEN Changed ELSE {}
              /\ phase' = IF uncompared # {path} THEN "compare"
                          ELSE IF Changed = {} THEN "applied" ELSE "write"
  /\ UNCHANGED <<disk, unread, originals, replacements, analyzed, writing, edited>>

\* Opening a file empties it; a part of its new bytes may be there before it is
\* closed.
OpenFile ==
  /\ phase = "write"
  /\ writing = {}
  /\ \E path \in unwritten :
       /\ \E n \in 0..Len(Updated(path)) :
            disk' = [disk EXCEPT ![path] = SubSeq(Updated(path), 1, n)]
       /\ unwritten' = unwritten \ {path}
       /\ writing' = {path}
  /\ UNCHANGED <<unread, originals, replacements, analyzed, uncompared, phase, edited>>

\* What an editor saved while the file was open is overwritten, is there instead,
\* or is mixed with it.
FinishFile ==
  /\ phase = "write"
  /\ \E path \in writing :
       \/ disk' = [disk EXCEPT ![path] = Updated(path)]
       \/ /\ edited[path] = "open"
          /\ \/ UNCHANGED disk
             \/ \E n \in 0..Len(disk[path]) :
                  disk' = [disk EXCEPT ![path] = Overlaid(disk[path], Updated(path), n)]
  /\ writing' = {}
  /\ phase' = IF unwritten = {} THEN "applied" ELSE "write"
  /\ UNCHANGED <<unread, originals, replacements, analyzed, uncompared, unwritten, edited>>

\* clang-tidy fails, a file cannot be written, or the script is killed: what it
\* was writing stays as it is.
StopFixing ==
  /\ phase \notin {"applied", "stopped"}
  /\ phase' = "stopped"
  /\ UNCHANGED <<disk, unread, originals, replacements, analyzed, uncompared, unwritten,
                 writing, edited>>

\* When a file is saved, by what the script has done with this file.
Moment(path) ==
  IF path \in unread THEN "early"
  ELSE IF path \in uncompared THEN "meanwhile"
  ELSE IF path \in writing THEN "open"
  ELSE "late"

\* Bound: a file is saved once.
EditFile(path) ==
  /\ edited[path] = "never"
  /\ disk' = [disk EXCEPT ![path] = EditedBytes]
  /\ edited' = [edited EXCEPT ![path] = Moment(path)]
  /\ UNCHANGED <<unread, originals, replacements, analyzed, uncompared, unwritten, writing,
                 phase>>

NamingNext ==
  \/ ReadOriginal
  \/ AnalyzeSource
  \/ CheckFixes
  \/ CompareFile
  \/ OpenFile
  \/ FinishFile
  \/ StopFixing
  \/ \E path \in ProjectFiles : EditFile(path)

-----------------------------------------------------------------------------

\* A file with all its fixes made at once.
Simultaneously(path) == ReplacedAtOnce(originals[path], SortedFixes(path))

\* Not in part: as it was at first, as it was saved by hand, or with all fixes.
Whole(path) ==
  disk[path] \in {InitialBytes[path], EditedBytes} \/ disk[path] = Simultaneously(path)

\* Every file is whole, whichever sources its fixes came from: none is applied at
\* a wrong place or over another.  Excepted are the one file that the script has
\* open, or had open when it was killed or the disk was full, and files that were
\* saved by hand while it had them open.  What is saved in a file between the
\* script's reading of this file and its comparison of this file is never
\* overwritten, and then no file gets a fix (what is saved later may be lost).
\* When the script succeeds, no file that was not saved later lacks a fix.
FixesApplied ==
  \A path \in ProjectFiles :
    /\ Whole(path) \/ writing = {path} \/ edited[path] = "open"
    /\ edited[path] = "meanwhile" =>
         /\ disk[path] = EditedBytes
         /\ \A other \in ProjectFiles : disk[other] \in {InitialBytes[other], EditedBytes}
    /\ phase = "applied" /\ edited[path] \in {"never", "early"} =>
         disk[path] = Simultaneously(path)
=============================================================================
