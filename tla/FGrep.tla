------------------------------- MODULE FGrep -------------------------------
(***************************************************************************)
(* The parallel grep of Malnati's lab 3 (Malnati/lab3): main walks a tree  *)
(* of directories and gives each file to a thread of its own, of which at  *)
(* most maxSize are in the table of SearchPool; a thread that finds the    *)
(* text writes the name of its file to the result file.                    *)
(*                                                                         *)
(* The tree is whatever main meets: at any time another file, a            *)
(* subdirectory, the end of a directory or an error.  A thread is named    *)
(* after its file.  Writes are made under ResultFile's mutex, so one write *)
(* is one step.                                                            *)
(***************************************************************************)
EXTENDS Naturals, Sequences, FiniteSets, SequencesExt

CONSTANTS maxSize,      \* of the pool
          MaxFiles,     \* bound on the files
          MaxDepth      \* bound on the depth of directories

ASSUME GrepAssumption == maxSize \in Nat \ {0} /\ MaxFiles \in Nat /\ MaxDepth \in Nat

GFile == 1 .. MaxFiles

VARIABLES
  handles,      \* handles[0 .. size - 1]
  search,       \* of each file: "none", "running", "found" (about to write) or "done"
  contains,     \* of each file: it contains the text
  nfiles,       \* files met so far
  gdepth,       \* depth of the directory main is in
  result,       \* lines of the result file
  rfFail,       \* a write to the stream has failed (failbit or badbit)
  rfOpen,       \* the ResultFile has not been destroyed
  status        \* "walking", "ok", "error" (-2), "badfile" (-3) or "terminated"

grepVars == <<handles, search, contains, nfiles, gdepth, result, rfFail, rfOpen, status>>

grepInit ==
  /\ handles = <<>>
  /\ search = [f \in GFile |-> "none"]
  /\ contains \in [GFile -> BOOLEAN]
  /\ nfiles = 0
  /\ gdepth = 1
  /\ result = <<>>
  /\ rfFail = FALSE
  /\ rfOpen = TRUE
  /\ status = "walking"

Finished(f) == search[f] = "done"
Walking == status = "walking"

\* Faulty variant: the last handle is not moved.
DropsLast(h) == Front(handles)
\* handles[h] = handles[--size]
DropHandle(h) == Front([handles EXCEPT ![h] = Last(handles)])

\* addSearch: in a full pool one finished thread makes room, the first of those
\* that are (WaitForMultipleObjects).
RoomFor ==
  IF Len(handles) < maxSize THEN handles
  ELSE DropHandle(CHOOSE h \in DOMAIN handles :
         Finished(handles[h]) /\ \A k \in 1 .. h - 1 : ~Finished(handles[k]))

addSearch ==
  /\ Walking
  /\ nfiles < MaxFiles
  /\ Len(handles) = maxSize => \E h \in DOMAIN handles : Finished(handles[h])
  /\ nfiles' = nfiles + 1
  /\ handles' = Append(RoomFor, nfiles + 1)
  /\ search' = [search EXCEPT ![nfiles + 1] = "running"]
  /\ UNCHANGED <<contains, gdepth, result, rfFail, rfOpen, status>>

\* execute recurses with the level of the outermost directory.
EnterDirectory ==
  /\ Walking
  /\ gdepth < MaxDepth
  /\ gdepth' = gdepth + 1
  /\ UNCHANGED <<handles, search, contains, nfiles, result, rfFail, rfOpen, status>>

\* Destroying FGrep closes the handles (the threads run on); destroying ResultFile
\* closes and frees the stream.
Destroy == handles' = <<>> /\ rfOpen' = FALSE

\* waitForSearchCompletion, at the end of every directory.  There must be something to
\* wait for: otherwise the wait fails, and nobody catches what is thrown.
AllFinished == \A h \in DOMAIN handles : Finished(handles[h])

\* _tmain asks the stream, once all threads have ended.
Verdict == IF rfFail THEN "badfile" ELSE "ok"

EndDirectory ==
  /\ Walking
  /\ handles # <<>>
  /\ AllFinished
  /\ \/ gdepth > 1 /\ gdepth' = gdepth - 1 /\ UNCHANGED <<handles, rfOpen, status>>
     \/ gdepth = 1 /\ status' = Verdict /\ Destroy /\ UNCHANGED gdepth
  /\ UNCHANGED <<search, contains, nfiles, result, rfFail>>

EndEmpty ==
  /\ Walking
  /\ handles = <<>>
  /\ status' = "terminated"
  /\ UNCHANGED <<handles, search, contains, nfiles, gdepth, result, rfFail, rfOpen>>

\* A path that is too long, an error of FindFirstFile or FindNextFile, a thread that
\* cannot be made: all the levels return -1, and main -2.
WalkFails ==
  /\ Walking
  /\ status' = "error"
  /\ Destroy
  /\ UNCHANGED <<search, contains, nfiles, gdepth, result, rfFail>>

\* doSearch: reads the file, which may not open; writes its name; ends.
Reads(f) ==
  /\ search[f] = "running"
  /\ search' = [search EXCEPT ![f] = IF contains[f] THEN "found" ELSE "done"]
  /\ UNCHANGED <<handles, contains, nfiles, gdepth, result, rfFail, rfOpen, status>>

\* The line is written; or the write fails, with the line in the file or not, and the
\* stream writes nothing any more; or, after an error, the stream is freed already.
syncWriteLine(f) ==
  /\ search[f] = "found"
  /\ \/ ~rfFail /\ result' = Append(result, f) /\ rfFail' \in BOOLEAN
     \/ rfFail' = TRUE /\ result' = result
     \/ ~rfOpen /\ UNCHANGED <<result, rfFail>>
  /\ search' = [search EXCEPT ![f] = "done"]
  /\ UNCHANGED <<handles, contains, nfiles, gdepth, rfOpen, status>>

\* The threads run on while _tmain returns, but not once terminate was called.
grepNext ==
  \/ addSearch \/ EnterDirectory \/ EndDirectory \/ EndEmpty \/ WalkFails
  \/ status # "terminated" /\ \E f \in GFile : Reads(f) \/ syncWriteLine(f)

grepSpec == grepInit /\ [][grepNext]_grepVars

-----------------------------------------------------------------------------
(* Properties *)

\* While main walks, the table has the handle of every thread that still runs, and
\* no handle twice, though finished threads are dropped from it in any order; so when
\* main comes to ask the stream, no thread is left that could still write or fail to.
\* No line is lost in silence: when the program says it has finished, every file that
\* contains the text is in the result file.  Otherwise lines may be missing, and no
\* end leaves a line twice or the name of a file without the text.
GrepIsComplete ==
  /\ IsInjective(handles)
  /\ Len(handles) <= maxSize
  /\ Walking => \A f \in GFile : search[f] \in {"running", "found"} => f \in Range(handles)
  /\ status \in {"ok", "badfile"} => \A f \in GFile : search[f] \in {"none", "done"}
  /\ status = "ok" => {f \in 1 .. nfiles : contains[f]} \subseteq Range(result)
  /\ IsInjective(result)
  /\ \A i \in DOMAIN result : contains[result[i]]
=============================================================================
