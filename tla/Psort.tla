------------------------------- MODULE Psort -------------------------------
(***************************************************************************)
(* The parallel sort (user/testbin/psort/psort.c).  Each phase forks       *)
(* numprocs children, waits for all of them and goes on when none failed.  *)
(* A child of a phase reads only what the phases before have written, so   *)
(* its work is one step; the children of a phase run in any order, and two *)
(* files, keys and sorted, are written by all of them, each at its place.  *)
(*                                                                         *)
(* A file is the sequence of its keys; a hole left by seeking past the end *)
(* reads as zeros.  Random numbers are any numbers.  A system call, a fork *)
(* or a child may fail at any time.                                        *)
(***************************************************************************)
EXTENDS Integers, Sequences, SequencesExt, FiniteSetsExt

CONSTANTS numprocs,
          KeyCounts,        \* the numbers of keys psort may be asked for (-k)
          RANDOM_MAX,
          WORKNUM           \* keys that fit the workspace

ASSUME PsortAssumption ==
  /\ {numprocs, RANDOM_MAX, WORKNUM} \cup KeyCounts \subseteq Nat
  /\ numprocs > 0 /\ RANDOM_MAX >= 2 * numprocs

Proc == 0 .. numprocs - 1
Phases == <<"Initialization", "Tossing", "Sorting", "Merging", "Final assembly", "Validation">>

VARIABLES
  numkeys,      \* set by doargs
  phase,        \* index in Phases; past the last: succeeded
  finished,     \* children of the phase that have ended well
  bad,          \* main knows, or will, that one did not
  exited,       \* main has exited with 1
  crashed,      \* history: a system call, a fork or a child failed for its own reasons
  keyfile, bins, merged, sortedfile, valid      \* the files

psortVars == <<numkeys, phase, finished, bad, exited, crashed, keyfile, bins, merged, sortedfile, valid>>

psortInit ==
  /\ numkeys \in KeyCounts
  /\ phase = 1 /\ finished = {} /\ bad = FALSE /\ exited = FALSE /\ crashed = FALSE
  /\ keyfile = <<>> /\ sortedfile = <<>>
  /\ bins = [ab \in Proc \X Proc |-> <<>>]
  /\ merged = [a \in Proc |-> <<>>]
  /\ valid = [a \in Proc |-> <<>>]

-----------------------------------------------------------------------------
(* Files, and the share of a child *)

WriteAt(file, pos, data) ==
  [i \in 1 .. Max({Len(file), pos + Len(data)}) |->
    IF i \in pos + 1 .. pos + Len(data) THEN data[i - pos]
    ELSE IF i <= Len(file) THEN file[i] ELSE 0]

myplace(p) == p * (numkeys \div numprocs)

\* Faulty variant: the keys that are left over are nobody's.
EqualShares(p) == numkeys \div numprocs
getmykeys(p) == IF p < numprocs - 1 THEN numkeys \div numprocs ELSE numkeys - myplace(p)

MyPart(file, p) == SubSeq(file, myplace(p) + 1, myplace(p) + getmykeys(p))

SizeOf(files, S) == MapThenSumSet(LAMBDA f : Len(files[f]), S)

\* checksum_file; of the keys, for that of their bytes.
Checksum(file) == FoldLeft(LAMBDA s, k : s + k, 0, file)

\* sortints: values below the pivot in front, those above it at the end, turned round.
RECURSIVE sortints(_)
sortints(v) ==
  IF Len(v) < 2 THEN v
  ELSE LET pivotval == v[Len(v) \div 2 + 1]
           Below(k) == k < pivotval
           Equal(k) == k = pivotval
           Above(k) == k > pivotval
       IN  sortints(SelectSeq(v, Below)) \o SelectSeq(v, Equal) \o sortints(SelectSeq(v, Above))

\* mergebins: the least of the keys in front, the first bin that has it.
RECURSIVE Merge(_)
Merge(in) ==
  LET ready == {i \in DOMAIN in : in[i] # <<>>}
  IN  IF ready = {} THEN <<>>
      ELSE LET place == CHOOSE i \in ready :
                          \A j \in ready : \/ Head(in[i]) < Head(in[j])
                                           \/ Head(in[i]) = Head(in[j]) /\ i <= j
           IN  <<Head(in[place])>> \o Merge([in EXCEPT ![place] = Tail(@)])

-----------------------------------------------------------------------------
(* The children *)

Child(p, name) ==
  /\ ~exited /\ phase <= Len(Phases) /\ Phases[phase] = name
  /\ p \notin finished

genkeys_sub(p) ==
  /\ Child(p, "Initialization")
  /\ \E ks \in [1 .. getmykeys(p) -> 1 .. RANDOM_MAX - 1] :
       keyfile' = WriteAt(keyfile, myplace(p), ks)
  /\ finished' = finished \cup {p}
  /\ UNCHANGED <<numkeys, phase, bad, exited, crashed, bins, merged, sortedfile, valid>>

pivot == RANDOM_MAX \div numprocs

\* bin: the assertion fails at the first key above the last whole multiple of the
\* pivot; the keys before it are in their bins.
bin(p) ==
  /\ Child(p, "Tossing")
  /\ LET mine == MyPart(keyfile, p)
         out == {i \in DOMAIN mine : mine[i] \div pivot >= numprocs}
         tossed == SubSeq(mine, 1, Min(out \cup {Len(mine) + 1}) - 1)
     IN  /\ bins' = [ab \in Proc \X Proc |->
                      IF ab[1] = p THEN SelectSeq(tossed, LAMBDA k : k \div pivot = ab[2]) ELSE bins[ab]]
         /\ bad' = (bad \/ out # {})
  /\ finished' = finished \cup {p}
  /\ UNCHANGED <<numkeys, phase, exited, crashed, keyfile, merged, sortedfile, valid>>

\* sortbins stops at the first bin that does not fit the workspace.
sortbins(p) ==
  /\ Child(p, "Sorting")
  /\ LET large == {b \in Proc : Len(bins[p, b]) > WORKNUM}
     IN  /\ bins' = [ab \in Proc \X Proc |->
                      IF ab[1] = p /\ \A b \in large : ab[2] < b THEN sortints(bins[ab]) ELSE bins[ab]]
         /\ bad' = (bad \/ large # {})
  /\ finished' = finished \cup {p}
  /\ UNCHANGED <<numkeys, phase, exited, crashed, keyfile, merged, sortedfile, valid>>

mergebins(p) ==
  /\ Child(p, "Merging")
  /\ merged' = [merged EXCEPT ![p] = Merge([i \in Proc |-> bins[i, p]])]
  /\ finished' = finished \cup {p}
  /\ UNCHANGED <<numkeys, phase, bad, exited, crashed, keyfile, bins, sortedfile, valid>>

\* assemble: cat with its output at the end of what comes before.
assemble(p) ==
  /\ Child(p, "Final assembly")
  /\ sortedfile' = IF merged[p] = <<>> THEN sortedfile
                   ELSE WriteAt(sortedfile, SizeOf(merged, 0 .. p - 1), merged[p])
  /\ finished' = finished \cup {p}
  /\ UNCHANGED <<numkeys, phase, bad, exited, crashed, keyfile, bins, merged, valid>>

dovalidate(p) ==
  /\ Child(p, "Validation")
  /\ LET mine == Range(MyPart(sortedfile, p))
     IN  IF \A k \in mine : k \in 1 .. RANDOM_MAX - 1
         THEN /\ valid' = [valid EXCEPT ![p] = <<Min(mine \cup {RANDOM_MAX}), Max(mine \cup {0})>>]
              /\ UNCHANGED bad
         ELSE bad' = TRUE /\ UNCHANGED valid
  /\ finished' = finished \cup {p}
  /\ UNCHANGED <<numkeys, phase, exited, crashed, keyfile, bins, merged, sortedfile>>

\* fork fails, or the child exits with 1 or by a signal; it may have written or not.
ChildFails(p) ==
  /\ ~exited /\ phase <= Len(Phases) /\ p \notin finished
  /\ ~crashed       \* bound: once
  /\ bad' = TRUE
  /\ crashed' = TRUE
  /\ finished' = finished \cup {p}
  /\ UNCHANGED <<numkeys, phase, exited, keyfile, bins, merged, sortedfile, valid>>

-----------------------------------------------------------------------------
(* The end of a phase *)

\* validate compares each smallest key with 1, since prev_largest is never set; a
\* child without keys has RANDOM_MAX for its smallest and 0 for its largest.
validate ==
  \A p \in Proc : /\ Len(valid[p]) = 2
                  /\ 1 <= valid[p][1] /\ valid[p][1] <= valid[p][2]
                  /\ valid[p][2] < RANDOM_MAX

\* What main checks before it goes on.
checksize ==
  CASE Phases[phase] = "Initialization" -> Len(keyfile) = numkeys
    [] Phases[phase] \in {"Tossing", "Sorting"} -> SizeOf(bins, Proc \X Proc) = numkeys
    [] Phases[phase] = "Merging" -> SizeOf(merged, Proc) = numkeys
    [] Phases[phase] = "Final assembly" -> /\ Len(sortedfile) = numkeys
                                           /\ Checksum(sortedfile) = Checksum(keyfile)
    [] Phases[phase] = "Validation" -> validate

\* doforkall has waited for all; the files that are done with are removed.
doforkall ==
  /\ ~exited /\ phase <= Len(Phases)
  /\ finished = Proc
  /\ IF bad \/ ~checksize THEN exited' = TRUE /\ UNCHANGED <<phase, finished, bins, merged, valid>>
     ELSE /\ phase' = phase + 1
          /\ finished' = {}
          /\ bins' = IF Phases[phase] = "Merging" THEN [ab \in Proc \X Proc |-> <<>>] ELSE bins
          /\ merged' = IF Phases[phase] = "Final assembly" THEN [a \in Proc |-> <<>>] ELSE merged
          /\ valid' = IF Phases[phase] = "Validation" THEN [a \in Proc |-> <<>>] ELSE valid
          /\ UNCHANGED exited
  /\ UNCHANGED <<numkeys, bad, crashed, keyfile, sortedfile>>

psortNext ==
  \/ \E p \in Proc : \/ genkeys_sub(p) \/ bin(p) \/ sortbins(p) \/ mergebins(p)
                     \/ assemble(p) \/ dovalidate(p) \/ ChildFails(p)
  \/ doforkall

psortSpec == psortInit /\ [][psortNext]_psortVars

-----------------------------------------------------------------------------
(* Properties *)

\* In whatever order the children of each phase write their parts, also when the keys
\* cannot be shared evenly: once psort says it succeeded, the sorted file is the keys
\* in order; and it gives up only when a call or a child failed, on a key that bin's
\* rounded pivot has no bin for, on a bin that does not fit the workspace, or, with
\* fewer keys than children, since validate takes an empty share for a wrong one.
SucceedsOnlySorted ==
  /\ phase > Len(Phases) => sortedfile = SortSeq(keyfile, <) /\ numkeys >= numprocs
  /\ exited => \/ crashed
               \/ \E i \in DOMAIN keyfile : keyfile[i] >= pivot * numprocs
               \/ \E ab \in Proc \X Proc : Len(bins[ab]) > WORKNUM
               \/ numkeys < numprocs
=============================================================================
