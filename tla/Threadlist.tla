----------------------------- MODULE Threadlist -----------------------------
(***************************************************************************)
(* Thread lists of the OS/161 kernel (kern/thread/threadlist.c).           *)
(*                                                                         *)
(* A thread structure holds ONE list node (t_listnode), so a thread is on  *)
(* at most one list; the kernel's lists are the run queue and the zombie   *)
(* list of each cpu, the sleepers of each wait channel, and the private    *)
(* lists wchan_wakeall and thread_consider_migration keep on their stacks. *)
(* L is a function from list identifiers to sequences of threads: the      *)
(* doubly linked list with sentinels is a sequence, tl_count its length.   *)
(***************************************************************************)
EXTENDS Naturals, Sequences

\* threadlist_addhead / threadlist_addtail: link t at an end of list l.
AddHead(L, l, t) == [L EXCEPT ![l] = <<t>> \o @]

AddTail(L, l, t) == [L EXCEPT ![l] = Append(@, t)]

\* threadlist_remhead on a nonempty list; the thread it returns is Head(L[l]).
RemHead(L, l) == [L EXCEPT ![l] = Tail(@)]

\* threadlist_remtail on a nonempty list; it returns L[l][Len(L[l])].
RemTail(L, l) == [L EXCEPT ![l] = SubSeq(@, 1, Len(@) - 1)]

\* remhead from one list and addtail to another; a faulty variant forgets remhead.
CopyHead(L, from, to) == AddTail(L, to, Head(L[from]))

MoveHead(L, from, to) == AddTail(RemHead(L, from), to, Head(L[from]))

\* remtail from one list and addhead to another.
MoveTail(L, from, to) == AddHead(RemTail(L, from), to, L[from][Len(L[from])])

\* The loop of remhead and addtail that empties one list into another.
MoveAll(L, from, to) == [L EXCEPT ![to] = @ \o L[from], ![from] = <<>>]

\* t is linked on list l.
On(L, l, t) == \E i \in 1..Len(L[l]) : L[l][i] = t

\* The list nodes are used consistently: no thread is linked twice.
Linked(L) ==
  \A a, b \in DOMAIN L : \A i \in 1..Len(L[a]), j \in 1..Len(L[b]) :
     L[a][i] = L[b][j] => a = b /\ i = j

=============================================================================
