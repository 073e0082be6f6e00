-------------------------------- MODULE Menu --------------------------------
(***************************************************************************)
(* The kernel's menu (kern/startup/menu.c) with the line editor it reads   *)
(* from (kern/lib/kgets.c), from boot to shutdown (kern/startup/main.c).   *)
(* The commands of the kernel's arguments are executed first and must      *)
(* succeed; then lines are read for ever.                                  *)
(*                                                                         *)
(* p starts a program in a thread of its own and the menu goes on without  *)
(* waiting; s does so with the shell.  The words of a command are pointers *)
(* into the line's buffer, held in an array on the menu's stack: by the    *)
(* time the thread looks at its arguments both may hold something else.    *)
(* Another command than p, s and q succeeds, is refused or panics; what it *)
(* does belongs to other components.                                       *)
(***************************************************************************)
EXTENDS Naturals, Sequences, SequencesExt

CONSTANTS maxlen,       \* size of the line's buffer
          MAXMENUARGS,
          MaxRead,      \* bound on the lines read
          MaxProgs      \* bound on the programs started

SP == " "
SEMI == ";"
PATH_SHELL == <<"/bin/sh">>
KeyChar == {"p", "q", "s", SP, SEMI}
Line == UNION {[1 .. n -> KeyChar] : n \in 0 .. maxlen - 1}

VARIABLES
  mpc,          \* "execute", "read" (in kgets), "off" or "panic"
  isargs,       \* the commands are from the kernel's arguments
  linebuf,      \* buf, up to pos
  screen,       \* the last line of the terminal, after the prompt
  commands,     \* what strtok_r will still find in the line
  nread,        \* lines read
  progs,        \* the threads of programs: the arguments asked for, the array the thread
                \* was given, "copy" or "stack", what is in the copy, what it has read
  failed1       \* history: a command of the kernel's arguments has failed

menuVars == <<mpc, isargs, linebuf, screen, commands, nread, progs, failed1>>
editVars == <<linebuf, screen>>

\* strtok_r: the pieces between separators, none of them empty.
Pieces(s, sep) ==
  LET Add(done, cur) == IF cur = <<>> THEN done ELSE Append(done, cur)
      Step(acc, ch) == IF ch = sep THEN [done |-> Add(acc.done, acc.cur), cur |-> <<>>]
                       ELSE [acc EXCEPT !.cur = Append(@, ch)]
      last == FoldLeft(Step, [done |-> <<>>, cur |-> <<>>], s)
  IN  Add(last.done, last.cur)

\* kmain: boot, then menu_execute with the arguments.
menuInit ==
  /\ mpc = "execute" /\ isargs = TRUE
  /\ \E args \in Line : commands = Pieces(args, SEMI)
  /\ linebuf = <<>> /\ screen = <<>>
  /\ nread = 0
  /\ progs = <<>>
  /\ failed1 = FALSE

-----------------------------------------------------------------------------
(* kgets: one character of the console *)

Edits(b, s) ==
  /\ mpc = "read"
  /\ linebuf' = b
  /\ screen' = s
  /\ UNCHANGED <<mpc, isargs, commands, nread, progs, failed1>>

\* Back over n characters, each with a backspace, a space and a backspace.
backsp(n) == SubSeq(screen, 1, Len(screen) - n)
Shorter(n) == SubSeq(linebuf, 1, Len(linebuf) - n)

\* A printable character that fits.
TypeChar(ch) ==
  /\ Len(linebuf) < maxlen - 1
  /\ Edits(Append(linebuf, ch), Append(screen, ch))

Backspace == linebuf # <<>> /\ Edits(Shorter(1), backsp(1))

\* ^R: on a new line.
Reprint == Edits(linebuf, linebuf)

\* ^U
EraseLine == Edits(<<>>, backsp(Len(linebuf)))

\* The number of characters at the end of s that are, or are not, spaces.
AtEnd(s, spaces) ==
  CHOOSE n \in 0 .. Len(s) :
    /\ \A i \in Len(s) - n + 1 .. Len(s) : (s[i] = SP) = spaces
    /\ n < Len(s) => (s[Len(s) - n] = SP) # spaces

\* ^W: the spaces at the end, then the word in front of them.
EraseWord ==
  LET blanks == AtEnd(linebuf, TRUE)
      word == AtEnd(Shorter(blanks), FALSE)
  IN  Edits(Shorter(blanks + word), backsp(blanks + word))

\* Newline, or ^C for an empty line; menu_execute begins.
EndLine(text) ==
  /\ mpc = "read"
  /\ mpc' = "execute"
  /\ commands' = Pieces(text, SEMI)
  /\ screen' = <<>>
  /\ linebuf' = text
  /\ UNCHANGED <<isargs, nread, progs, failed1>>

kgets ==
  \/ \E ch \in KeyChar : TypeChar(ch)
  \/ Backspace \/ Reprint \/ EraseLine \/ EraseWord
  \/ EndLine(linebuf)
  \/ EndLine(<<>>)

-----------------------------------------------------------------------------
(* menu_execute *)

Executing == mpc = "execute" /\ commands # <<>>
Words == Pieces(Head(commands), SP)
Command(c) == Words # <<>> /\ Len(Words) <= MAXMENUARGS /\ Words[1] = <<c>>

\* Faulty variant: the thread is given the menu's own array.
SharesArgs(words) == [asked |-> words, array |-> "stack", copy |-> <<>>, read |-> FALSE, got |-> <<>>]

\* common_prog: a copy of the array and of the words, which nobody frees.
argscopy(words) == [asked |-> words, array |-> "copy", copy |-> words, read |-> FALSE, got |-> <<>>]

cmd_prog ==
  /\ Executing
  /\ Command("p") /\ Len(Words) >= 2
  /\ Len(progs) < MaxProgs
  /\ progs' = Append(progs, argscopy(Tail(Words)))
  /\ commands' = Tail(commands)
  /\ UNCHANGED <<mpc, isargs, editVars, nread, failed1>>

\* s: the shell's path takes the place of the command's word.
cmd_shell ==
  /\ Executing
  /\ Command("s") /\ Len(Words) = 1
  /\ Len(progs) < MaxProgs
  /\ progs' = Append(progs, argscopy(<<PATH_SHELL>>))
  /\ commands' = Tail(commands)
  /\ UNCHANGED <<mpc, isargs, editVars, nread, failed1>>

\* common_prog without memory for the copy: it writes through the NULL that kmalloc
\* returned, which is a fatal exception.
CopyFaults ==
  /\ Executing
  /\ (Command("p") /\ Len(Words) >= 2) \/ (Command("s") /\ Len(Words) = 1)
  /\ mpc' = "panic"
  /\ UNCHANGED <<isargs, editVars, commands, nread, progs, failed1>>

\* A command, known or not, whose work is not the menu's.
Elsewhere == Words # <<>> /\ Len(Words) <= MAXMENUARGS /\ Words[1] \notin {<<"p">>, <<"q">>, <<"s">>}

\* Nothing but spaces, or a command that does its work elsewhere.
CommandOk ==
  /\ Executing
  /\ Words = <<>> \/ Elsewhere
  /\ commands' = Tail(commands)
  /\ UNCHANGED <<mpc, isargs, editVars, nread, progs, failed1>>

\* An unknown command, too many words, wrong usage, thread_fork without memory or an
\* error of the command: fatal in the kernel's arguments.
CommandFails ==
  /\ Executing
  /\ Words # <<>> /\ ~Command("q")
  /\ commands' = Tail(commands)
  /\ mpc' = IF isargs THEN "panic" ELSE mpc
  /\ failed1' = (failed1 \/ isargs)
  /\ UNCHANGED <<isargs, editVars, nread, progs>>

\* cmd_panic, one of the other commands.
cmd_panic ==
  /\ Executing
  /\ Elsewhere
  /\ mpc' = "panic"
  /\ UNCHANGED <<isargs, editVars, commands, nread, progs, failed1>>

\* sys_reboot with RB_POWEROFF: the file systems are let go, the other cpus stopped
\* (module Ipi) and the power cut.
sys_reboot == mpc' = "off"

\* cmd_quit: vfs_sync (module Vfs) first.
cmd_quit ==
  /\ Executing
  /\ Command("q")
  /\ sys_reboot
  /\ UNCHANGED <<isargs, editVars, commands, nread, progs, failed1>>

\* The end of the line: the prompt.
Prompt ==
  /\ mpc = "execute" /\ commands = <<>>
  /\ nread < MaxRead
  /\ mpc' = "read"
  /\ isargs' = FALSE
  /\ linebuf' = <<>> /\ screen' = <<>>
  /\ nread' = nread + 1
  /\ UNCHANGED <<commands, progs, failed1>>

\* What the menu's array has now: words of the command under way, or garbage.
OnStack == IF Executing /\ Len(Words) > 1 THEN Tail(Words) ELSE <<>>

\* cmd_progthread: the thread's first look at its arguments.
cmd_progthread(i) ==
  /\ mpc \notin {"off", "panic"}
  /\ ~progs[i].read
  /\ progs' = [progs EXCEPT ![i].read = TRUE,
                            ![i].got = IF progs[i].array = "copy" THEN progs[i].copy ELSE OnStack]
  /\ UNCHANGED <<mpc, isargs, editVars, commands, nread, failed1>>

menuNext ==
  \/ kgets
  \/ cmd_prog \/ cmd_shell \/ CopyFaults \/ cmd_panic \/ CommandOk \/ CommandFails \/ cmd_quit \/ Prompt
  \/ \E i \in DOMAIN progs : cmd_progthread(i)

menuSpec == menuInit /\ [][menuNext]_menuVars

-----------------------------------------------------------------------------
(* Properties *)

\* What is executed is what the screen shows, through every sequence of corrections;
\* a program's thread, however late it runs, finds the arguments it was started
\* with; and the prompt is not reached after a failure in the kernel's arguments.
MenuDoesAsTold ==
  /\ mpc = "read" => screen = linebuf /\ ~failed1
  /\ \A i \in DOMAIN progs : progs[i].read => progs[i].got = progs[i].asked
=============================================================================
