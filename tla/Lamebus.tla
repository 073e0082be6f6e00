------------------------------- MODULE Lamebus -------------------------------
(***************************************************************************)
(* The system's bus and the configuration of its devices at boot           *)
(* (kern/dev/lamebus/lamebus.c, the *_att.c files, the generic devices'    *)
(* config functions, mainbus_bootstrap of arch/sys161).  The functions     *)
(* autoconf_X and tryattach_X_to_Y are written by kern/conf/config from a  *)
(* kernel configuration's lines "device X at Y"; DevicesAt has those of     *)
(* kern/conf/ASST3.  Any kmalloc of an attach or config function may fail. *)
(*                                                                         *)
(* Interrupts are on meanwhile: a handler may run on a device whose        *)
(* set-up has not ended.                                                   *)
(***************************************************************************)
EXTENDS Naturals, Sequences, FiniteSets

CONSTANTS LB_NSLOTS,    \* slots 0 .. LB_NSLOTS - 1, the last one the controller's
          Machines,     \* what may be in the slots
          CpuBoards     \* the controller's registers: [mask, self]

LB_CONTROLLER_SLOT == LB_NSLOTS - 1
BusSlot == 0 .. LB_NSLOTS - 1
NoSlot == LB_NSLOTS

\* Each bus's lines "device X at bus"; only those of lamebus have a unit "*".
DevicesAt == [lamebus |-> <<"emu", "ltrace", "ltimer", "lrandom", "lhd", "lser">>,
              ltimer  |-> <<"beep", "rtclock">>,
              lser    |-> <<"con">>,
              lrandom |-> <<"random">>]
CardKind == {"emu", "ltrace", "ltimer", "lrandom", "lhd", "lser"}
Generic == {"beep", "con", "rtclock", "random"}
DeviceKind == CardKind \cup Generic

\* The bits of the controller's mask are the cpus' hardware numbers.
ASSUME LamebusAssumption ==
  /\ LB_NSLOTS \in Nat \ {0}
  /\ Machines \subseteq [BusSlot -> DeviceKind \cup {"none"}]
  /\ \A b \in CpuBoards : b.mask \subseteq Nat /\ IsFiniteSet(b.mask)

VARIABLES
  machine,      \* slot -> kind of card, "none" for an empty slot; never changes
  board,        \* the cpus of the machine; never changes
  softc,        \* the soft contexts made: kind, slot, unit, parent, configured or not
  ls_slotsinuse,
  ls_devdata,   \* slot -> softc whose handler is called, 0 for none
  enabled,      \* slots whose card has been told to interrupt
  nextunit,     \* kind -> nextunit_X
  the,          \* generic kind -> the_console, the_clock, the_beep, the_random
  tobe,         \* probes still to do, in order: what, at which softc, as which unit
  allcpus,      \* hardware number of each struct cpu, in order of c_number from 0
  cram,         \* hardware number -> c_number found by a starting cpu
  bpc,          \* "cpus", "probe", "start", "up", "panic" or "wild"
  addfailed     \* history: the kinds whose config failed after it had set the_X

busVars == <<machine, board, softc, ls_slotsinuse, ls_devdata, enabled, nextunit, the, tobe,
             allcpus, cram, bpc, addfailed>>
cpuVars == <<board, allcpus, cram>>
slots == <<ls_slotsinuse, ls_devdata>>

-----------------------------------------------------------------------------
(* cpus *)

Ascending(S) ==
  CHOOSE s \in [1 .. Cardinality(S) -> S] : \A i, j \in DOMAIN s : i < j => s[i] < s[j]

\* lamebus_init; the boot cpu was made by thread_bootstrap, as hardware number 0.
lamebus_init ==
  /\ machine \in Machines
  /\ board \in CpuBoards
  /\ softc = <<>>
  /\ ls_slotsinuse = {LB_CONTROLLER_SLOT}
  /\ ls_devdata = [s \in BusSlot |-> 0]
  /\ enabled = {}
  /\ nextunit = [k \in DeviceKind |-> 0]
  /\ the = [k \in Generic |-> 0]
  /\ tobe = <<>>
  /\ allcpus = <<0>>
  /\ cram = <<>>
  /\ bpc = "cpus"
  /\ addfailed = {}

\* autoconf_X(bus): one probe for each line at X.
autoconf(bus, at) ==
  IF bus \in DOMAIN DevicesAt
  THEN [i \in DOMAIN DevicesAt[bus] |->
          [dev |-> DevicesAt[bus][i], at |-> at, first |-> TRUE, unit |-> 0, got |-> 0]]
  ELSE <<>>

\* Boot cpu first in allcpus, then the others as found; then the bus is probed.
lamebus_find_cpus ==
  /\ bpc = "cpus"
  /\ allcpus' = <<board.self>> \o Ascending(board.mask \ {board.self})
  /\ tobe' = autoconf("lamebus", 0)
  /\ bpc' = "probe"
  /\ UNCHANGED <<machine, board, softc, slots, enabled, nextunit, the, cram, addfailed>>

\* The boot cpu is number 0, the others are counted from 1.
StartNumbers ==
  LET others == board.mask \ {board.self}
  IN  [h \in others |-> 1 + Cardinality({o \in others : o < h})]

lamebus_start_cpus ==
  /\ bpc = "probe" /\ tobe = <<>>
  /\ cram' = StartNumbers
  /\ bpc' = "up"
  /\ UNCHANGED <<machine, board, softc, slots, enabled, nextunit, the, tobe, allcpus, addfailed>>

-----------------------------------------------------------------------------
(* Slots *)

\* Faulty variant: a slot in use is found again.
ProbesAll(dev) ==
  IF \E s \in BusSlot : machine[s] = dev
  THEN CHOOSE s \in BusSlot : machine[s] = dev /\ \A r \in BusSlot : machine[r] = dev => s <= r
  ELSE NoSlot

\* The first slot that is free and holds the card asked for.
lamebus_probe(dev) ==
  LET found == {s \in BusSlot \ ls_slotsinuse : machine[s] = dev}
  IN  IF found = {} THEN NoSlot ELSE CHOOSE s \in found : \A r \in found : s <= r

lamebus_mark(slot) == ls_slotsinuse' = ls_slotsinuse \cup {slot}
lamebus_attach_interrupt(slot, data) == ls_devdata' = [ls_devdata EXCEPT ![slot] = data]

-----------------------------------------------------------------------------
(* Attaching: the first half of tryattach_X_to_Y *)

this == tobe[1]
Probing == bpc = "probe" /\ tobe # <<>>

\* A card is tried as one unit after the other; a generic device only as unit 0.
ThisUnit == IF this.first THEN nextunit[this.dev] ELSE this.unit
ThisSoftc == Len(softc) + 1

NewSoftc(slot) ==
  /\ softc' = Append(softc, [kind |-> this.dev, slot |-> slot, unit |-> ThisUnit,
                             parent |-> this.at, conf |-> FALSE])
  /\ tobe' = [tobe EXCEPT ![1].got = ThisSoftc, ![1].first = FALSE, ![1].unit = ThisUnit]

\* A slot with the card is found and marked, its interrupt hooked if the driver has a
\* handler.  lamebus_mark panics if the slot is in use.
AttachCard(dev, irq) ==
  LET slot == lamebus_probe(dev)
  IN  /\ Probing /\ this.dev = dev /\ this.got = 0
      /\ slot # NoSlot
      /\ IF slot \in ls_slotsinuse
         THEN bpc' = "panic" /\ UNCHANGED <<softc, slots, tobe>>
         ELSE /\ NewSoftc(slot)
              /\ lamebus_mark(slot)
              /\ IF irq THEN lamebus_attach_interrupt(slot, ThisSoftc) ELSE UNCHANGED ls_devdata
              /\ UNCHANGED bpc
      /\ UNCHANGED <<machine, cpuVars, enabled, nextunit, the, addfailed>>

attach_emu_to_lamebus == AttachCard("emu", TRUE)
attach_ltrace_to_lamebus == AttachCard("ltrace", FALSE)
attach_ltimer_to_lamebus == AttachCard("ltimer", TRUE)
attach_lrandom_to_lamebus == AttachCard("lrandom", FALSE)
attach_lhd_to_lamebus == AttachCard("lhd", TRUE)
attach_lser_to_lamebus == AttachCard("lser", TRUE)

\* No probe: the device below always has what is needed.
AttachGeneric(dev) ==
  /\ Probing /\ this.dev = dev /\ this.got = 0
  /\ nextunit[dev] = 0
  /\ NewSoftc(NoSlot)
  /\ UNCHANGED <<machine, cpuVars, slots, enabled, nextunit, the, bpc, addfailed>>

attach_beep_to_ltimer == AttachGeneric("beep")
attach_rtclock_to_ltimer == AttachGeneric("rtclock")
attach_random_to_lrandom == AttachGeneric("random")
attach_con_to_lser == AttachGeneric("con")

\* Nothing found, no memory for the softc, or not wanted: on to the next line.
Skip ==
  /\ Probing /\ this.got = 0
  /\ tobe' = Tail(tobe)
  /\ UNCHANGED <<machine, cpuVars, softc, slots, enabled, nextunit, the, bpc, addfailed>>

-----------------------------------------------------------------------------
(* Configuring: the second half *)

Configuring(dev) == Probing /\ this.dev = dev /\ this.got # 0

NextUnit == [nextunit EXCEPT ![this.dev] = ThisUnit + 1]

\* Done: first the devices at this one, then the rest.
Succeeds(rest) ==
  /\ softc' = [softc EXCEPT ![this.got].conf = TRUE]
  /\ nextunit' = NextUnit
  /\ tobe' = autoconf(this.dev, this.got) \o rest
  /\ UNCHANGED <<machine, cpuVars, slots, bpc, addfailed>>

\* For a card the rest begins with the next unit; irq: the card is told to interrupt.
CardIsUp(irq) ==
  /\ Succeeds(<<[this EXCEPT !.got = 0, !.unit = ThisUnit + 1]>> \o Tail(tobe))
  /\ enabled' = IF irq THEN enabled \cup {softc[this.got].slot} ELSE enabled
  /\ UNCHANGED the

\* Failed: the softc stays as it is and the loop over the units ends.
Fails ==
  /\ tobe' = Tail(tobe)
  /\ UNCHANGED <<machine, cpuVars, softc, slots, enabled, nextunit, the, bpc, addfailed>>

Timers == {s \in BusSlot : machine[s] = "ltimer"}
havetimerclock == enabled \cap Timers # {}

config_emu == Configuring("emu") /\ (CardIsUp(FALSE) \/ Fails)
config_lhd == Configuring("lhd") /\ (CardIsUp(FALSE) \/ Fails)
config_ltrace == Configuring("ltrace") /\ CardIsUp(FALSE)
config_lrandom == Configuring("lrandom") /\ CardIsUp(FALSE)
config_lser == Configuring("lser") /\ CardIsUp(TRUE)
config_ltimer == Configuring("ltimer") /\ CardIsUp(~havetimerclock)

\* KASSERT(the_X == NULL), then the_X is set.
Panics ==
  /\ bpc' = "panic"
  /\ UNCHANGED <<machine, cpuVars, softc, slots, enabled, nextunit, the, tobe, addfailed>>

IsUp(dev) ==
  IF the[dev] # 0 THEN Panics
  ELSE /\ Succeeds(Tail(tobe))
       /\ the' = [the EXCEPT ![dev] = this.got]
       /\ UNCHANGED enabled

config_beep == Configuring("beep") /\ IsUp("beep")
config_rtclock == Configuring("rtclock") /\ IsUp("rtclock")

\* vfs_adddev, the last call of config_random and config_con, fails: the_X stays set.
AddDevFails(dev) ==
  /\ the[dev] = 0
  /\ the' = [the EXCEPT ![dev] = this.got]
  /\ softc' = [softc EXCEPT ![this.got].conf = TRUE]
  /\ addfailed' = addfailed \cup {dev}
  /\ tobe' = Tail(tobe)
  /\ UNCHANGED <<machine, cpuVars, slots, enabled, nextunit, bpc>>

config_random == Configuring("random") /\ (IsUp("random") \/ AddDevFails("random"))

\* Without memory for its semaphores and locks the console is left without them.
config_con ==
  Configuring("con") /\ (IsUp("con") \/ AddDevFails("con") \/ (the.con = 0 /\ Fails))

-----------------------------------------------------------------------------
(* A handler while devices are being configured *)

\* The consoles at a serial port.
Consoles(port) == {i \in DOMAIN softc : softc[i].kind = "con" /\ softc[i].parent = port}

\* The fields lser_irq calls through: set by attach_con_to_lser; before that the softc
\* holds what kmalloc's block held, NULL or not.  con_input uses the semaphores.
Unset(port) == Consoles(port) = {} \/ \E c \in Consoles(port) : ~softc[c].conf

\* lser_irq without a console: into the void, if the garbage is not NULL.
WildCall(slot) ==
  /\ bpc \in {"probe", "up"}
  /\ slot \in enabled /\ ls_devdata[slot] # 0
  /\ machine[slot] = "lser" /\ Unset(ls_devdata[slot])
  /\ bpc' = "wild"
  /\ UNCHANGED <<machine, cpuVars, softc, slots, enabled, nextunit, the, tobe, addfailed>>

busNext ==
  \/ lamebus_find_cpus \/ lamebus_start_cpus
  \/ attach_emu_to_lamebus \/ attach_ltrace_to_lamebus \/ attach_ltimer_to_lamebus
  \/ attach_lrandom_to_lamebus \/ attach_lhd_to_lamebus \/ attach_lser_to_lamebus
  \/ attach_beep_to_ltimer \/ attach_rtclock_to_ltimer
  \/ attach_random_to_lrandom \/ attach_con_to_lser
  \/ Skip
  \/ config_emu \/ config_ltrace \/ config_ltimer \/ config_lrandom \/ config_lhd \/ config_lser
  \/ config_beep \/ config_rtclock \/ config_random \/ config_con
  \/ \E slot \in BusSlot : WildCall(slot)

busSpec == lamebus_init /\ [][busNext]_busVars

-----------------------------------------------------------------------------
(* Properties *)

Cards == {i \in DOMAIN softc : softc[i].kind \notin Generic}
Configured(kind) == {i \in DOMAIN softc : softc[i].kind = kind /\ softc[i].conf}

\* Whatever fails: a card has one softc, whose handler the slot calls and nobody
\* else's; units of a kind are different; a generic device in use belongs to a device
\* that is configured; at most one timer ticks.  The boot panics only if an earlier
\* config had set the_console or the_random and failed, and a machine with one serial
\* port jumps astray only before the console is there.  A cpu that starts finds its own struct cpu.
BusAgrees ==
  /\ \A i, j \in Cards : softc[i].slot = softc[j].slot => i = j
  /\ \A i \in Cards : /\ softc[i].slot \in ls_slotsinuse
                      /\ machine[softc[i].slot] = softc[i].kind
                      /\ softc[i].kind \notin {"ltrace", "lrandom"} => ls_devdata[softc[i].slot] = i
  /\ \A k \in DeviceKind : \A i, j \in Configured(k) : softc[i].unit = softc[j].unit => i = j
  /\ \A k \in Generic : the[k] # 0 => softc[the[k]].conf /\ softc[softc[the[k]].parent].conf
  /\ Cardinality(enabled \cap Timers) <= 1
  /\ bpc = "panic" => addfailed # {}
  /\ bpc = "wild" /\ Cardinality(Configured("lser")) = 1 => the.con = 0
  /\ \A h \in DOMAIN cram : allcpus[cram[h] + 1] = h
=============================================================================
