-------------------------- MODULE LinuxMctpSerial --------------------------
(***************************************************************************)
(* The kernel side of the bridge (libsermctp/src/LinuxMctpSerial.cpp) in   *)
(* several bridge processes of one machine.  initialize() puts the MCTP    *)
(* line discipline on a fresh pseudo-terminal, and the kernel answers with *)
(* a network interface mctpserial<n>.  Nobody tells initialize() which     *)
(* one: it compares the names that exist before and after.                 *)
(*                                                                         *)
(* The kernel creates the interface inside the ioctl, under the lowest     *)
(* free number, and removes it, with all that was programmed into it, when *)
(* the discipline is set back.  An interface that is renamed keeps its     *)
(* number, and is no longer listed.  Every netlink request names the       *)
(* interface, and the name is resolved anew each time: see MctpNetlink.    *)
(***************************************************************************)
EXTENDS Integers, Sequences, FiniteSets

CONSTANTS
    Procs,       \* bridge processes
    Names,       \* the names mctpserial<n>, as numbers
    Aliases,     \* other names a process may ask for
    Scans,       \* passes of the loop that looks for the interface: 10
    Waits,       \* passes of the loop that waits for it to vanish: 50
    Transparent, \* processes that give their interface no EID of its own
    Peers,       \* the routes a process asks for, one for each of its peers
    Faults,      \* pairs of a process and what may fail for it: "pty", "ldisc",
                 \* "rename", "netlink", "framer"
    None         \* no name, no process

ASSUME LinuxAssumption ==
    /\ Names \subseteq Nat /\ Names \cap Aliases = {} /\ None \notin Names \cup Aliases \cup Procs
    /\ Cardinality(Procs) <= Cardinality(Names)
    /\ Scans \in Nat \ {0} /\ Waits \in Nat \ {0}
    /\ Transparent \subseteq Procs /\ Peers \in Seq(STRING)

VARIABLES
    pc,          \* where each process is
    wanted,      \* the name this initialize() is asked for, None for any
    before,      \* the names it saw before it created its own
    round,       \* passes of the current loop
    warned,      \* history: processes whose initialize() has printed a warning
    mctp_if_name,
    framer,      \* whether the embedded framer is attached
    iface,       \* whose pseudo-terminal is behind each number, None if it is unused
    label,       \* the name under which it goes
    config,      \* what has been programmed into it
    disturbed    \* history: processes that had company during this initialize()

kernel == <<iface, label, config>>
linuxVars == <<pc, wanted, before, round, warned, mctp_if_name, framer, kernel>>
vars == <<linuxVars, disturbed>>

Init ==
    /\ pc = [p \in Procs |-> "idle"] /\ wanted = [p \in Procs |-> None] /\ before = [p \in Procs |-> {}] /\ round = [p \in Procs |-> 0]
    /\ mctp_if_name = [p \in Procs |-> None] /\ framer = [p \in Procs |-> FALSE]
    /\ iface = [n \in Names |-> None] /\ label = [n \in Names |-> n] /\ config = [n \in Names |-> {}]
    /\ warned = {} /\ disturbed = {}

list_mctp_devices == {n \in Names : iface[n] # None /\ label[n] = n}

\* The interface that goes by a name.
Called(name) == {n \in Names : iface[n] # None /\ label[n] = name}

\* The number the kernel gives to a new interface.
Unused == {n \in Names : iface[n] = None}
Lowest == CHOOSE n \in Unused : \A m \in Unused : n <= m

goto(p, from, to) == pc[p] = from /\ pc' = [pc EXCEPT ![p] = to]

\* The locals of initialize() are gone.
LeaveScan(p) ==
    /\ round' = [round EXCEPT ![p] = 0]
    /\ wanted' = [wanted EXCEPT ![p] = None] /\ before' = [before EXCEPT ![p] = {}]

-----------------------------------------------------------------------------
(* initialize().  A failure after the first is followed by close().        *)

\* Seeded fault: the existing names are not recorded.
BeginUnlisted(p, name) ==
    /\ goto(p, "idle", "listed")
    /\ wanted' = [wanted EXCEPT ![p] = name] /\ before' = [before EXCEPT ![p] = {}]
    /\ warned' = warned \ {p}
    /\ UNCHANGED <<round, mctp_if_name, framer, kernel>>

Begin(p, name) ==
    /\ goto(p, "idle", "listed")
    /\ wanted' = [wanted EXCEPT ![p] = name] /\ before' = [before EXCEPT ![p] = list_mctp_devices]
    /\ warned' = warned \ {p}
    /\ UNCHANGED <<round, mctp_if_name, framer, kernel>>

\* There is no pseudo-terminal: nothing to close.
OpenPtyFails(p) ==
    /\ <<p, "pty">> \in Faults
    /\ goto(p, "listed", "idle") /\ LeaveScan(p)
    /\ UNCHANGED <<warned, mctp_if_name, framer, kernel>>

\* The slave cannot be opened or configured, or refuses the line discipline.
SetDisciplineFails(p) ==
    /\ <<p, "ldisc">> \in Faults
    /\ goto(p, "listed", "close") /\ LeaveScan(p)
    /\ UNCHANGED <<warned, mctp_if_name, framer, kernel>>

SetDiscipline(p) ==
    /\ Unused # {}
    /\ goto(p, "listed", "scan")
    /\ iface' = [iface EXCEPT ![Lowest] = p] /\ label' = [label EXCEPT ![Lowest] = Lowest]
    /\ UNCHANGED <<wanted, before, round, warned, mctp_if_name, framer, config>>

NewNames(p) == list_mctp_devices \ before[p]

\* One pass ends: with no name yet, initialize() gives up at once and reports a
\* timeout; with one, it sleeps and looks again, until the passes are used up.
ScanEnds(p) ==
    \/ /\ mctp_if_name'[p] = None
       /\ goto(p, "scan", "close") /\ LeaveScan(p)
    \/ /\ mctp_if_name'[p] # None /\ round[p] + 1 < Scans
       /\ goto(p, "scan", "scan")
       /\ round' = [round EXCEPT ![p] = @ + 1] /\ UNCHANGED <<wanted, before>>
    \/ /\ mctp_if_name'[p] # None /\ round[p] + 1 = Scans
       /\ goto(p, "scan", "program") /\ LeaveScan(p)

ScanNothing(p) ==
    /\ NewNames(p) = {}
    /\ UNCHANGED <<warned, mctp_if_name, framer, kernel>>
    /\ ScanEnds(p)

\* Of several new names the last one listed is taken, that is any.
ScanTakes(p) ==
    /\ wanted[p] = None
    /\ \E dev \in NewNames(p) : mctp_if_name' = [mctp_if_name EXCEPT ![p] = dev]
    /\ UNCHANGED <<warned, framer, kernel>>
    /\ ScanEnds(p)

\* With a name asked for, the first new one is renamed.
ScanRenames(p) ==
    /\ wanted[p] # None
    /\ Called(wanted[p]) = {}
    /\ \E dev \in NewNames(p) : label' = [label EXCEPT ![dev] = wanted[p]]
    /\ mctp_if_name' = [mctp_if_name EXCEPT ![p] = wanted[p]]
    /\ UNCHANGED <<warned, framer, iface, config>>
    /\ ScanEnds(p)

RenameFails(p) ==
    /\ wanted[p] # None
    /\ Called(wanted[p]) # {} \/ <<p, "rename">> \in Faults
    /\ \E dev \in NewNames(p) : mctp_if_name' = [mctp_if_name EXCEPT ![p] = dev]
    /\ goto(p, "scan", "close") /\ LeaveScan(p)
    /\ UNCHANGED <<warned, framer, kernel>>

\* What the interface is given, one netlink request after the other.
Plan(p) == (IF p \in Transparent THEN <<>> ELSE <<"eid">>) \o <<"up">> \o Peers

\* A request reaches the interface that goes by the name at the moment.
Programmed(p) ==
    config' = [n \in Names |-> IF n \in Called(mctp_if_name[p])
                               THEN config[n] \cup {Plan(p)[round[p] + 1]} ELSE config[n]]

\* Seeded fault: the acknowledgement is not looked at.
ProgramUnchecked(p) ==
    /\ <<p, "netlink">> \in Faults \/ Called(mctp_if_name[p]) = {}
    /\ Programmed(p) \/ UNCHANGED config
    /\ UNCHANGED warned

\* Nobody goes by the name, or the kernel refuses the request, or does not answer
\* after it has done it: only a warning.
ProgramWarns(p) ==
    /\ <<p, "netlink">> \in Faults \/ Called(mctp_if_name[p]) = {}
    /\ Programmed(p) \/ UNCHANGED config
    /\ warned' = warned \cup {p}

Program(p) ==
    /\ \/ /\ goto(p, "program", "program") /\ round[p] + 1 < Len(Plan(p))
          /\ round' = [round EXCEPT ![p] = @ + 1]
       \/ /\ goto(p, "program", "attach") /\ round[p] + 1 = Len(Plan(p))
          /\ round' = [round EXCEPT ![p] = 0]
    /\ \/ Called(mctp_if_name[p]) # {} /\ Programmed(p) /\ UNCHANGED warned
       \/ ProgramWarns(p)
    /\ UNCHANGED <<wanted, before, mctp_if_name, framer, iface, label>>

\* The framer is attached, and the interface must still exist.
Attach(p) ==
    /\ Called(mctp_if_name[p]) # {}
    /\ goto(p, "attach", "up")
    /\ framer' = [framer EXCEPT ![p] = TRUE]
    /\ UNCHANGED <<wanted, before, round, warned, mctp_if_name, kernel>>

\* Seeded fault: the exception is thrown without close().
AttachFailsNoClose(p) ==
    /\ <<p, "framer">> \in Faults \/ Called(mctp_if_name[p]) = {}
    /\ goto(p, "attach", "idle")
    /\ UNCHANGED <<wanted, before, round, warned, mctp_if_name, framer, kernel>>

AttachFails(p) ==
    /\ <<p, "framer">> \in Faults \/ Called(mctp_if_name[p]) = {}
    /\ goto(p, "attach", "close")
    /\ UNCHANGED <<wanted, before, round, warned, mctp_if_name, framer, kernel>>

-----------------------------------------------------------------------------
(* close(), also of an endpoint that is not initialized.                   *)

CloseBegin(p) ==
    /\ \E from \in {"up", "idle"} : goto(p, from, "close")
    /\ UNCHANGED <<wanted, before, round, warned, mctp_if_name, framer, kernel>>

\* The interface is removed, and what was programmed into it.
Released(p) ==
    /\ iface' = [n \in Names |-> IF iface[n] = p THEN None ELSE iface[n]]
    /\ label' = [n \in Names |-> IF iface[n] = p THEN n ELSE label[n]]
    /\ config' = [n \in Names |-> IF iface[n] = p THEN {} ELSE config[n]]

\* The framer goes first, then the discipline and with it the interface.
ResetDiscipline(p) ==
    /\ goto(p, "close", "vanish")
    /\ framer' = [framer EXCEPT ![p] = FALSE]
    /\ Released(p)
    /\ UNCHANGED <<wanted, before, round, warned, mctp_if_name>>

Vanished(p) ==
    /\ mctp_if_name[p] \notin list_mctp_devices
    /\ goto(p, "vanish", "idle")
    /\ mctp_if_name' = [mctp_if_name EXCEPT ![p] = None]
    /\ round' = [round EXCEPT ![p] = 0]
    /\ UNCHANGED <<wanted, before, warned, framer, kernel>>

\* Seeded fault: one pass too many.
StillThereOnceMore(p) ==
    /\ mctp_if_name[p] \in list_mctp_devices
    /\ \/ round[p] + 1 <= Waits /\ goto(p, "vanish", "vanish") /\ round' = [round EXCEPT ![p] = @ + 1]
       \/ round[p] + 1 > Waits /\ goto(p, "vanish", "idle") /\ round' = [round EXCEPT ![p] = 0]
    /\ UNCHANGED <<wanted, before, warned, mctp_if_name, framer, kernel>>

\* After the last pass close() warns and leaves the name where it is.
StillThere(p) ==
    /\ mctp_if_name[p] \in list_mctp_devices
    /\ \/ round[p] + 1 < Waits /\ goto(p, "vanish", "vanish") /\ round' = [round EXCEPT ![p] = @ + 1]
       \/ round[p] + 1 = Waits /\ goto(p, "vanish", "idle") /\ round' = [round EXCEPT ![p] = 0]
    /\ UNCHANGED <<wanted, before, warned, mctp_if_name, framer, kernel>>

initialize(p) ==
    \/ OpenPtyFails(p) \/ SetDisciplineFails(p) \/ SetDiscipline(p)
    \/ ScanNothing(p) \/ ScanTakes(p) \/ ScanRenames(p) \/ RenameFails(p)
    \/ Program(p)
    \/ Attach(p) \/ AttachFails(p)
close(p) == ResetDiscipline(p) \/ Vanished(p) \/ StillThere(p)

\* A call that has begun goes on; another may begin when there is none.
Continues(p) == initialize(p) \/ close(p)
Begins(p) == CloseBegin(p) \/ \E name \in Aliases \cup {None} : Begin(p, name)

\* Another process is inside initialize() or close() while p initializes.
Company(p) ==
    /\ pc'[p] \in {"listed", "scan", "program", "attach"}
    /\ \E q \in Procs \ {p} : pc'[q] \notin {"idle", "up"}

Observe ==
    disturbed' = {p \in Procs : \/ Company(p)
                                \/ p \in disturbed /\ pc'[p] \in {"listed", "scan", "program", "attach", "up"}}

Next == (\E p \in Procs : Begins(p) \/ Continues(p)) /\ Observe

Spec == Init /\ [][Next]_vars

-----------------------------------------------------------------------------
(* Properties.                                                             *)

\* Every variable has its type, and the loops end.
LinuxTypeOK ==
    /\ pc \in [Procs -> {"idle", "listed", "scan", "program", "attach", "up", "close", "vanish"}]
    /\ wanted \in [Procs -> Aliases \cup {None}] /\ before \in [Procs -> SUBSET Names]
    /\ \A p \in Procs : round[p] \in 0..(CASE pc[p] = "scan" -> Scans - 1
                                         [] pc[p] = "program" -> Len(Plan(p)) - 1
                                         [] pc[p] = "vanish" -> Waits - 1
                                         [] OTHER -> 0)
    /\ mctp_if_name \in [Procs -> Names \cup Aliases \cup {None}]
    /\ framer \in [Procs -> BOOLEAN]
    /\ warned \subseteq Procs /\ disturbed \subseteq Procs
    /\ iface \in [Names -> Procs \cup {None}] /\ label \in [Names -> Names \cup Aliases]

\* "Name of the newly created mctpserial device" (LinuxMctpSerial.cpp:67): an
\* initialized endpoint goes by the name of the interface behind its own
\* pseudo-terminal, for as long as it is up.
GoesByOwnName(p) == {iface[n] : n \in Called(mctp_if_name[p])} = {p}
OwnInterface == \A p \in Procs : pc[p] = "up" => GoesByOwnName(p)

\* A process that initializes while no other process is in initialize() or close()
\* finds its own interface, whatever names earlier processes, failed attempts and
\* unfinished closes have left, and keeps it whatever happens later.
OwnInterfaceIfUndisturbed ==
    \A p \in Procs \ disturbed : pc[p] = "up" => GoesByOwnName(p)

\* An endpoint that came up without a warning, while no other process was in
\* initialize() or close(), has all it asked for on its own interface, although
\* each request resolved the name anew and the requests are no transaction.
Range(s) == {s[k] : k \in 1..Len(s)}
ConfiguredUnlessWarned ==
    \A p \in Procs \ (disturbed \cup warned) :
       pc[p] = "up" => \E n \in Names : iface[n] = p /\ Range(Plan(p)) \subseteq config[n]

\* Wherever initialize() fails, and after every close(), no interface of the
\* process is left in the kernel and no framer reads its pseudo-terminal; before
\* that there is at most one, and two processes never share one.
NothingLeftBehind ==
    \A p \in Procs :
       /\ pc[p] \in {"idle", "listed", "vanish"} => ~framer[p] /\ \A n \in Names : iface[n] # p
       /\ \A m, n \in Names : iface[m] = p /\ iface[n] = p => m = n
       /\ framer[p] => \E n \in Names : iface[n] = p
=============================================================================
