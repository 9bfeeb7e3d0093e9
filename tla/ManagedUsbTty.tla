---------------------------- MODULE ManagedUsbTty ----------------------------
(***************************************************************************)
(* The forwarder between a pseudo-terminal and a USB serial device that    *)
(* comes and goes (libsermctp/src/ManagedUsbTty.cpp): open() and close()   *)
(* on the bridge's thread, threadMain() on the worker, and around them     *)
(* udev, the device and the framer that holds the slave side.              *)
(*                                                                         *)
(* Each time it is plugged in the device is another one, numbered from 1;  *)
(* phys_fd is the number of the device behind the descriptor, 0 for -1.    *)
(* Bytes are numbered in the order they are sent.  Only tty events that    *)
(* carry the wanted ID_PATH_TAG are modelled: threadMain() takes the       *)
(* others off the monitor and does nothing about them.                     *)
(***************************************************************************)
EXTENDS Integers, Sequences, FiniteSets

CONSTANTS
    PtyCap,           \* bytes the pseudo-terminal holds in either direction
    InCap, DevCap,    \* bytes the device's tty holds from it and towards it
    Faults,           \* calls that may fail: "pty", "udev", "epoll", "open"
    MaxPlugs, MaxRetriggers, MaxBytes   \* bounds on what happens outside

ASSUME UsbAssumption ==
    /\ PtyCap \in Nat \ {0} /\ InCap \in Nat \ {0} /\ DevCap \in Nat \ {0}
    /\ Faults \subseteq {"pty", "udev", "epoll", "open"}
    /\ MaxPlugs \in Nat /\ MaxRetriggers \in Nat /\ MaxBytes \in Nat

VARIABLES
    running, phys_fd,
    master,      \* pty_master_fd >= 0
    leaked,      \* descriptors of the device that no variable names any more
    caller,      \* "idle", or "joining" inside close()
    worker,      \* where threadMain() is, "none" without a thread
    events,      \* what epoll_wait reported and is still to be handled
    buf,         \* bytes read on one side and not yet written to the other
    udev_mon,    \* whether the udev monitor receives
    udevQ,       \* its events
    slave,       \* "closed", "held" open, or read by a "framer"
    toFramer, toMaster,    \* the two directions of the pseudo-terminal
    plugged, plugs, retriggers,   \* the device that is there (0: none)
    devTx, devRx,          \* the two directions of its tty
    devSent, framerSent,   \* bytes sent so far by either end
    framerGot, devGot      \* history: bytes that reached either end

object == <<running, phys_fd, master, leaked, caller>>
thread == <<worker, events, buf>>
monitor == <<udev_mon, udevQ>>
pty == <<slave, toFramer, toMaster>>
device == <<plugged, plugs, retriggers, devTx, devRx>>
history == <<devSent, framerSent, framerGot, devGot>>
vars == <<object, thread, monitor, pty, device, history>>

\* A device may be plugged in before open().
Init ==
    /\ running = FALSE /\ phys_fd = 0 /\ master = FALSE /\ leaked = 0 /\ caller = "idle"
    /\ worker = "none" /\ events = {} /\ buf = <<>>
    /\ udev_mon = FALSE /\ udevQ = <<>>
    /\ slave = "closed" /\ toFramer = <<>> /\ toMaster = <<>>
    /\ plugged \in {p \in 0..1 : p <= MaxPlugs} /\ plugs = plugged /\ retriggers = 0
    /\ devTx = <<>> /\ devRx = <<>>
    /\ devSent = 0 /\ framerSent = 0 /\ framerGot = <<>> /\ devGot = <<>>

-----------------------------------------------------------------------------
(* open() and close().                                                     *)

\* A fresh pseudo-terminal; its slave is handed to the caller.
Open ==
    /\ caller = "idle" /\ ~running /\ worker = "none" /\ slave = "closed"
    /\ running' = TRUE /\ master' = TRUE /\ worker' = "start"
    /\ slave' = "held" /\ toFramer' = <<>> /\ toMaster' = <<>>
    /\ UNCHANGED <<phys_fd, leaked, caller, events, buf, monitor, device, history>>

\* Already running, openpty(), dup() or the thread failed: nothing is left behind.
OpenFails ==
    /\ caller = "idle" /\ (running \/ "pty" \in Faults)
    /\ UNCHANGED vars

CloseBegin ==
    /\ caller = "idle" /\ (running \/ master \/ phys_fd # 0)
    /\ caller' = "joining" /\ running' = FALSE
    /\ UNCHANGED <<phys_fd, master, leaked, thread, monitor, pty, device, history>>

\* Seeded fault: the device is left open.
CloseEndKeepsDevice ==
    /\ caller = "joining" /\ worker = "exited"
    /\ caller' = "idle" /\ worker' = "none" /\ buf' = <<>> /\ events' = {}
    /\ master' = FALSE
    /\ udev_mon' = FALSE /\ udevQ' = <<>>
    /\ UNCHANGED <<running, phys_fd, leaked, pty, device, history>>

CloseEnd ==
    /\ caller = "joining" /\ worker = "exited"
    /\ caller' = "idle" /\ worker' = "none" /\ buf' = <<>> /\ events' = {}
    /\ phys_fd' = 0 /\ master' = FALSE
    /\ udev_mon' = FALSE /\ udevQ' = <<>>
    /\ UNCHANGED <<running, leaked, pty, device, history>>

-----------------------------------------------------------------------------
(* threadMain().                                                           *)

\* Without a monitor the thread goes on; without epoll it ends.
Start ==
    /\ worker = "start"
    /\ udev_mon' \in {TRUE} \cup {b \in {FALSE} : "udev" \in Faults}
    /\ worker' \in {"top"} \cup {w \in {"exited"} : "epoll" \in Faults}
    /\ UNCHANGED <<object, events, buf, udevQ, pty, device, history>>

\* Seeded fault: the loop does not look at running.
TopForever ==
    /\ worker = "top"
    /\ worker' = "poll"
    /\ UNCHANGED <<object, events, buf, monitor, pty, device, history>>

Top ==
    /\ worker = "top"
    /\ worker' = IF running THEN "poll" ELSE "exited"
    /\ UNCHANGED <<object, events, buf, monitor, pty, device, history>>

\* An unplugged device and a closed slave report a hang-up.
Ready ==
    {fd \in {"udev", "pty", "phys"} :
        \/ fd = "udev" /\ udevQ # <<>>
        \/ fd = "pty" /\ (toMaster # <<>> \/ slave = "closed")
        \/ fd = "phys" /\ phys_fd # 0 /\ (phys_fd # plugged \/ devTx # <<>>)}

\* Nothing is ready in half a second, or EINTR.
PollNothing ==
    /\ worker = "poll"
    /\ worker' = "top"
    /\ UNCHANGED <<object, events, buf, monitor, pty, device, history>>

Poll ==
    /\ worker = "poll" /\ Ready # {}
    /\ worker' = "events" /\ events' = Ready
    /\ UNCHANGED <<object, buf, monitor, pty, device, history>>

\* The events are handled in whatever order the kernel lists them.
Handling(fd) == worker = "events" /\ fd \in events /\ events' = events \ {fd}
Handled == worker' = IF events' = {} THEN "top" ELSE "events"

\* Seeded fault: the events behind a removal are thrown away with it.
HandleRemoveFlushes ==
    /\ Handling("udev") /\ Handled
    /\ udevQ # <<>> /\ Head(udevQ) = "remove" /\ udevQ' = <<>>
    /\ phys_fd' = 0
    /\ UNCHANGED <<running, master, leaked, caller, buf, udev_mon, pty, device, history>>

HandleRemove ==
    /\ Handling("udev") /\ Handled
    /\ udevQ # <<>> /\ Head(udevQ) = "remove" /\ udevQ' = Tail(udevQ)
    /\ phys_fd' = 0
    /\ UNCHANGED <<running, master, leaked, caller, buf, udev_mon, pty, device, history>>

\* The node is opened if there is a device behind it, not necessarily the one the
\* event is about; a descriptor that was still open is overwritten.
HandleAdd ==
    /\ Handling("udev") /\ Handled
    /\ udevQ # <<>> /\ Head(udevQ) = "add" /\ udevQ' = Tail(udevQ)
    /\ \/ /\ plugged # 0
          /\ phys_fd' = plugged
          /\ leaked' = IF phys_fd = 0 THEN leaked ELSE leaked + 1
       \/ /\ plugged = 0 \/ "open" \in Faults
          /\ UNCHANGED <<phys_fd, leaked>>
    /\ UNCHANGED <<running, master, caller, buf, udev_mon, pty, device, history>>

\* What the framer wrote goes to the device, or nowhere if there is none.
HandlePty ==
    /\ Handling("pty")
    /\ toMaster' = <<>>
    /\ \/ /\ phys_fd # 0 /\ toMaster # <<>>
          /\ buf' = toMaster /\ worker' = "toPhys"
       \/ /\ phys_fd = 0 \/ toMaster = <<>>
          /\ UNCHANGED buf /\ Handled
    /\ UNCHANGED <<object, monitor, slave, toFramer, device, history>>

\* read() finds data, an unplugged device, or, for an event that was meant for a
\* device since removed, nothing.
HandlePhys ==
    /\ Handling("phys")
    /\ \/ /\ phys_fd # 0 /\ phys_fd = plugged /\ devTx # <<>>
          /\ buf' = devTx /\ devTx' = <<>> /\ worker' = "toPty" /\ UNCHANGED phys_fd
       \/ /\ phys_fd # plugged
          /\ phys_fd' = 0 /\ Handled /\ UNCHANGED <<buf, devTx>>
       \/ /\ phys_fd = plugged /\ (phys_fd = 0 \/ devTx = <<>>)
          /\ Handled /\ UNCHANGED <<phys_fd, buf, devTx>>
    /\ UNCHANGED <<running, master, leaked, caller, monitor, pty, plugged, plugs, retriggers, devRx, history>>

\* The two write loops.  EAGAIN is retried for ever, without a look at running:
\* a loop that finds no room has no step.
LoopEnds == worker' = IF buf' # <<>> THEN worker ELSE IF events = {} THEN "top" ELSE "events"

WritePhys ==
    /\ worker = "toPhys" /\ phys_fd = plugged /\ Len(devRx) < DevCap
    /\ devRx' = Append(devRx, Head(buf)) /\ buf' = Tail(buf) /\ LoopEnds
    /\ UNCHANGED <<object, events, monitor, pty, plugged, plugs, retriggers, devTx, history>>

\* Seeded faults: the loop goes on after it has closed the device; every error is
\* retried like EAGAIN.
WritePhysFailsNoBreak ==
    /\ worker = "toPhys" /\ phys_fd # plugged
    /\ phys_fd' = 0
    /\ UNCHANGED <<running, master, leaked, caller, thread, monitor, pty, device, history>>

WritePhysRetries ==
    /\ worker = "toPhys" /\ phys_fd # plugged
    /\ UNCHANGED vars

WritePhysFails ==
    /\ worker = "toPhys" /\ phys_fd # plugged
    /\ phys_fd' = 0 /\ buf' = <<>> /\ LoopEnds
    /\ UNCHANGED <<running, master, leaked, caller, events, monitor, pty, device, history>>

\* Seeded fault: each write() starts again at the first byte.
WritePtyNoOffset ==
    /\ worker = "toPty" /\ slave # "closed" /\ Len(toFramer) < PtyCap
    /\ toFramer' = Append(toFramer, Head(buf)) /\ buf' = SubSeq(buf, 1, Len(buf) - 1) /\ LoopEnds
    /\ UNCHANGED <<object, events, monitor, slave, toMaster, device, history>>

WritePty ==
    /\ worker = "toPty" /\ slave # "closed" /\ Len(toFramer) < PtyCap
    /\ toFramer' = Append(toFramer, Head(buf)) /\ buf' = Tail(buf) /\ LoopEnds
    /\ UNCHANGED <<object, events, monitor, slave, toMaster, device, history>>

WritePtyFails ==
    /\ worker = "toPty" /\ slave = "closed"
    /\ phys_fd' = 0 /\ buf' = <<>> /\ LoopEnds
    /\ UNCHANGED <<running, master, leaked, caller, events, monitor, pty, device, history>>

Handle == HandleRemove \/ HandleAdd \/ HandlePty \/ HandlePhys
Write == WritePhys \/ WritePhysFails \/ WritePty \/ WritePtyFails
Worker == Start \/ Top \/ PollNothing \/ Poll \/ Handle \/ Write

-----------------------------------------------------------------------------
(* The outside: the holder of the slave, the device, udev.                 *)

\* The thread that opened the forwarder attaches its framer to the slave, detaches
\* it, and closes the slave.
SlaveTo(s) ==
    /\ caller = "idle"
    /\ <<slave, s>> \in {<<"held", "framer">>, <<"framer", "held">>, <<"held", "closed">>}
    /\ slave' = s
    /\ IF s = "closed" THEN toFramer' = <<>> /\ toMaster' = <<>> ELSE UNCHANGED <<toFramer, toMaster>>
    /\ UNCHANGED <<object, thread, monitor, device, history>>

FramerReads ==
    /\ slave = "framer" /\ toFramer # <<>>
    /\ framerGot' = Append(framerGot, Head(toFramer)) /\ toFramer' = Tail(toFramer)
    /\ UNCHANGED <<object, thread, monitor, slave, toMaster, device, devSent, framerSent, devGot>>

FramerWrites ==
    /\ slave = "framer" /\ Len(toMaster) < PtyCap /\ framerSent < MaxBytes /\ master
    /\ framerSent' = framerSent + 1 /\ toMaster' = Append(toMaster, framerSent + 1)
    /\ UNCHANGED <<object, thread, monitor, slave, toFramer, device, devSent, framerGot, devGot>>

DeviceSends ==
    /\ plugged # 0 /\ Len(devTx) < InCap /\ devSent < MaxBytes
    /\ devSent' = devSent + 1 /\ devTx' = Append(devTx, devSent + 1)
    /\ UNCHANGED <<object, thread, monitor, pty, plugged, plugs, retriggers, devRx, framerSent, framerGot, devGot>>

DeviceReads ==
    /\ devRx # <<>>
    /\ devGot' = Append(devGot, Head(devRx)) /\ devRx' = Tail(devRx)
    /\ UNCHANGED <<object, thread, monitor, pty, plugged, plugs, retriggers, devTx, devSent, framerSent, framerGot>>

Announce(action) == udevQ' = IF udev_mon THEN Append(udevQ, action) ELSE udevQ

Unplug ==
    /\ plugged # 0
    /\ plugged' = 0 /\ devTx' = <<>> /\ devRx' = <<>>
    /\ Announce("remove")
    /\ UNCHANGED <<object, thread, udev_mon, pty, plugs, retriggers, history>>

Plug ==
    /\ plugged = 0 /\ plugs < MaxPlugs
    /\ plugs' = plugs + 1 /\ plugged' = plugs + 1
    /\ Announce("add")
    /\ UNCHANGED <<object, thread, udev_mon, pty, retriggers, devTx, devRx, history>>

\* udevadm trigger and the coldplug service announce devices that are there.
Retrigger ==
    /\ plugged # 0 /\ udev_mon /\ retriggers < MaxRetriggers
    /\ retriggers' = retriggers + 1
    /\ Announce("add")
    /\ UNCHANGED <<object, thread, udev_mon, pty, plugged, plugs, devTx, devRx, history>>

Next ==
    \/ Open \/ OpenFails \/ CloseBegin \/ CloseEnd
    \/ Worker
    \/ \E s \in {"framer", "held", "closed"} : SlaveTo(s)
    \/ FramerReads \/ FramerWrites
    \/ DeviceSends \/ DeviceReads \/ Unplug \/ Plug \/ Retrigger

Spec == Init /\ [][Next]_vars

\* The worker is scheduled, epoll is not interrupted for ever and reports what is
\* ready, a join that can return does, and an attached framer reads.  The device need
\* not take what it is sent: with hardware flow control it may hold CTS off.
FairSpec ==
    /\ Spec
    /\ WF_vars(Worker) /\ SF_vars(Poll) /\ WF_vars(CloseEnd) /\ WF_vars(FramerReads)

-----------------------------------------------------------------------------
(* Properties.                                                             *)

Workers == {"none", "start", "top", "poll", "events", "toPhys", "toPty", "exited"}

\* Every variable has its type, no buffer holds more than it can, and a write loop
\* is only run with bytes to write and with the device open.
UsbTypeOK ==
    /\ {running, master, udev_mon} \subseteq BOOLEAN
    /\ phys_fd \in 0..MaxPlugs /\ leaked \in Nat
    /\ caller \in {"idle", "joining"} /\ worker \in Workers
    /\ events \subseteq {"udev", "pty", "phys"}
    /\ slave \in {"closed", "held", "framer"}
    /\ Len(toFramer) <= PtyCap /\ Len(devRx) <= DevCap
    /\ worker \in {"toPhys", "toPty"} <=> buf # <<>>
    /\ worker \in {"toPhys", "toPty"} => phys_fd # 0

Ordered(s) == \A j, k \in 1..Len(s) : j < k => s[j] < s[k]

\* Whatever is unplugged, put back or closed in between, either end gets bytes in
\* the order the other sent them and none twice: what a partial write, a removal or
\* a failed write leaves in buf is dropped, never sent to the next device.
InOrderBothWays ==
    /\ Ordered(framerGot \o toFramer \o (IF worker = "toPty" THEN buf ELSE <<>>) \o devTx)
    /\ Ordered(devGot \o devRx \o (IF worker = "toPhys" THEN buf ELSE <<>>) \o toMaster)

\* Repeated announcements are the only way to lose a descriptor, one for each:
\* whatever fails and however removals, failed reads and failed writes interleave
\* with close(), every other descriptor of the device is closed exactly once.
LeaksOnlyRepeated ==
    caller = "idle" /\ ~running => phys_fd = 0 /\ ~master /\ leaked <= retriggers

\* One of the two write loops retries EAGAIN: nobody reads the pseudo-terminal, or
\* the device that is there takes nothing.
Stuck ==
    \/ worker = "toPty" /\ slave = "held" /\ Len(toFramer) = PtyCap
    \/ worker = "toPhys" /\ phys_fd = plugged /\ Len(devRx) = DevCap

\* The udev monitor holds an announcement of the device that is there.
Announced == plugged # 0 /\ \E k \in 1..Len(udevQ) : udevQ[k] = "add"

\* Nobody waits for the worker: it has ended, is told to, or writes to a
\* pseudo-terminal that nobody reads.
Excused == ~running \/ worker = "exited" \/ slave # "framer"

\* A device that is announced while the forwarder runs is attached, unless it is
\* pulled out again, the forwarder is closed or nobody reads the pseudo-terminal;
\* whatever events of its predecessor are queued before, and however its data and
\* its announcement are ordered in one epoll batch.
AnnouncedIsAttached == Announced ~> (phys_fd = plugged \/ plugged = 0 \/ Excused)

\* The descriptor of a device that is gone is given up, so that the next one is
\* not mixed up with it.
GoneIsDetached == (phys_fd # 0 /\ phys_fd # plugged) ~> (phys_fd \in {0, plugged} \/ Excused)

\* close() returns unless the worker is caught for good in one of the two loops that
\* retry EAGAIN without a look at running: because nobody reads the pseudo-terminal,
\* or because the device takes no more bytes and stays plugged in.
CloseReturnsUnlessStuck == [](caller = "joining" => <>(caller = "idle" \/ []Stuck))
=============================================================================
