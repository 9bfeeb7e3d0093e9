------------------------ MODULE BridgeProcess_proofs ------------------------
(***************************************************************************)
(* The processes, one layer on the other.                                  *)
(*                                                                         *)
(* First the kernel endpoint: none leaves anything behind, for any number  *)
(* of processes, names, passes and faults.  The inductive invariant adds   *)
(* where a process must have an interface, and where it may have a framer: *)
(* between the two ioctl calls, and between attaching it and close().  Two *)
(* further invariants build on it: which interface an endpoint takes, and  *)
(* what has been programmed into it.                                       *)
(*                                                                         *)
(* Then the whole process: one that is gone holds nothing, for any number  *)
(* of processes and names, any faults, signals and crashes.  The invariant *)
(* adds to that of the kernel endpoint that a process only listens behind  *)
(* the path its messenger remembers, and only until close() has removed    *)
(* the file.                                                               *)
(*                                                                         *)
(* Last, a bridge that starts while the others are settled starts unless   *)
(* one of its own calls fails, and is then found under its name for as     *)
(* long as it runs.                                                        *)
(***************************************************************************)
EXTENDS BridgeProcess, TLAPS, WellFoundedInduction

-----------------------------------------------------------------------------
(* The kernel endpoint.                                                    *)

Without == {"idle", "listed", "vanish"}
With == {"scan", "program", "attach", "up"}
Places == Without \cup With \cup {"close"}

LinuxInv ==
    /\ pc \in [Procs -> Places] /\ framer \in [Procs -> BOOLEAN] /\ iface \in [Names -> Procs \cup {None}]
    /\ \A p \in Procs : pc[p] \in With => \E n \in Names : iface[n] = p
    /\ \A p \in Procs : framer[p] => pc[p] \in {"up", "close"}
    /\ NothingLeftBehind

\* A step that changes neither the interfaces nor the framers only has to go to a
\* place where as much is required.
LEMMA Moves ==
    ASSUME LinuxInv, NEW p \in Procs, NEW from \in Places, NEW to \in Places,
           goto(p, from, to), UNCHANGED <<framer, iface>>,
           to \in Without => from \in Without,
           to \in With => from \in With,
           from \in {"up", "close"} => to \in {"up", "close"}
    PROVE  LinuxInv'
<1>1. pc[p] = from /\ pc' \in [Procs -> Places] /\ pc'[p] = to
      /\ \A q \in Procs \ {p} : pc'[q] = pc[q]
  BY DEF goto, LinuxInv
<1>2. \A q \in Procs : pc'[q] \in With => \E n \in Names : iface'[n] = q
  BY <1>1 DEF LinuxInv
<1>3. \A q \in Procs : framer'[q] => pc'[q] \in {"up", "close"}
  BY <1>1 DEF LinuxInv
<1>4. NothingLeftBehind'
  <2> SUFFICES ASSUME NEW q \in Procs
               PROVE  /\ pc'[q] \in Without => ~framer'[q] /\ \A n \in Names : iface'[n] # q
                      /\ \A m, n \in Names : iface'[m] = q /\ iface'[n] = q => m = n
                      /\ framer'[q] => \E n \in Names : iface'[n] = q
    BY DEF NothingLeftBehind, Without
  <2> QED BY <1>1 DEF LinuxInv, NothingLeftBehind, Without
<1> QED BY <1>1, <1>2, <1>3, <1>4 DEF LinuxInv

\* The kernel finds a number for a new interface.
LEMMA LowestUnused == ASSUME Unused # {} PROVE Lowest \in Unused
<1>1. Unused \subseteq Nat
  BY LinuxAssumption DEF Unused
<1>2. PICK n \in Unused : \A m \in Unused : <<m, n>> \notin OpToRel(<, Nat)
  BY <1>1, WFMin, NatLessThanWellFounded
<1>3. ASSUME NEW m \in Unused PROVE n <= m
  <2>1. m \in Nat /\ n \in Nat
    BY <1>1
  <2>2. m < n => <<m, n>> \in OpToRel(<, Nat)
    BY <2>1 DEF OpToRel
  <2>3. ~(m < n)
    BY <1>2, <2>2, Zenon
  <2> QED BY <2>1, <2>3
<1> QED BY <1>3, Zenon DEF Lowest

LEMMA SetDisciplineInv ==
    ASSUME LinuxInv, NEW p \in Procs, SetDiscipline(p)
    PROVE  LinuxInv'
<1>1. pc[p] = "listed" /\ pc' \in [Procs -> Places] /\ pc'[p] = "scan"
      /\ \A q \in Procs \ {p} : pc'[q] = pc[q]
  BY DEF SetDiscipline, goto, LinuxInv, Places, With
<1>2. PICK n \in Names : n = Lowest /\ iface[n] = None
  BY LowestUnused DEF SetDiscipline, Unused
<1>3. iface' = [iface EXCEPT ![n] = p]
  BY <1>2 DEF SetDiscipline
<1>4. ~framer[p] /\ \A m \in Names : iface[m] # p
  BY <1>1 DEF LinuxInv, NothingLeftBehind
<1>5. UNCHANGED framer
  BY DEF SetDiscipline
<1>6. \A q \in Procs : pc'[q] \in With => \E m \in Names : iface'[m] = q
  BY <1>1, <1>2, <1>3, LinuxAssumption DEF LinuxInv
<1>7. NothingLeftBehind'
  BY <1>1, <1>2, <1>3, <1>4, <1>5, LinuxAssumption DEF LinuxInv, NothingLeftBehind
<1> QED BY <1>1, <1>3, <1>4, <1>5, <1>6, <1>7 DEF LinuxInv

LEMMA AttachInv ==
    ASSUME LinuxInv, NEW p \in Procs, Attach(p)
    PROVE  LinuxInv'
<1>1. pc[p] = "attach" /\ pc' \in [Procs -> Places] /\ pc'[p] = "up"
      /\ \A q \in Procs \ {p} : pc'[q] = pc[q]
  BY DEF Attach, goto, LinuxInv, Places, With
<1>2. framer' = [framer EXCEPT ![p] = TRUE] /\ UNCHANGED iface
  BY DEF Attach, kernel
<1>3. \E n \in Names : iface[n] = p
  BY <1>1 DEF LinuxInv, With
<1>4. \A q \in Procs : pc'[q] \in With => \E m \in Names : iface'[m] = q
  BY <1>1, <1>2, <1>3 DEF LinuxInv
<1>5. \A q \in Procs : framer'[q] => pc'[q] \in {"up", "close"}
  BY <1>1, <1>2 DEF LinuxInv
<1>6. NothingLeftBehind'
  BY <1>1, <1>2, <1>3 DEF LinuxInv, NothingLeftBehind
<1> QED BY <1>1, <1>2, <1>4, <1>5, <1>6 DEF LinuxInv

\* close() gives up all there is of the process, and nothing of any other.
LEMMA ResetDisciplineInv ==
    ASSUME LinuxInv, NEW p \in Procs, ResetDiscipline(p)
    PROVE  LinuxInv'
<1>1. pc' \in [Procs -> Places] /\ pc'[p] = "vanish" /\ \A q \in Procs \ {p} : pc'[q] = pc[q]
  BY DEF ResetDiscipline, goto, LinuxInv, Places, Without
<1>2. framer' = [framer EXCEPT ![p] = FALSE]
  BY DEF ResetDiscipline
<1>3. iface' \in [Names -> Procs \cup {None}]
      /\ \A n \in Names : iface'[n] = IF iface[n] = p THEN None ELSE iface[n]
  BY DEF ResetDiscipline, Released, LinuxInv
<1>4. \A q \in Procs : pc'[q] \in With => \E m \in Names : iface'[m] = q
  BY <1>1, <1>3 DEF LinuxInv, With
<1>5. \A q \in Procs : framer'[q] => pc'[q] \in {"up", "close"}
  BY <1>1, <1>2 DEF LinuxInv
<1>6. NothingLeftBehind'
  BY <1>1, <1>2, <1>3, LinuxAssumption DEF LinuxInv, NothingLeftBehind
<1> QED BY <1>1, <1>2, <1>3, <1>4, <1>5, <1>6 DEF LinuxInv

LEMMA LinuxInitInv == Init => LinuxInv
BY LinuxAssumption DEF Init, LinuxInv, NothingLeftBehind, Places, With, Without

\* Every step of every process keeps the invariant.
LEMMA CallInv ==
    ASSUME LinuxInv, NEW p \in Procs, Begins(p) \/ Continues(p)
    PROVE  LinuxInv'
<1> USE DEF Places, With, Without, kernel
<1>1. CASE Begins(p)
  <2>1. CASE CloseBegin(p)
    BY <2>1, Moves DEF CloseBegin
  <2>2. ASSUME NEW name, Begin(p, name) PROVE LinuxInv'
    BY <2>2, Moves DEF Begin
  <2> QED BY <1>1, <2>1, <2>2 DEF Begins
<1>2. CASE initialize(p)
  <2>1. CASE OpenPtyFails(p)
    BY <2>1, Moves DEF OpenPtyFails
  <2>2. CASE SetDisciplineFails(p)
    BY <2>2, Moves DEF SetDisciplineFails
  <2>3. CASE SetDiscipline(p)
    BY <2>3, SetDisciplineInv
  <2>4. ASSUME ScanEnds(p), UNCHANGED <<framer, iface>> PROVE LinuxInv'
    BY <2>4, Moves DEF ScanEnds
  <2>5. CASE ScanNothing(p) \/ ScanTakes(p) \/ ScanRenames(p)
    BY <2>4, <2>5 DEF ScanNothing, ScanTakes, ScanRenames
  <2>6. CASE RenameFails(p)
    BY <2>6, Moves DEF RenameFails
  <2>7. CASE Program(p)
    BY <2>7, Moves DEF Program
  <2>8. CASE Attach(p)
    BY <2>8, AttachInv
  <2>9. CASE AttachFails(p)
    BY <2>9, Moves DEF AttachFails
  <2> QED BY <1>2, <2>1, <2>2, <2>3, <2>5, <2>6, <2>7, <2>8, <2>9 DEF initialize
<1>3. CASE close(p)
  <2>1. CASE ResetDiscipline(p)
    BY <2>1, ResetDisciplineInv
  <2>2. CASE Vanished(p)
    BY <2>2, Moves DEF Vanished
  <2>3. CASE StillThere(p)
    BY <2>3, Moves DEF StillThere
  <2> QED BY <1>3, <2>1, <2>2, <2>3 DEF close
<1> QED BY <1>1, <1>2, <1>3 DEF Continues

LEMMA LinuxStep == LinuxInv /\ [Next]_vars => LinuxInv'
<1> SUFFICES ASSUME LinuxInv, [Next]_vars PROVE LinuxInv'
  OBVIOUS
<1>1. CASE UNCHANGED vars
  BY <1>1 DEF vars, linuxVars, kernel, LinuxInv, NothingLeftBehind
<1>2. CASE Next
  BY <1>2, CallInv DEF Next
<1> QED BY <1>1, <1>2

\* However many processes initialize, fail and close, in whatever order: one that is
\* not between the two has no interface and no framer, none has two, two never
\* share one, and a framer is only attached to an interface that exists.
THEOREM LinuxNothingLeftBehind == Spec => []NothingLeftBehind
<1>1. LinuxInv => NothingLeftBehind
  BY DEF LinuxInv
<1> QED BY <1>1, LinuxInitInv, LinuxStep, PTL DEF Spec

-----------------------------------------------------------------------------
(* A process that initializes alone finds its own interface.  While it is  *)
(* at it, no other process can take a step without becoming its company,   *)
(* so the two listings differ in its own interface only.  Once it is up,   *)
(* no later process can rename that interface, because it was listed       *)
(* before that one made its own, or is not listed at all.                  *)

Opening == {"listed", "scan", "program", "attach"}

OwnTypes ==
    /\ label \in [Names -> Names \cup Aliases] /\ before \in [Procs -> SUBSET Names]
    /\ wanted \in [Procs -> Aliases \cup {None}] /\ round \in [Procs -> Nat]
    /\ mctp_if_name \in [Procs -> Names \cup Aliases \cup {None}]
    /\ disturbed \subseteq Procs

\* Two interfaces never have the same name.
Labels ==
    /\ \A n \in Names : iface[n] # None => label[n] = n \/ label[n] \in Aliases
    /\ \A m, n \in Names : iface[m] # None /\ iface[n] # None /\ label[m] = label[n] => m = n

Rounds == \A p \in Procs : pc[p] \in {"idle", "listed", "attach", "up", "close"} => round[p] = 0

Alone == \A p \in Procs \ disturbed : pc[p] \in Opening => \A q \in Procs \ {p} : pc[q] \in {"idle", "up"}

\* What holds of process p and interface n behind its pseudo-terminal.
Found(p) ==
    /\ pc[p] = "listed" => before[p] = list_mctp_devices
    /\ \A n \in Names : iface[n] = p =>
         /\ pc[p] = "scan" => /\ n \notin before[p] /\ list_mctp_devices \ {n} \subseteq before[p]
                              /\ round[p] = 0 => label[n] = n
                              /\ round[p] # 0 => label[n] = mctp_if_name[p]
         /\ pc[p] \in {"program", "attach", "up"} => label[n] = mctp_if_name[p]
         /\ \A q \in Procs \ {p} : pc[p] = "up" /\ pc[q] \in {"listed", "scan"} /\ label[n] = n => n \in before[q]

OwnInv == LinuxInv /\ OwnTypes /\ Labels /\ Rounds /\ Alone /\ \A p \in Procs \ disturbed : Found(p)

LEMMA OwnInvImplies == OwnInv => OwnInterfaceIfUndisturbed
<1> SUFFICES ASSUME OwnInv, NEW p \in Procs \ disturbed, pc[p] = "up" PROVE GoesByOwnName(p)
  BY DEF OwnInterfaceIfUndisturbed
<1>1. PICK n \in Names : iface[n] = p
  BY DEF OwnInv, LinuxInv, With
<1>2. label[n] = mctp_if_name[p]
  BY <1>1 DEF OwnInv, Found
<1>3. Called(mctp_if_name[p]) = {n}
  BY <1>1, <1>2, LinuxAssumption DEF OwnInv, Labels, Called
<1> QED BY <1>1, <1>3 DEF GoesByOwnName

LEMMA OwnInitInv == Init => OwnInv
<1> SUFFICES ASSUME Init PROVE OwnInv
  OBVIOUS
<1>1. LinuxInv
  BY LinuxInitInv
<1> QED BY <1>1, LinuxAssumption DEF Init, OwnInv, OwnTypes, Labels, Rounds, Alone, Found, Opening, list_mctp_devices

\* A process that is alone afterwards is one that was.
LEMMA StillAlone ==
    ASSUME OwnInv, Observe
    PROVE  /\ Alone' /\ disturbed' \subseteq Procs
           /\ \A p \in Procs \ disturbed' : pc'[p] \in Opening \cup {"up"} => p \notin disturbed
BY DEF Observe, Company, Alone, Opening

\* What a step of process q leaves alone.
Step(q) == Begins(q) \/ Continues(q)
Frame(q) ==
    \A r \in Procs \ {q} : /\ pc'[r] = pc[r] /\ before'[r] = before[r]
                           /\ round'[r] = round[r] /\ mctp_if_name'[r] = mctp_if_name[r]

LEMMA ScanFrame ==
    ASSUME OwnInv, NEW q \in Procs, ScanEnds(q),
           mctp_if_name' \in [Procs -> Names \cup Aliases \cup {None}],
           \A r \in Procs \ {q} : mctp_if_name'[r] = mctp_if_name[r]
    PROVE  /\ Frame(q) /\ Rounds'
           /\ before' \in [Procs -> SUBSET Names] /\ wanted' \in [Procs -> Aliases \cup {None}]
           /\ round' \in [Procs -> Nat]
<1>1. pc[q] = "scan" /\ Frame(q) /\ before' \in [Procs -> SUBSET Names]
      /\ wanted' \in [Procs -> Aliases \cup {None}] /\ round' \in [Procs -> Nat]
  BY DEF ScanEnds, LeaveScan, goto, Frame, OwnInv, OwnTypes, LinuxInv
<1>2. pc'[q] = "scan" \/ round'[q] = 0
  BY DEF ScanEnds, LeaveScan, goto, OwnInv, OwnTypes, LinuxInv
<1>3. Rounds'
  BY <1>1, <1>2 DEF Frame, Rounds, OwnInv
<1> QED BY <1>1, <1>3

LEMMA FrameStep ==
    ASSUME OwnInv, NEW q \in Procs, Step(q), disturbed' \subseteq Procs
    PROVE  Frame(q) /\ OwnTypes' /\ Rounds'
<1> USE DEF OwnInv, OwnTypes, Frame, Rounds, LinuxInv, kernel, goto
<1>1. ASSUME NEW name \in Aliases \cup {None}, Begin(q, name) PROVE Frame(q) /\ OwnTypes' /\ Rounds'
  BY <1>1 DEF Begin, list_mctp_devices
<1>2. CASE CloseBegin(q)
  BY <1>2 DEF CloseBegin
<1>3. CASE OpenPtyFails(q) \/ SetDisciplineFails(q)
  BY <1>3 DEF OpenPtyFails, SetDisciplineFails, LeaveScan
<1>4. CASE SetDiscipline(q)
  <2>1. Lowest \in Names
    BY <1>4, LowestUnused DEF SetDiscipline, Unused
  <2> QED BY <1>4, <2>1 DEF SetDiscipline
<1>5. CASE ScanNothing(q)
  BY <1>5, ScanFrame DEF ScanNothing
<1>6. CASE ScanTakes(q)
  BY <1>6, ScanFrame DEF ScanTakes, NewNames, list_mctp_devices
<1>7. CASE ScanRenames(q)
  BY <1>7, ScanFrame DEF ScanRenames, NewNames, list_mctp_devices
<1>8. CASE RenameFails(q)
  BY <1>8 DEF RenameFails, LeaveScan, NewNames, list_mctp_devices
<1>9. CASE Program(q)
  <2>1. pc[q] = "program" /\ UNCHANGED <<label, before, wanted, mctp_if_name>>
    BY <1>9 DEF Program
  <2>2. round' \in [Procs -> Nat] /\ \A r \in Procs \ {q} : pc'[r] = pc[r] /\ round'[r] = round[r]
    BY <1>9 DEF Program
  <2>3. pc'[q] = "program" \/ round'[q] = 0
    BY <1>9 DEF Program
  <2> QED BY <2>1, <2>2, <2>3
<1>10. CASE Attach(q) \/ AttachFails(q)
  BY <1>10 DEF Attach, AttachFails
<1>11. CASE ResetDiscipline(q)
  BY <1>11 DEF ResetDiscipline, Released
<1>12. CASE Vanished(q) \/ StillThere(q)
  BY <1>12 DEF Vanished, StillThere
<1> QED BY <1>1, <1>2, <1>3, <1>4, <1>5, <1>6, <1>7, <1>8, <1>9, <1>10, <1>11, <1>12
        DEF Step, Begins, Continues, initialize, close

\* What a step does to the interfaces: it makes one, renames a new one, removes its
\* own, or none of these.
LEMMA KernelStep ==
    ASSUME NEW q \in Procs, Step(q)
    PROVE  SetDiscipline(q) \/ ScanRenames(q) \/ ResetDiscipline(q) \/ UNCHANGED <<iface, label>>
BY DEF Step, Begins, Continues, initialize, close, kernel, Begin, CloseBegin, OpenPtyFails,
       SetDisciplineFails, ScanNothing, ScanTakes, RenameFails, Program, Attach, AttachFails, Vanished, StillThere

LEMMA LabelsStep ==
    ASSUME OwnInv, NEW q \in Procs, Step(q)
    PROVE  Labels'
<1> USE DEF OwnInv, OwnTypes, LinuxInv, Labels
<1>1. CASE SetDiscipline(q)
  <2>1. PICK n \in Names : n = Lowest /\ iface[n] = None
    BY <1>1, LowestUnused DEF SetDiscipline, Unused
  <2>2. iface' = [iface EXCEPT ![n] = q] /\ label' = [label EXCEPT ![n] = n]
    BY <1>1, <2>1 DEF SetDiscipline
  <2> QED BY <2>1, <2>2, LinuxAssumption
<1>2. CASE ScanRenames(q)
  <2>1. PICK n \in Names : label' = [label EXCEPT ![n] = wanted[q]]
    BY <1>2 DEF ScanRenames, NewNames, list_mctp_devices
  <2>2. wanted[q] \in Aliases /\ UNCHANGED iface /\ \A m \in Names : iface[m] # None => label[m] # wanted[q]
    BY <1>2 DEF ScanRenames, Called
  <2> QED BY <2>1, <2>2
<1>3. CASE ResetDiscipline(q)
  BY <1>3 DEF ResetDiscipline, Released
<1> QED BY <1>1, <1>2, <1>3, KernelStep

\* A step of another process leaves an interface its owner and, unless it is new to
\* that process, its name.
LEMMA OthersKept ==
    ASSUME OwnInv, NEW q \in Procs, Step(q), NEW p \in Procs \ {q}, NEW n \in Names, iface'[n] = p
    PROVE  /\ iface[n] = p
           /\ (pc[q] = "scan" /\ label[n] = n => n \in before[q]) => label'[n] = label[n]
<1> USE DEF OwnInv, OwnTypes, LinuxInv
<1>1. CASE SetDiscipline(q)
  <2>1. PICK m \in Names : m = Lowest /\ iface[m] = None
    BY <1>1, LowestUnused DEF SetDiscipline, Unused
  <2>2. iface' = [iface EXCEPT ![m] = q] /\ label' = [label EXCEPT ![m] = m]
    BY <1>1, <2>1 DEF SetDiscipline
  <2> QED BY <2>1, <2>2
<1>2. CASE ScanRenames(q)
  <2>1. pc[q] = "scan" /\ UNCHANGED iface
    BY <1>2 DEF ScanRenames, ScanEnds, goto
  <2>2. PICK m \in Names : label' = [label EXCEPT ![m] = wanted[q]] /\ label[m] = m /\ m \notin before[q]
    BY <1>2 DEF ScanRenames, NewNames, list_mctp_devices
  <2> QED BY <2>1, <2>2
<1>3. CASE ResetDiscipline(q)
  BY <1>3, LinuxAssumption DEF ResetDiscipline, Released
<1> QED BY <1>1, <1>2, <1>3, KernelStep

\* A process that is about to make or find its interface has listed the others, just
\* now or earlier; one that was at rest no longer is.
LEMMA ListedFirst ==
    ASSUME OwnInv, NEW q \in Procs, Step(q)
    PROVE  /\ pc'[q] \in {"listed", "scan"} => \/ before'[q] = list_mctp_devices /\ UNCHANGED <<iface, label>>
                                               \/ pc[q] \in {"listed", "scan"} /\ before'[q] = before[q]
           /\ pc[q] \in {"idle", "up"} => pc'[q] \notin {"idle", "up"}
<1> USE DEF OwnInv, OwnTypes, LinuxInv, goto, kernel
<1>1. ASSUME NEW name, Begin(q, name) PROVE pc[q] = "idle" /\ pc'[q] = "listed" /\ before'[q] = list_mctp_devices /\ UNCHANGED <<iface, label>>
  BY <1>1 DEF Begin
<1>2. CASE CloseBegin(q)
  BY <1>2 DEF CloseBegin
<1>3. CASE OpenPtyFails(q) \/ SetDisciplineFails(q) \/ SetDiscipline(q)
  BY <1>3 DEF OpenPtyFails, SetDisciplineFails, SetDiscipline
<1>4. CASE ScanNothing(q) \/ ScanTakes(q) \/ ScanRenames(q)
  <2>1. ScanEnds(q)
    BY <1>4 DEF ScanNothing, ScanTakes, ScanRenames
  <2> QED BY <2>1 DEF ScanEnds
<1>5. CASE RenameFails(q)
  BY <1>5 DEF RenameFails
<1>6. CASE Program(q) \/ Attach(q) \/ AttachFails(q)
  BY <1>6 DEF Program, Attach, AttachFails
<1>7. CASE ResetDiscipline(q) \/ Vanished(q) \/ StillThere(q)
  BY <1>7 DEF ResetDiscipline, Vanished, StillThere
<1> QED BY <1>1, <1>2, <1>3, <1>4, <1>5, <1>6, <1>7 DEF Step, Begins, Continues, initialize, close

\* What a process has found stays found when another one takes a step.
LEMMA OtherFound ==
    ASSUME OwnInv, NEW q \in Procs, Step(q), Observe, NEW p \in Procs \ {q}, p \notin disturbed'
    PROVE  Found(p)'
<1>1. Frame(q) /\ Alone' /\ (pc'[p] \in Opening \cup {"up"} => p \notin disturbed)
  BY FrameStep, StillAlone
<1>2. pc'[p] = pc[p] /\ mctp_if_name'[p] = mctp_if_name[p]
  BY <1>1 DEF Frame
<1>3. CASE pc[p] \in Opening
  <2>1. pc[q] \in {"idle", "up"}
    BY <1>1, <1>2, <1>3 DEF OwnInv, Alone
  <2>2. pc'[q] \in {"idle", "up"}
    BY <1>1, <1>2, <1>3 DEF Alone
  <2> QED BY <2>1, <2>2, ListedFirst
<1>4. CASE pc[p] = "up"
  <2>1. Found(p)
    BY <1>1, <1>2, <1>4 DEF OwnInv
  <2>2. ASSUME NEW n \in Names, iface'[n] = p
        PROVE  /\ label'[n] = mctp_if_name'[p]
               /\ \A r \in Procs \ {p} : pc'[r] \in {"listed", "scan"} /\ label'[n] = n => n \in before'[r]
    <3>1. iface[n] = p
      BY <2>2, OthersKept
    <3>2. label[n] = mctp_if_name[p]
          /\ \A r \in Procs \ {p} : pc[r] \in {"listed", "scan"} /\ label[n] = n => n \in before[r]
      BY <1>4, <2>1, <3>1 DEF Found
    <3>3. label'[n] = label[n]
      BY <2>2, <3>2, OthersKept
    <3>4. ASSUME NEW r \in Procs \ {p}, pc'[r] \in {"listed", "scan"}, label'[n] = n PROVE n \in before'[r]
      <4>1. CASE r # q
        BY <1>1, <3>2, <3>3, <3>4, <4>1 DEF Frame
      <4>2. CASE r = q
        <5>1. n \in list_mctp_devices
          BY <3>1, <3>3, <3>4, LinuxAssumption DEF list_mctp_devices
        <5> QED BY <3>2, <3>3, <3>4, <4>2, <5>1, ListedFirst
      <4> QED BY <4>1, <4>2
    <3> QED BY <1>2, <3>2, <3>3, <3>4
  <2> QED BY <1>2, <1>4, <2>2 DEF Found
<1> QED BY <1>2, <1>3, <1>4 DEF Found, Opening

\* A process that passes from listing to scanning, and from scanning to programming.
LEMMA OwnScan ==
    ASSUME OwnInv, NEW p \in Procs, p \notin disturbed,
           SetDiscipline(p) \/ ScanNothing(p) \/ ScanTakes(p) \/ ScanRenames(p)
    PROVE  Found(p)'
<1> USE DEF OwnInv, OwnTypes, LinuxInv, goto, kernel
<1>1. CASE SetDiscipline(p)
  <2>1. PICK n \in Names : n = Lowest /\ iface[n] = None
    BY <1>1, LowestUnused DEF SetDiscipline, Unused
  <2>2. iface' = [iface EXCEPT ![n] = p] /\ label' = [label EXCEPT ![n] = n] /\ UNCHANGED <<before, round>>
    BY <1>1, <2>1 DEF SetDiscipline
  <2>3. pc[p] = "listed" /\ pc'[p] = "scan"
    BY <1>1 DEF SetDiscipline
  <2>4. before[p] = list_mctp_devices /\ round[p] = 0 /\ \A m \in Names : iface[m] # p
    BY <2>3 DEF Found, Rounds, NothingLeftBehind
  <2>5. ASSUME NEW m \in Names, iface'[m] = p
        PROVE  m = n /\ m \notin before'[p] /\ list_mctp_devices' \ {m} \subseteq before'[p] /\ label'[m] = m
    BY <2>1, <2>2, <2>4, <2>5, LinuxAssumption DEF list_mctp_devices
  <2> QED BY <2>2, <2>3, <2>4, <2>5 DEF Found
<1>2. ASSUME ScanEnds(p), UNCHANGED iface,
             \A n \in Names : iface[n] = p => /\ label'[n] = mctp_if_name'[p]
                                              /\ n \notin before[p] /\ list_mctp_devices' \ {n} \subseteq before[p]
      PROVE  Found(p)'
  <2>1. \/ pc'[p] \in {"close", "program"}
        \/ pc'[p] = "scan" /\ round'[p] # 0 /\ before'[p] = before[p]
    BY <1>2 DEF ScanEnds
  <2> QED BY <1>2, <2>1 DEF Found
<1>3. ASSUME pc[p] = "scan", NEW n \in Names, iface[n] = p
      PROVE  /\ n \notin before[p] /\ NewNames(p) \subseteq {n}
             /\ round[p] = 0 => label[n] = n /\ n \in NewNames(p)
             /\ round[p] # 0 => label[n] = mctp_if_name[p]
  BY <1>3, LinuxAssumption DEF Found, NewNames, list_mctp_devices
<1>4. CASE ScanNothing(p)
  <2>1. ScanEnds(p) /\ pc[p] = "scan" /\ NewNames(p) = {} /\ UNCHANGED <<iface, label, mctp_if_name>>
    BY <1>4 DEF ScanNothing, ScanEnds
  <2>2. list_mctp_devices' = list_mctp_devices
    BY <2>1 DEF list_mctp_devices
  <2> QED BY <1>2, <1>3, <2>1, <2>2 DEF NewNames
<1>5. CASE ScanTakes(p)
  <2>1. ScanEnds(p) /\ pc[p] = "scan" /\ UNCHANGED <<iface, label>>
    BY <1>5 DEF ScanTakes, ScanEnds
  <2>2. PICK dev \in NewNames(p) : mctp_if_name'[p] = dev
    BY <1>5 DEF ScanTakes
  <2>3. label[dev] = dev /\ list_mctp_devices' = list_mctp_devices
    BY <2>1 DEF NewNames, list_mctp_devices
  <2> QED BY <1>2, <1>3, <2>1, <2>2, <2>3 DEF NewNames
<1>6. CASE ScanRenames(p)
  <2>1. ScanEnds(p) /\ pc[p] = "scan" /\ UNCHANGED iface /\ mctp_if_name'[p] = wanted[p]
    BY <1>6 DEF ScanRenames, ScanEnds
  <2>2. PICK dev \in NewNames(p) : label' = [label EXCEPT ![dev] = wanted[p]]
    BY <1>6 DEF ScanRenames
  <2>3. dev \in Names /\ list_mctp_devices' \ {dev} \subseteq list_mctp_devices /\ label'[dev] = wanted[p]
    BY <2>1, <2>2 DEF NewNames, list_mctp_devices
  <2> QED BY <1>2, <1>3, <2>1, <2>2, <2>3 DEF NewNames
<1> QED BY <1>1, <1>4, <1>5, <1>6

LEMMA OwnFound ==
    ASSUME OwnInv, NEW p \in Procs, Step(p), Observe, p \notin disturbed'
    PROVE  Found(p)'
<1> USE DEF OwnInv, OwnTypes, LinuxInv, goto, kernel
<1>1. CASE pc'[p] \notin Opening \cup {"up"}
  BY <1>1 DEF Found, Opening
<1>2. CASE pc'[p] \in Opening \cup {"up"}
  <2>1. p \notin disturbed
    BY <1>2, StillAlone
  <2>2. ASSUME NEW name, Begin(p, name) PROVE Found(p)'
    <3>1. pc'[p] = "listed" /\ before'[p] = list_mctp_devices /\ list_mctp_devices' = list_mctp_devices
      BY <2>2 DEF Begin, list_mctp_devices
    <3> QED BY <3>1 DEF Found
  <2>3. CASE CloseBegin(p) \/ OpenPtyFails(p) \/ SetDisciplineFails(p) \/ RenameFails(p) \/ AttachFails(p)
    BY <1>2, <2>3 DEF CloseBegin, OpenPtyFails, SetDisciplineFails, RenameFails, AttachFails, Opening
  <2>4. CASE SetDiscipline(p) \/ ScanNothing(p) \/ ScanTakes(p) \/ ScanRenames(p)
    BY <2>1, <2>4, OwnScan
  <2>5. CASE Program(p)
    <3>1. pc[p] = "program" /\ pc'[p] \in {"program", "attach"} /\ UNCHANGED <<iface, label, mctp_if_name>>
      BY <2>5 DEF Program
    <3> QED BY <2>1, <3>1 DEF Found
  <2>6. CASE Attach(p)
    <3>1. pc[p] = "attach" /\ pc'[p] = "up" /\ UNCHANGED <<iface, label, mctp_if_name>>
          /\ \A q \in Procs \ {p} : pc'[q] = pc[q]
      BY <2>6 DEF Attach
    <3>2. \A q \in Procs \ {p} : pc'[q] \in {"idle", "up"}
      BY <2>1, <3>1 DEF Alone, Opening
    <3> QED BY <2>1, <3>1, <3>2 DEF Found
  <2>7. CASE ResetDiscipline(p) \/ Vanished(p) \/ StillThere(p)
    BY <1>2, <2>7 DEF ResetDiscipline, Vanished, StillThere, Opening
  <2> QED BY <2>2, <2>3, <2>4, <2>5, <2>6, <2>7 DEF Step, Begins, Continues, initialize, close
<1> QED BY <1>1, <1>2

LEMMA OwnStep == OwnInv /\ [Next]_vars => OwnInv'
<1> SUFFICES ASSUME OwnInv, [Next]_vars PROVE OwnInv'
  OBVIOUS
<1>1. LinuxInv'
  BY LinuxStep DEF OwnInv
<1>2. CASE UNCHANGED vars
  BY <1>1, <1>2 DEF vars, linuxVars, kernel, OwnInv, OwnTypes, Labels, Rounds, Alone, Found, list_mctp_devices
<1>3. CASE Next
  <2>1. PICK q \in Procs : Step(q)
    BY <1>3 DEF Next, Step
  <2>2. Observe
    BY <1>3 DEF Next
  <2>3. OwnTypes' /\ Rounds' /\ Alone' /\ Labels'
    BY <2>1, <2>2, FrameStep, StillAlone, LabelsStep
  <2>4. \A p \in Procs \ disturbed' : Found(p)'
    BY <2>1, <2>2, OwnFound, OtherFound
  <2> QED BY <1>1, <2>3, <2>4 DEF OwnInv
<1> QED BY <1>2, <1>3

\* A process that initializes while no other is in initialize() or close() takes the
\* interface behind its own pseudo-terminal, and goes by its name for as long as it
\* is up: for any number of processes, names, passes and faults.
THEOREM LinuxOwnInterface == Spec => []OwnInterfaceIfUndisturbed
BY OwnInvImplies, OwnInitInv, OwnStep, PTL DEF Spec

-----------------------------------------------------------------------------
(* The loops end, and what was asked for is on the interface.  A request   *)
(* reaches the interface that goes by the name; OwnInv says that it is the *)
(* process's own, so each one that is not warned about adds to it, and     *)
(* nobody but its owner takes anything away.                               *)

\* The counter of each loop is below the loop's bound.
Loops ==
    \A p \in Procs : /\ pc[p] = "scan" => round[p] < Scans
                     /\ pc[p] = "program" => round[p] < Len(Plan(p))
                     /\ pc[p] = "vanish" => round[p] < Waits

\* The first k requests of the plan are on every interface of p, that is on the one
\* there is.
Has(p, k) == \A n \in Names : iface[n] = p => \A i \in 1..k : Plan(p)[i] \in config[n]

Asked(p) ==
    /\ pc[p] = "program" => Has(p, round[p])
    /\ pc[p] \in {"attach", "up"} => Has(p, Len(Plan(p)))

ConfigInv ==
    /\ OwnInv /\ Loops /\ warned \subseteq Procs
    /\ config = [n \in Names |-> config[n]]
    /\ \A p \in Procs \ (disturbed \cup warned) : Asked(p)

LEMMA SeqMonotone == ASSUME NEW S, NEW T, S \subseteq T, NEW s \in Seq(S) PROVE s \in Seq(T)
  OBVIOUS

\* The interface is brought up in any case, so there is at least one request.
LEMMA PlanLength == ASSUME NEW p \in Procs PROVE Len(Plan(p)) \in Nat \ {0}
<1>1. PICK S : S = STRING \cup {"eid", "up"}
  OBVIOUS
<1>2. Peers \in Seq(S)
  BY <1>1, LinuxAssumption, SeqMonotone
<1>3. <<>> \in Seq(S) /\ <<"eid">> \in Seq(S) /\ <<"up">> \in Seq(S)
  BY <1>1
<1>4. PICK e \in Seq(S) : e = IF p \in Transparent THEN <<>> ELSE <<"eid">>
  BY <1>3
<1>5. Len(e \o <<"up">> \o Peers) = Len(e) + 1 + Len(Peers) /\ Len(e) \in Nat /\ Len(Peers) \in Nat
  BY <1>2, <1>3, <1>4
<1> QED BY <1>4, <1>5 DEF Plan

LEMMA LoopsStep ==
    ASSUME OwnInv, Loops, NEW q \in Procs, Step(q), Frame(q)
    PROVE  Loops'
<1> DEFINE Bounded == /\ pc'[q] = "scan" => round'[q] < Scans
                      /\ pc'[q] = "program" => round'[q] < Len(Plan(q))
                      /\ pc'[q] = "vanish" => round'[q] < Waits
<1> SUFFICES Bounded
  BY DEF Loops, Frame, Plan
<1>1. /\ Scans \in Nat \ {0} /\ Waits \in Nat \ {0} /\ Len(Plan(q)) \in Nat \ {0}
      /\ pc \in [Procs -> Places] /\ round \in [Procs -> Nat]
      /\ pc[q] \in {"idle", "listed", "attach", "up", "close"} => round[q] = 0
  BY LinuxAssumption, PlanLength DEF LinuxAssumption, OwnInv, LinuxInv, OwnTypes, Rounds
<1> USE DEF goto
<1>2. ASSUME NEW name, Begin(q, name) PROVE Bounded
  BY <1>1, <1>2 DEF Begin
<1>3. CASE CloseBegin(q) \/ OpenPtyFails(q) \/ SetDisciplineFails(q) \/ RenameFails(q) \/ Attach(q) \/ AttachFails(q)
  BY <1>1, <1>3 DEF CloseBegin, OpenPtyFails, SetDisciplineFails, RenameFails, Attach, AttachFails
<1>4. CASE SetDiscipline(q)
  BY <1>1, <1>4 DEF SetDiscipline
<1>5. CASE ScanNothing(q) \/ ScanTakes(q) \/ ScanRenames(q)
  <2>1. ScanEnds(q)
    BY <1>5 DEF ScanNothing, ScanTakes, ScanRenames
  <2> QED BY <1>1, <2>1 DEF ScanEnds, LeaveScan
<1>6. CASE Program(q)
  BY <1>1, <1>6 DEF Program
<1>7. CASE ResetDiscipline(q)
  BY <1>1, <1>7 DEF ResetDiscipline
<1>8. CASE Vanished(q) \/ StillThere(q)
  BY <1>1, <1>8 DEF Vanished, StillThere
<1> QED BY <1>2, <1>3, <1>4, <1>5, <1>6, <1>7, <1>8 DEF Step, Begins, Continues, initialize, close

\* Nothing is ever taken from an interface that stays with its process.
LEMMA ConfigGrows ==
    ASSUME OwnInv, config = [n \in Names |-> config[n]], NEW q \in Procs, Step(q)
    PROVE  /\ config' = [n \in Names |-> config'[n]]
           /\ \A n \in Names : iface[n] # q \/ pc[q] # "close" => config[n] \subseteq config'[n]
<1>1. CASE Program(q)
  BY <1>1 DEF Program, ProgramWarns, Programmed
<1>2. CASE ResetDiscipline(q)
  BY <1>2 DEF ResetDiscipline, Released, goto
<1>3. CASE ~Program(q) /\ ~ResetDiscipline(q)
  <2>1. UNCHANGED config
    BY <1>3 DEF Step, Begins, Continues, initialize, close, kernel, Begin, CloseBegin, OpenPtyFails, SetDisciplineFails,
         SetDiscipline, ScanNothing, ScanTakes, ScanRenames, RenameFails, Attach, AttachFails, Vanished, StillThere
  <2> QED BY <2>1
<1> QED BY <1>1, <1>2, <1>3

\* Another process warns only about itself, and a warning lasts until the next
\* initialize().
LEMMA WarnedStep ==
    ASSUME warned \subseteq Procs, NEW q \in Procs, Step(q)
    PROVE  /\ warned' \subseteq Procs
           /\ \A p \in Procs \ {q} : p \in warned => p \in warned'
           /\ q \in warned => q \in warned' \/ \E name \in Aliases \cup {None} : Begin(q, name)
  BY DEF Step, Begins, Continues, initialize, close, Begin, CloseBegin, OpenPtyFails, SetDisciplineFails, SetDiscipline,
         ScanNothing, ScanTakes, ScanRenames, RenameFails, Program, ProgramWarns, Attach, AttachFails, ResetDiscipline,
         Vanished, StillThere

\* What another process was given stays with it.
LEMMA OtherAsked ==
    ASSUME ConfigInv, NEW q \in Procs, Step(q), Observe, NEW p \in Procs \ {q},
           p \notin disturbed' \cup warned'
    PROVE  Asked(p)'
<1>1. Frame(q) /\ (pc'[p] \in Opening \cup {"up"} => p \notin disturbed)
  BY FrameStep, StillAlone DEF ConfigInv
<1>2. pc'[p] = pc[p] /\ round'[p] = round[p] /\ p \notin warned
  BY <1>1, WarnedStep DEF Frame, ConfigInv
<1>3. CASE pc[p] \in {"program", "attach", "up"}
  <2>1. Asked(p)
    BY <1>1, <1>2, <1>3 DEF ConfigInv, Opening
  <2>2. ASSUME NEW n \in Names, iface'[n] = p PROVE iface[n] = p /\ config[n] \subseteq config'[n]
    BY <2>2, OthersKept, ConfigGrows DEF ConfigInv
  <2>3. ASSUME NEW k, Has(p, k) PROVE \A n \in Names : iface'[n] = p => \A i \in 1..k : Plan(p)[i] \in config'[n]
    BY <2>2, <2>3 DEF Has
  <2>4. pc'[p] = "program" => Has(p, round[p])'
    BY <1>2, <2>1, <2>3 DEF Asked, Has, Plan
  <2>5. pc'[p] \in {"attach", "up"} => Has(p, Len(Plan(p)))'
    BY <1>2, <2>1, <2>3 DEF Asked, Has, Plan
  <2> QED BY <2>4, <2>5 DEF Asked
<1> QED BY <1>2, <1>3 DEF Asked

\* A request that is not warned about is on the process's own interface.
LEMMA OwnAsked ==
    ASSUME ConfigInv, NEW p \in Procs, Step(p), Observe, p \notin disturbed' \cup warned'
    PROVE  Asked(p)'
<1> USE DEF goto
<1>1. pc \in [Procs -> Places] /\ round \in [Procs -> Nat] /\ Len(Plan(p)) \in Nat
  BY PlanLength DEF ConfigInv, OwnInv, LinuxInv, OwnTypes
<1>2. CASE pc'[p] \notin {"program", "attach", "up"}
  BY <1>2 DEF Asked
<1>3. CASE pc'[p] \in {"program", "attach", "up"}
  <2>1. p \notin disturbed /\ Found(p)
    BY <1>3, StillAlone DEF ConfigInv, OwnInv, Opening
  <2>2. ASSUME Program(p) PROVE Asked(p)'
    <3>1. pc[p] = "program" /\ UNCHANGED <<iface, label, mctp_if_name>> /\ p \notin warned
      BY <2>2, WarnedStep DEF Program, ProgramWarns, ConfigInv
    <3>2. Programmed(p)
      BY <2>2 DEF Program, ProgramWarns
    <3>3. \A n \in Names : iface[n] = p => n \in Called(mctp_if_name[p])
      BY <2>1, <3>1, LinuxAssumption DEF Found, Called
    <3>4. Has(p, round[p])
      BY <2>1, <3>1 DEF ConfigInv, Asked
    <3>5. ASSUME NEW n \in Names, iface'[n] = p, NEW i \in 1..(round[p] + 1) PROVE Plan(p)[i] \in config'[n]
      <4>1. config'[n] = config[n] \cup {Plan(p)[round[p] + 1]}
        BY <3>1, <3>2, <3>3, <3>5 DEF Programmed
      <4>2. i \in 1..round[p] \/ i = round[p] + 1
        BY <1>1
      <4> QED BY <3>1, <3>4, <3>5, <4>1, <4>2 DEF Has
    <3>6. CASE pc'[p] = "program"
      <4>1. round'[p] = round[p] + 1
        BY <1>1, <2>2, <3>6 DEF Program
      <4> QED BY <3>5, <3>6, <4>1 DEF Asked, Has, Plan
    <3>7. CASE pc'[p] # "program"
      <4>1. round[p] + 1 = Len(Plan(p)) /\ pc'[p] = "attach"
        BY <1>1, <2>2, <3>7 DEF Program
      <4> QED BY <3>5, <4>1 DEF Asked, Has, Plan
    <3> QED BY <3>6, <3>7
  <2>3. ASSUME Attach(p) PROVE Asked(p)'
    <3>1. pc[p] = "attach" /\ pc'[p] = "up" /\ UNCHANGED <<iface, config>> /\ p \notin warned
      BY <1>1, <2>3 DEF Attach, kernel
    <3> QED BY <2>1, <3>1 DEF ConfigInv, Asked, Has, Plan
  <2>4. ASSUME ScanEnds(p) PROVE Asked(p)'
    <3>1. pc'[p] = "program" /\ round'[p] = 0
      BY <1>1, <1>3, <2>4 DEF ScanEnds, LeaveScan
    <3> QED BY <3>1 DEF Asked, Has
  <2>5. Program(p) \/ Attach(p) \/ ScanEnds(p)
    BY <1>1, <1>3
    DEF Step, Begins, Continues, initialize, close, Begin, CloseBegin, OpenPtyFails, SetDisciplineFails, SetDiscipline,
        ScanNothing, ScanTakes, ScanRenames, RenameFails, AttachFails, ResetDiscipline, Vanished, StillThere
  <2> QED BY <2>2, <2>3, <2>4, <2>5
<1> QED BY <1>2, <1>3

LEMMA ConfigInitInv == Init => ConfigInv
<1> SUFFICES ASSUME Init PROVE ConfigInv
  OBVIOUS
<1>1. OwnInv
  BY OwnInitInv
<1>2. \A p \in Procs : pc[p] = "idle"
  BY DEF Init
<1> QED BY <1>1, <1>2 DEF Init, ConfigInv, Loops, Asked

LEMMA ConfigStep == ConfigInv /\ [Next]_vars => ConfigInv'
<1> SUFFICES ASSUME ConfigInv, [Next]_vars PROVE ConfigInv'
  OBVIOUS
<1>1. OwnInv'
  BY OwnStep DEF ConfigInv
<1>2. CASE UNCHANGED vars
  BY <1>1, <1>2 DEF vars, linuxVars, kernel, ConfigInv, Loops, Asked, Has, Plan
<1>3. CASE Next
  <2>1. PICK q \in Procs : Step(q)
    BY <1>3 DEF Next, Step
  <2>2. Observe
    BY <1>3 DEF Next
  <2>3. Loops'
    <3>1. Frame(q)
      BY <2>1, <2>2, FrameStep, StillAlone DEF ConfigInv
    <3> QED BY <2>1, <3>1, LoopsStep DEF ConfigInv
  <2>4. warned' \subseteq Procs /\ config' = [n \in Names |-> config'[n]]
    BY <2>1, WarnedStep, ConfigGrows DEF ConfigInv
  <2>5. \A p \in Procs \ (disturbed' \cup warned') : Asked(p)'
    BY <2>1, <2>2, OwnAsked, OtherAsked
  <2> QED BY <1>1, <2>3, <2>4, <2>5 DEF ConfigInv
<1> QED BY <1>2, <1>3

\* Types, and that the loops that scan, program and wait never run past their bounds.
THEOREM LinuxTypeCorrect == Spec => []LinuxTypeOK
<1>1. ConfigInv => LinuxTypeOK
  <2> SUFFICES ASSUME ConfigInv PROVE LinuxTypeOK
    OBVIOUS
  <2>1. ASSUME NEW p \in Procs
        PROVE  round[p] \in 0..(CASE pc[p] = "scan" -> Scans - 1
                                [] pc[p] = "program" -> Len(Plan(p)) - 1
                                [] pc[p] = "vanish" -> Waits - 1
                                [] OTHER -> 0)
    <3>1. Scans \in Nat /\ Waits \in Nat /\ Len(Plan(p)) \in Nat /\ round[p] \in Nat
      BY LinuxAssumption, PlanLength DEF LinuxAssumption, ConfigInv, OwnInv, OwnTypes
    <3>2. /\ pc[p] = "scan" => round[p] < Scans
          /\ pc[p] = "program" => round[p] < Len(Plan(p))
          /\ pc[p] = "vanish" => round[p] < Waits
          /\ pc[p] \notin {"scan", "program", "vanish"} => round[p] = 0
      BY DEF ConfigInv, Loops, OwnInv, LinuxInv, Rounds, Places, With, Without
    <3> QED BY <3>1, <3>2
  <2> QED BY <2>1 DEF LinuxTypeOK, ConfigInv, OwnInv, OwnTypes, LinuxInv, Places, With, Without
<1> QED BY <1>1, ConfigInitInv, ConfigStep, PTL DEF Spec

\* An endpoint that came up alone and without a warning has its EID, its link state
\* and every route on its own interface, however the requests of all the processes
\* interleave.
THEOREM LinuxConfigured == Spec => []ConfiguredUnlessWarned
<1>1. ConfigInv => ConfiguredUnlessWarned
  <2> SUFFICES ASSUME ConfigInv, NEW p \in Procs \ (disturbed \cup warned), pc[p] = "up"
               PROVE  \E n \in Names : iface[n] = p /\ Range(Plan(p)) \subseteq config[n]
    BY DEF ConfiguredUnlessWarned
  <2>1. PICK n \in Names : iface[n] = p
    BY DEF ConfigInv, OwnInv, LinuxInv, With
  <2>2. Has(p, Len(Plan(p)))
    BY DEF ConfigInv, Asked
  <2> QED BY <2>1, <2>2 DEF Has, Range
<1> QED BY <1>1, ConfigInitInv, ConfigStep, PTL DEF Spec

-----------------------------------------------------------------------------
(* The process.                                                            *)

\* Where main() may be while the process listens on a socket.
Serving == {"device", "loop", "joining", "failed", "closing"}

ProcessTypes ==
    /\ main \in [Procs -> Serving \cup {"out", "parsed", "open", "linux", "destroyed", "members"}]
    /\ socketPath = [p \in Procs |-> socketPath[p]]
    /\ sockFile \in [Names -> Procs \cup {Stale, None}]

Listens ==
    \A p \in Procs, n \in Names : sockFile[n] = p => main[p] \in Serving /\ socketPath[p] = n

ProcessInv ==
    /\ LinuxInv /\ ProcessTypes /\ Listens
    /\ \A p \in Procs : main[p] = "out" => pc[p] = "idle"

LEMMA ProcessInvImplies == ProcessInv => ExitLeavesNothing
BY DEF ProcessInv, LinuxInv, NothingLeftBehind, Listens, Serving, ExitLeavesNothing

LEMMA ProcessInitInv == ProcessInit => ProcessInv
<1> SUFFICES ASSUME ProcessInit PROVE ProcessInv
  OBVIOUS
<1>1. LinuxInv
  BY LinuxInitInv DEF ProcessInit
<1>2. ProcessTypes /\ Listens
  BY LinuxAssumption DEF ProcessInit, ProcessTypes, Listens
<1>3. \A p \in Procs : pc[p] = "idle"
  BY DEF ProcessInit, Init
<1> QED BY <1>1, <1>2, <1>3 DEF ProcessInv

\* A step of main() that opens no socket and removes no file, and does not end the
\* process.
LEMMA MainMoves ==
    ASSUME ProcessInv, LinuxInv', NEW p \in Procs, main[p] # "out",
           NEW to \in Serving \cup {"parsed", "open", "linux"},
           main' = [main EXCEPT ![p] = to], main[p] \in Serving => to \in Serving,
           UNCHANGED <<socketPath, sockFile>>,
           \A q \in Procs \ {p} : pc'[q] = pc[q]
    PROVE  ProcessInv'
<1>1. ProcessTypes'
  BY DEF ProcessInv, ProcessTypes, Serving
<1>2. Listens'
  BY DEF ProcessInv, ProcessTypes, Listens
<1>3. \A q \in Procs : main'[q] = "out" => pc'[q] = "idle"
  BY DEF ProcessInv, ProcessTypes, Serving
<1> QED BY <1>1, <1>2, <1>3 DEF ProcessInv

\* A file that somebody else has, or that is removed.
LEMMA FilesMove ==
    ASSUME ProcessInv, LinuxInv', NEW p \in Procs, main[p] # "out",
           NEW to \in {"failed", "closing", "destroyed", "members"},
           main' = [main EXCEPT ![p] = to], UNCHANGED socketPath,
           sockFile' \in [Names -> Procs \cup {Stale, None}],
           \A n \in Names : sockFile'[n] \in {sockFile[n], Stale, None},
           to \notin {"failed", "closing"} => \A n \in Names : sockFile'[n] # p,
           \A q \in Procs \ {p} : pc'[q] = pc[q]
    PROVE  ProcessInv'
<1>1. ProcessTypes'
  BY DEF ProcessInv, ProcessTypes, Serving
<1>2. Listens'
  <2> SUFFICES ASSUME NEW q \in Procs, NEW n \in Names, sockFile'[n] = q
               PROVE  main'[q] \in Serving /\ socketPath'[q] = n
    BY DEF Listens
  <2>1. sockFile[n] = q
    BY LinuxAssumption, ProcessAssumption
  <2> QED BY <2>1 DEF ProcessInv, ProcessTypes, Listens, Serving
<1>3. \A q \in Procs : main'[q] = "out" => pc'[q] = "idle"
  BY DEF ProcessInv, ProcessTypes, Serving
<1> QED BY <1>1, <1>2, <1>3 DEF ProcessInv

\* A call of the kernel endpoint does not touch the other processes.
LEMMA CallKeepsOthers ==
    ASSUME LinuxInv, NEW p \in Procs, Begins(p) \/ Continues(p)
    PROVE  LinuxInv' /\ \A q \in Procs \ {p} : pc'[q] = pc[q]
<1>1. LinuxInv'
  BY CallInv
<1>2. PICK to : pc' = [pc EXCEPT ![p] = to]
  BY DEF Begins, Continues, initialize, close, goto, Begin, CloseBegin, OpenPtyFails, SetDisciplineFails, SetDiscipline,
         ScanNothing, ScanTakes, ScanRenames, ScanEnds, RenameFails, Program, Attach, AttachFails, ResetDiscipline,
         Vanished, StillThere
<1> QED BY <1>1, <1>2 DEF LinuxInv

LEMMA SameEndpoint == ASSUME LinuxInv, UNCHANGED linuxVars PROVE LinuxInv' /\ UNCHANGED pc
BY DEF linuxVars, kernel, LinuxInv, NothingLeftBehind

\* A failed open() closes the bridge at once, or waits for the worker first.
LEMMA OpenFailsKinds ==
    ASSUME NEW p \in Procs, NEW from, OpenFails(p, from)
    PROVE  /\ main[p] = from /\ UNCHANGED socketPath
           /\ \/ /\ main' = [main EXCEPT ![p] = "closing"] /\ CloseBegin(p)
                 /\ closes' = [closes EXCEPT ![p] = 2]
              \/ main' = [main EXCEPT ![p] = "failed"] /\ UNCHANGED <<closes, linuxVars>>
BY DEF OpenFails, Closing, step

LEMMA OpenFailsInv ==
    ASSUME ProcessInv, NEW p \in Procs, NEW from \in {"open", "linux", "device"}, OpenFails(p, from),
           sockFile' \in [Names -> Procs \cup {Stale, None}],
           \A n \in Names : sockFile'[n] \in {sockFile[n], Stale, None}
    PROVE  ProcessInv'
<1>1. LinuxInv' /\ \A q \in Procs \ {p} : pc'[q] = pc[q]
  BY OpenFailsKinds, CallKeepsOthers, SameEndpoint DEF Begins, ProcessInv
<1>2. PICK to \in {"failed", "closing"} : main' = [main EXCEPT ![p] = to]
  BY OpenFailsKinds
<1> QED BY <1>1, <1>2, OpenFailsKinds, FilesMove

\* bcast->close() leaves the process no file to listen behind.
LEMMA UnlinkedFiles ==
    ASSUME ProcessInv, NEW p \in Procs, sockFile' = Unlinked(p)
    PROVE  /\ sockFile' \in [Names -> Procs \cup {Stale, None}]
           /\ \A n \in Names : sockFile'[n] \in {sockFile[n], Stale, None} /\ sockFile'[n] # p
BY LinuxAssumption DEF Unlinked, ProcessInv, ProcessTypes, Listens

LEMMA SocketOpensInv ==
    ASSUME ProcessInv, NEW p \in Procs, SocketOpens(p)
    PROVE  ProcessInv'
<1>1. LinuxInv' /\ UNCHANGED pc
  BY SameEndpoint DEF SocketOpens, ProcessInv
<1>2. main[p] = "linux" /\ main' = [main EXCEPT ![p] = "device"]
  BY DEF SocketOpens, step
<1>3. /\ sockFile' = [sockFile EXCEPT ![mctp_if_name[p]] = p]
      /\ socketPath' = [socketPath EXCEPT ![p] = mctp_if_name[p]]
  BY DEF SocketOpens
<1>4. ProcessTypes'
  BY <1>2, <1>3 DEF ProcessInv, ProcessTypes, Serving
<1>5. Listens'
  <2> SUFFICES ASSUME NEW q \in Procs, NEW n \in Names, sockFile'[n] = q
               PROVE  main'[q] \in Serving /\ socketPath'[q] = n
    BY DEF Listens
  <2>1. CASE n = mctp_if_name[p]
    <3>1. q = p
      BY <1>3, <2>1 DEF ProcessInv, ProcessTypes
    <3> QED BY <1>2, <1>3, <2>1, <3>1 DEF ProcessInv, ProcessTypes, Serving
  <2>2. CASE n # mctp_if_name[p]
    <3>1. sockFile[n] = q
      BY <1>3, <2>2 DEF ProcessInv, ProcessTypes
    <3>2. q # p
      BY <1>2, <3>1 DEF ProcessInv, Listens, Serving
    <3> QED BY <1>2, <1>3, <3>1, <3>2 DEF ProcessInv, ProcessTypes, Listens
  <2> QED BY <2>1, <2>2
<1>6. \A q \in Procs : main'[q] = "out" => pc'[q] = "idle"
  BY <1>1, <1>2 DEF ProcessInv, ProcessTypes
<1> QED BY <1>1, <1>4, <1>5, <1>6 DEF ProcessInv

\* The end of a process, in whatever way: it has no socket by then, or the kernel
\* closes it.
LEMMA EndInv ==
    ASSUME ProcessInv, LinuxInv', NEW p \in Procs, Forget(p), pc'[p] = "idle",
           \A q \in Procs \ {p} : pc'[q] = pc[q],
           sockFile' = [n \in Names |-> IF sockFile[n] = p THEN Stale ELSE sockFile[n]]
    PROVE  ProcessInv'
<1>1. /\ main' = [main EXCEPT ![p] = "out"] /\ socketPath' = [socketPath EXCEPT ![p] = None]
  BY DEF Forget
<1>2. ProcessTypes'
  BY <1>1 DEF ProcessInv, ProcessTypes
<1>3. Listens'
  <2> SUFFICES ASSUME NEW q \in Procs, NEW n \in Names, sockFile'[n] = q
               PROVE  main'[q] \in Serving /\ socketPath'[q] = n
    BY DEF Listens
  <2>1. sockFile[n] = q /\ q # p
    BY ProcessAssumption
  <2> QED BY <1>1, <2>1 DEF ProcessInv, ProcessTypes, Listens
<1>4. \A q \in Procs : main'[q] = "out" => pc'[q] = "idle"
  BY <1>1 DEF ProcessInv, ProcessTypes
<1> QED BY <1>2, <1>3, <1>4 DEF ProcessInv

LEMMA DieInv ==
    ASSUME ProcessInv, NEW p \in Procs, Die(p)
    PROVE  ProcessInv'
<1>1. pc' = [pc EXCEPT ![p] = "idle"] /\ framer' = [framer EXCEPT ![p] = FALSE]
  BY DEF Die
<1>2. pc' \in [Procs -> Places] /\ pc'[p] = "idle" /\ \A q \in Procs \ {p} : pc'[q] = pc[q]
  BY <1>1 DEF ProcessInv, LinuxInv, Places, Without
<1>3. iface' \in [Names -> Procs \cup {None}]
      /\ \A n \in Names : iface'[n] = IF iface[n] = p THEN None ELSE iface[n]
  BY DEF Die, Released, ProcessInv, LinuxInv
<1>4. framer' \in [Procs -> BOOLEAN] /\ ~framer'[p] /\ \A q \in Procs \ {p} : framer'[q] = framer[q]
  BY <1>1 DEF ProcessInv, LinuxInv
<1>5. \A q \in Procs : pc'[q] \in With => \E n \in Names : iface'[n] = q
  BY <1>2, <1>3 DEF ProcessInv, LinuxInv, With
<1>6. \A q \in Procs : framer'[q] => pc'[q] \in {"up", "close"}
  BY <1>2, <1>4 DEF ProcessInv, LinuxInv
<1>7. NothingLeftBehind'
  BY <1>2, <1>3, <1>4, LinuxAssumption DEF ProcessInv, LinuxInv, NothingLeftBehind
<1>8. LinuxInv'
  BY <1>2, <1>3, <1>4, <1>5, <1>6, <1>7 DEF LinuxInv
<1> QED BY <1>2, <1>8, EndInv DEF Die

LEMMA RunInv ==
    ASSUME ProcessInv, NEW p \in Procs, Run(p)
    PROVE  ProcessInv'
<1> USE DEF Serving
<1>1. LinuxInv /\ main \in [Procs -> Serving \cup {"out", "parsed", "open", "linux", "destroyed", "members"}]
  BY DEF ProcessInv, ProcessTypes
<1>2. CASE InstallHandlers(p)
  BY <1>2, <1>1, SameEndpoint, MainMoves DEF InstallHandlers, step
<1>3. CASE OpenBegin(p)
  <2>1. LinuxInv' /\ \A q \in Procs \ {p} : pc'[q] = pc[q]
    BY <1>1, <1>3, CallKeepsOthers DEF OpenBegin, Begins
  <2> QED BY <1>3, <2>1, MainMoves DEF OpenBegin, step
<1>4. CASE EndpointOpens(p)
  <2>1. LinuxInv' /\ \A q \in Procs \ {p} : pc'[q] = pc[q]
    BY <1>1, <1>4, CallKeepsOthers DEF EndpointOpens
  <2>2. main[p] = "linux" /\ main' = [main EXCEPT ![p] = "linux"]
    BY <1>1, <1>4 DEF EndpointOpens, mainVars
  <2> QED BY <1>4, <2>1, <2>2, MainMoves DEF EndpointOpens, mainVars
<1>5. CASE EndpointFails(p)
  BY <1>5, OpenFailsInv DEF EndpointFails, ProcessInv, ProcessTypes
<1>6. CASE SocketOpens(p)
  BY <1>6, SocketOpensInv
<1>7. CASE SocketFails(p)
  <2>1. PICK file \in {sockFile[mctp_if_name[p]], None, Stale} : sockFile' = [sockFile EXCEPT ![mctp_if_name[p]] = file]
    BY <1>7 DEF SocketFails
  <2>2. sockFile' \in [Names -> Procs \cup {Stale, None}] /\ \A n \in Names : sockFile'[n] \in {sockFile[n], Stale, None}
    BY <2>1 DEF ProcessInv, ProcessTypes
  <2> QED BY <1>7, <2>2, OpenFailsInv DEF SocketFails
<1>8. CASE DeviceOpens(p)
  BY <1>8, <1>1, SameEndpoint, MainMoves DEF DeviceOpens, step
<1>9. CASE UsbFails(p) \/ DeviceFails(p)
  BY <1>9, OpenFailsInv DEF UsbFails, DeviceFails, ProcessInv, ProcessTypes
<1>10. CASE LoopEnds(p)
  BY <1>10, <1>1, SameEndpoint, MainMoves DEF LoopEnds, step
<1>11. CASE UsbStops(p) \/ DispatchJoined(p)
  <2>1. /\ CloseBegin(p) /\ main[p] \in {"failed", "joining"} /\ main' = [main EXCEPT ![p] = "closing"]
        /\ UNCHANGED <<socketPath, sockFile>>
    BY <1>11 DEF UsbStops, DispatchJoined, Closing, step
  <2>2. LinuxInv' /\ \A q \in Procs \ {p} : pc'[q] = pc[q]
    BY <1>1, <2>1, CallKeepsOthers DEF Begins
  <2> QED BY <2>1, <2>2, MainMoves
<1>12. CASE UsbCloses(p)
  <2>1. LinuxInv' /\ UNCHANGED <<pc, main, socketPath, sockFile>>
    BY <1>1, <1>12, SameEndpoint DEF UsbCloses
  <2> QED BY <2>1 DEF ProcessInv, ProcessTypes, Listens
<1>13. CASE EndpointCloses(p)
  <2>1. LinuxInv' /\ \A q \in Procs \ {p} : pc'[q] = pc[q]
    BY <1>1, <1>13, CallKeepsOthers DEF EndpointCloses, Continues
  <2>2. main[p] \in {"closing", "members"} /\ main' = [main EXCEPT ![p] = main[p]]
        /\ UNCHANGED <<main, socketPath, sockFile>>
    BY <1>1, <1>13 DEF EndpointCloses, mainVars
  <2> QED BY <2>1, <2>2 DEF ProcessInv, ProcessTypes, Listens
<1>14. CASE CloseEnds(p)
  <2>1. LinuxInv' /\ \A q \in Procs \ {p} : pc'[q] = pc[q]
    BY <1>1, <1>14, CallKeepsOthers, SameEndpoint DEF CloseEnds, Begins
  <2>2. sockFile' = Unlinked(p) /\ UNCHANGED socketPath /\ main[p] = "closing"
        /\ \E to \in {"closing", "destroyed"} : main' = [main EXCEPT ![p] = to]
    BY <1>14 DEF CloseEnds, step
  <2>3. /\ sockFile' \in [Names -> Procs \cup {Stale, None}]
        /\ \A n \in Names : sockFile'[n] \in {sockFile[n], Stale, None} /\ sockFile'[n] # p
    BY <2>2, UnlinkedFiles
  <2>4. PICK to \in {"closing", "destroyed"} : main' = [main EXCEPT ![p] = to]
    BY <2>2
  <2> QED BY <2>1, <2>2, <2>3, <2>4, FilesMove
<1>15. CASE DestroyMembers(p)
  <2>1. LinuxInv' /\ \A q \in Procs \ {p} : pc'[q] = pc[q]
    BY <1>1, <1>15, CallKeepsOthers DEF DestroyMembers, Begins
  <2>2. sockFile' = Unlinked(p) /\ UNCHANGED socketPath /\ main[p] = "destroyed" /\ main' = [main EXCEPT ![p] = "members"]
    BY <1>15 DEF DestroyMembers, step
  <2> QED BY <2>1, <2>2, UnlinkedFiles, FilesMove
<1>16. CASE Exit(p)
  <2>1. LinuxInv' /\ UNCHANGED pc /\ pc[p] = "idle" /\ main[p] = "members"
    BY <1>1, <1>16 DEF Exit, kernel, LinuxInv, NothingLeftBehind
  <2>2. sockFile' = [n \in Names |-> IF sockFile[n] = p THEN Stale ELSE sockFile[n]]
    BY <1>16, <2>1 DEF Exit, ProcessInv, ProcessTypes, Listens
  <2> QED BY <1>16, <2>1, <2>2, EndInv DEF Exit
<1> QED BY <1>2, <1>3, <1>4, <1>5, <1>6, <1>7, <1>8, <1>9, <1>10, <1>13, <1>14, <1>15, <1>16, <1>11, <1>12 DEF Run

LEMMA ProcessStep == ProcessInv /\ [ProcessNext]_processVars => ProcessInv'
<1> SUFFICES ASSUME ProcessInv, [ProcessNext]_processVars PROVE ProcessInv'
  OBVIOUS
<1>1. LinuxInv
  BY DEF ProcessInv
<1>2. ASSUME LinuxInv', UNCHANGED <<pc, main, socketPath, sockFile>> PROVE ProcessInv'
  BY <1>2 DEF ProcessInv, ProcessTypes, Listens
<1>3. CASE UNCHANGED processVars
  BY <1>1, <1>2, <1>3, SameEndpoint DEF processVars, vars, mainVars, linuxVars
<1>4. ASSUME NEW p \in Procs, Run(p) PROVE ProcessInv'
  BY <1>4, RunInv
<1>5. ASSUME NEW p \in Procs, signalHandler(p) PROVE ProcessInv'
  BY <1>1, <1>2, <1>5, SameEndpoint DEF signalHandler
<1>6. ASSUME NEW p \in Procs, Die(p) PROVE ProcessInv'
  BY <1>6, DieInv
<1>7. ASSUME NEW p \in Procs, Launch(p) PROVE ProcessInv'
  <2>1. LinuxInv' /\ UNCHANGED <<pc, socketPath, sockFile>> /\ main[p] = "out" /\ main' = [main EXCEPT ![p] = "parsed"]
    BY <1>1, <1>7, SameEndpoint DEF Launch, step
  <2>2. ProcessTypes' /\ Listens'
    BY <2>1 DEF ProcessInv, ProcessTypes, Listens, Serving
  <2> QED BY <2>1, <2>2 DEF ProcessInv, ProcessTypes
<1> QED BY <1>3, <1>4, <1>5, <1>6, <1>7 DEF ProcessNext, BridgeStep, Outside

\* Whichever way main() is left, by a failed start, a signal or a crash, and however
\* often the bridge and its members are closed on the way: the process that is gone
\* has no interface, no framer and no listening socket, for any number of processes.
THEOREM ProcessExitLeavesNothing == ProcessSpec => []ExitLeavesNothing
BY ProcessInvImplies, ProcessInitInv, ProcessStep, PTL DEF ProcessSpec

-----------------------------------------------------------------------------
(* A bridge that nobody crowded is served.  What an endpoint finds, and    *)
(* what nobody takes away, is that of OwnInv with crowded in the place of  *)
(* disturbed: here a process may die, and its names then mislead others.   *)
(* A bridge never asks for a name, so no interface is ever renamed.        *)

Busy == {"closing", "destroyed", "members"}

Hindered(p) == \E what \in {"pty", "ldisc", "framer", "socket", "device"} : <<p, what>> \in Faults

ServeTypes ==
    /\ label = [n \in Names |-> n] /\ wanted = [p \in Procs |-> None]
    /\ before \in [Procs -> SUBSET Names] /\ round \in [Procs -> Nat]
    /\ mctp_if_name \in [Procs -> Names \cup {None}]
    /\ socketPath \in [Procs -> Names \cup {None}]
    /\ closes \in [Procs -> Nat]

\* Where the endpoint is, and what is remembered, at each place of main().
Ladder ==
    \A p \in Procs :
       /\ main[p] \in {"out", "parsed", "open"} => pc[p] = "idle" /\ mctp_if_name[p] = None
       /\ main[p] \in {"out", "parsed", "open", "linux"} => socketPath[p] = None
       /\ main[p] \in {"device", "loop", "joining"} => pc[p] = "up"
       /\ main[p] = "failed" => pc[p] = "up" \/ (pc[p] = "idle" /\ socketPath[p] = None)
       /\ main[p] \in Busy => pc[p] \in {"idle", "close", "vanish"}
       /\ pc[p] = "listed" => mctp_if_name[p] = None

\* While a bridge that nobody crowded opens its endpoint, the others are settled.
Quiet(p) ==
    main[p] = "linux" =>
       \A q \in Procs \ {p} : /\ q \notin crowded /\ main[q] \notin Busy
                              /\ pc[p] \in Opening => pc[q] \in {"idle", "up"}

\* Nobody else has, takes or will remove the name n.
Untouched(p, n) ==
    \A q \in Procs \ {p} : /\ socketPath[q] # n
                           /\ pc[q] \in Opening \cup {"up"} => mctp_if_name[q] # n
                           /\ pc[q] \in {"listed", "scan"} => n \in before[q]

Mine(p) ==
    /\ pc[p] = "listed" => before[p] = list_mctp_devices
    /\ \A n \in Names : iface[n] = p =>
         /\ pc[p] = "scan" => /\ n \notin before[p] /\ list_mctp_devices \ {n} \subseteq before[p]
                              /\ round[p] # 0 => mctp_if_name[p] = n
         /\ pc[p] \in {"program", "attach", "up"} => mctp_if_name[p] = n
         /\ pc[p] \in With => Untouched(p, n)
         /\ main[p] \in {"device", "loop", "joining"} => sockFile[n] = p /\ socketPath[p] = n
         /\ main[p] = "failed" => socketPath[p] \in {None, n}

\* A start that fails is to blame on a call.
Blamed(p) ==
    \/ main[p] = "linux" /\ pc[p] \in {"close", "vanish", "idle"}
    \/ main[p] = "failed"
    \/ main[p] = "closing" /\ closes[p] = 2
    => Hindered(p)

ServeInv ==
    /\ ProcessInv /\ ServeTypes /\ Rounds /\ Ladder
    /\ disturbed \subseteq crowded /\ crowded \subseteq Procs
    /\ \A p \in Procs \ crowded : Quiet(p) /\ Mine(p) /\ Blamed(p)

\* What a process does to its endpoint, and all it does.
Call(p) == Begin(p, None) \/ CloseBegin(p) \/ Continues(p)
Acts(p) == Run(p) \/ Launch(p) \/ signalHandler(p) \/ Die(p)

LEMMA RunKinds ==
    ASSUME NEW p \in Procs, Acts(p)
    PROVE  Call(p) \/ UNCHANGED linuxVars \/ Exit(p) \/ Die(p)
<1>1. ASSUME NEW from, OpenFails(p, from) PROVE CloseBegin(p) \/ UNCHANGED linuxVars
  BY <1>1, OpenFailsKinds
<1> QED
  BY <1>1
  DEF Acts, Run, Call, Launch, signalHandler, InstallHandlers, OpenBegin, EndpointOpens, EndpointFails, SocketOpens,
      SocketFails, UsbFails, DeviceOpens, DeviceFails, UsbStops, LoopEnds, DispatchJoined, Closing, EndpointCloses,
      Continues, UsbCloses, CloseEnds, DestroyMembers

\* What a call does to its endpoint: the place it goes to, the names it records, and
\* the name it takes.
LEMMA CallEffects ==
    ASSUME ServeInv, NEW p \in Procs, Call(p)
    PROVE  /\ Frame(p) /\ Rounds'
           /\ label' = [n \in Names |-> n] /\ wanted' = [q \in Procs |-> None]
           /\ before' \in [Procs -> SUBSET Names] /\ round' \in [Procs -> Nat]
           /\ mctp_if_name' \in [Procs -> Names \cup {None}]
           /\ pc'[p] \in {"listed", "scan"} => \/ before'[p] = list_mctp_devices
                                               \/ pc[p] \in {"listed", "scan"} /\ before'[p] = before[p]
           /\ \/ mctp_if_name'[p] = mctp_if_name[p]
              \/ pc[p] = "vanish" /\ mctp_if_name'[p] = None
              \/ pc[p] = "scan" /\ mctp_if_name'[p] \in list_mctp_devices \ before[p]
<1> DEFINE Effects ==
           /\ Frame(p) /\ Rounds'
           /\ label' = [n \in Names |-> n] /\ wanted' = [q \in Procs |-> None]
           /\ before' \in [Procs -> SUBSET Names] /\ round' \in [Procs -> Nat]
           /\ mctp_if_name' \in [Procs -> Names \cup {None}]
           /\ pc'[p] \in {"listed", "scan"} => \/ before'[p] = list_mctp_devices
                                               \/ pc[p] \in {"listed", "scan"} /\ before'[p] = before[p]
           /\ \/ mctp_if_name'[p] = mctp_if_name[p]
              \/ pc[p] = "vanish" /\ mctp_if_name'[p] = None
              \/ pc[p] = "scan" /\ mctp_if_name'[p] \in list_mctp_devices \ before[p]
<1> SUFFICES Effects
  OBVIOUS
<1> USE DEF ServeInv, ServeTypes, ProcessInv, LinuxInv, Frame, Rounds, kernel, goto
<1>1. CASE Begin(p, None)
  BY <1>1 DEF Begin, list_mctp_devices
<1>2. CASE CloseBegin(p)
  BY <1>2 DEF CloseBegin
<1>3. CASE OpenPtyFails(p) \/ SetDisciplineFails(p)
  BY <1>3 DEF OpenPtyFails, SetDisciplineFails, LeaveScan
<1>4. CASE SetDiscipline(p)
  <2>1. Lowest \in Names
    BY <1>4, LowestUnused DEF SetDiscipline, Unused
  <2>2. label' = [n \in Names |-> n]
    BY <1>4, <2>1 DEF SetDiscipline
  <2> QED BY <1>4, <2>2 DEF SetDiscipline
<1>5. ASSUME ScanEnds(p), UNCHANGED label, NEW name \in Names \cup {None},
             mctp_if_name' = [mctp_if_name EXCEPT ![p] = name],
             name = mctp_if_name[p] \/ name \in list_mctp_devices \ before[p]
      PROVE  Effects
  <2>1. pc[p] = "scan" /\ (pc'[p] = "scan" \/ round'[p] = 0)
    BY <1>5 DEF ScanEnds, LeaveScan
  <2>2. /\ wanted' = [q \in Procs |-> None] /\ before' \in [Procs -> SUBSET Names] /\ round' \in [Procs -> Nat]
        /\ \A q \in Procs \ {p} : pc'[q] = pc[q] /\ before'[q] = before[q] /\ round'[q] = round[q]
        /\ pc'[p] \in {"listed", "scan"} => before'[p] = before[p]
    BY <1>5 DEF ScanEnds, LeaveScan
  <2>3. Rounds'
    BY <2>1, <2>2
  <2>4. mctp_if_name' \in [Procs -> Names \cup {None}] /\ mctp_if_name'[p] = name
        /\ \A q \in Procs \ {p} : mctp_if_name'[q] = mctp_if_name[q]
    BY <1>5
  <2> QED BY <1>5, <2>1, <2>2, <2>3, <2>4
<1>6. CASE ScanNothing(p)
  <2>1. ScanEnds(p) /\ UNCHANGED label /\ mctp_if_name' = [mctp_if_name EXCEPT ![p] = mctp_if_name[p]]
    BY <1>6 DEF ScanNothing
  <2> QED BY <1>5, <2>1
<1>7. CASE ScanTakes(p)
  <2>1. PICK dev \in list_mctp_devices \ before[p] : mctp_if_name' = [mctp_if_name EXCEPT ![p] = dev]
    BY <1>7 DEF ScanTakes, NewNames
  <2>2. dev \in Names
    BY <2>1 DEF list_mctp_devices
  <2> QED BY <1>5, <1>7, <2>1, <2>2 DEF ScanTakes
<1>8. CASE ScanRenames(p) \/ RenameFails(p)
  BY <1>8 DEF ScanRenames, RenameFails
<1>9. CASE Program(p)
  <2>1. pc[p] = "program" /\ UNCHANGED <<label, before, wanted, mctp_if_name>>
    BY <1>9 DEF Program
  <2>2. pc \in [Procs -> Places] /\ round \in [Procs -> Nat]
    OBVIOUS
  <2>3. /\ round' \in [Procs -> Nat] /\ \A q \in Procs \ {p} : pc'[q] = pc[q] /\ round'[q] = round[q]
        /\ pc'[p] = "program" \/ (pc'[p] = "attach" /\ round'[p] = 0)
    <3> HIDE DEF ServeInv
    <3>1. CASE goto(p, "program", "program") /\ round' = [round EXCEPT ![p] = @ + 1]
      BY <2>2, <3>1
    <3>2. CASE goto(p, "program", "attach") /\ round' = [round EXCEPT ![p] = 0]
      BY <2>2, <3>2
    <3> QED BY <1>9, <3>1, <3>2 DEF Program
  <2> QED BY <2>1, <2>3
<1>10. CASE Attach(p) \/ AttachFails(p)
  BY <1>10 DEF Attach, AttachFails
<1>11. CASE ResetDiscipline(p)
  BY <1>11 DEF ResetDiscipline, Released
<1>12. CASE Vanished(p) \/ StillThere(p)
  BY <1>12 DEF Vanished, StillThere
<1> HIDE DEF Effects
<1> QED BY <1>1, <1>2, <1>3, <1>4, <1>6, <1>7, <1>8, <1>9, <1>10, <1>11, <1>12
        DEF Call, Continues, initialize, close

\* The other processes are left alone.
MainFrame(p) ==
    \A q \in Procs \ {p} :
       main'[q] = main[q] /\ socketPath'[q] = socketPath[q] /\ closes'[q] = closes[q]

\* What a process does to main() and to the socket files.
LEMMA MainEffects ==
    ASSUME ServeInv, NEW p \in Procs, Acts(p)
    PROVE  /\ MainFrame(p)
           /\ socketPath' \in [Procs -> Names \cup {None}] /\ closes' \in [Procs -> Nat]
           /\ socketPath'[p] \in {socketPath[p], None} \/ (pc[p] = "up" /\ socketPath'[p] = mctp_if_name[p])
           /\ \A n \in Names : \/ sockFile'[n] = sockFile[n] \/ n = socketPath[p] \/ sockFile[n] = p
                               \/ pc[p] = "up" /\ n = mctp_if_name[p]
<1> DEFINE Effects ==
           /\ MainFrame(p)
           /\ socketPath' \in [Procs -> Names \cup {None}] /\ closes' \in [Procs -> Nat]
           /\ socketPath'[p] \in {socketPath[p], None} \/ (pc[p] = "up" /\ socketPath'[p] = mctp_if_name[p])
           /\ \A n \in Names : \/ sockFile'[n] = sockFile[n] \/ n = socketPath[p] \/ sockFile[n] = p
                               \/ pc[p] = "up" /\ n = mctp_if_name[p]
<1> SUFFICES Effects
  OBVIOUS
<1>1. /\ main = [q \in Procs |-> main[q]] /\ socketPath \in [Procs -> Names \cup {None}]
      /\ closes \in [Procs -> Nat] /\ sockFile = [n \in Names |-> sockFile[n]]
      /\ mctp_if_name[p] \in Names \cup {None}
  BY DEF ServeInv, ServeTypes, ProcessInv, ProcessTypes
<1> USE DEF MainFrame, step
<1>2. ASSUME NEW to, main' = [main EXCEPT ![p] = to] \/ UNCHANGED main,
             UNCHANGED <<socketPath, sockFile>>,
             UNCHANGED closes \/ \E k \in {1, 2} : closes' = [closes EXCEPT ![p] = k]
      PROVE  Effects
  BY <1>1, <1>2
<1>3. CASE InstallHandlers(p) \/ Launch(p) \/ signalHandler(p) \/ OpenBegin(p) \/ DeviceOpens(p)
  BY <1>2, <1>3 DEF InstallHandlers, Launch, signalHandler, OpenBegin, DeviceOpens
<1>4. CASE EndpointOpens(p) \/ EndpointCloses(p)
  BY <1>2, <1>4 DEF EndpointOpens, EndpointCloses, mainVars
<1>5. CASE EndpointFails(p) \/ UsbFails(p) \/ DeviceFails(p)
  <2>1. PICK from : OpenFails(p, from)
    BY <1>5 DEF EndpointFails, UsbFails, DeviceFails
  <2>2. UNCHANGED sockFile
    BY <1>5 DEF EndpointFails, UsbFails, DeviceFails
  <2> QED BY <1>2, <2>1, <2>2, OpenFailsKinds
<1>6. CASE LoopEnds(p) \/ UsbStops(p) \/ DispatchJoined(p) \/ UsbCloses(p)
  BY <1>2, <1>6 DEF LoopEnds, UsbStops, DispatchJoined, Closing, UsbCloses
<1>7. CASE SocketOpens(p)
  BY <1>1, <1>7 DEF SocketOpens
<1>8. CASE SocketFails(p)
  <2>1. pc[p] = "up" /\ OpenFails(p, "linux")
    BY <1>8 DEF SocketFails
  <2>2. PICK file : sockFile' = [sockFile EXCEPT ![mctp_if_name[p]] = file]
    BY <1>8 DEF SocketFails
  <2> QED BY <1>1, <2>1, <2>2, OpenFailsKinds
<1>9. CASE CloseEnds(p)
  <2>1. closes[p] \in {1, 2} /\ closes' = [closes EXCEPT ![p] = closes[p] - 1] /\ UNCHANGED socketPath
    BY <1>1, <1>9 DEF CloseEnds
  <2>2. closes[p] - 1 \in Nat
    BY <2>1
  <2>3. \A n \in Names : sockFile'[n] = sockFile[n] \/ n = socketPath[p]
    BY <1>9 DEF CloseEnds, Unlinked
  <2>4. \A q \in Procs \ {p} : main'[q] = main[q]
    BY <1>1, <1>9 DEF CloseEnds
  <2> QED BY <1>1, <2>1, <2>2, <2>3, <2>4
<1>10. CASE DestroyMembers(p)
  <2>1. \A n \in Names : sockFile'[n] = sockFile[n] \/ n = socketPath[p]
    BY <1>10 DEF DestroyMembers, Unlinked
  <2> QED BY <1>1, <1>10, <2>1 DEF DestroyMembers
<1>11. CASE Exit(p) \/ Die(p)
  <2>1. Forget(p)
    BY <1>11 DEF Exit, Die
  <2>2. \A n \in Names : sockFile'[n] = sockFile[n] \/ sockFile[n] = p
    BY <1>11 DEF Exit, Die
  <2> QED BY <1>1, <2>1, <2>2 DEF Forget
<1> HIDE DEF Effects
<1> QED BY <1>3, <1>4, <1>5, <1>6, <1>7, <1>8, <1>9, <1>10, <1>11 DEF Acts, Run

\* What a process that ends does to its endpoint.
LEMMA EndEffects ==
    ASSUME ServeInv, NEW p \in Procs, Exit(p) \/ Die(p)
    PROVE  /\ Frame(p) /\ Rounds'
           /\ label' = [n \in Names |-> n] /\ wanted' = [q \in Procs |-> None]
           /\ before' \in [Procs -> SUBSET Names] /\ round' \in [Procs -> Nat]
           /\ mctp_if_name' \in [Procs -> Names \cup {None}]
           /\ main'[p] = "out" /\ pc'[p] = "idle" /\ mctp_if_name'[p] = None /\ socketPath'[p] = None
<1> USE DEF ServeInv, ServeTypes, ProcessInv, ProcessTypes, LinuxInv, Frame, Rounds
<1>1. CASE Exit(p)
  BY <1>1 DEF Exit, Forget, kernel
<1>2. CASE Die(p)
  <2>1. label' = [n \in Names |-> n]
    BY <1>2 DEF Die, Released
  <2>2. /\ pc' = [pc EXCEPT ![p] = "idle"] /\ round' = [round EXCEPT ![p] = 0]
        /\ wanted' = [wanted EXCEPT ![p] = None] /\ before' = [before EXCEPT ![p] = {}]
        /\ mctp_if_name' = [mctp_if_name EXCEPT ![p] = None]
        /\ main' = [main EXCEPT ![p] = "out"] /\ socketPath' = [socketPath EXCEPT ![p] = None]
    BY <1>2 DEF Die, Forget, LeaveScan
  <2> QED BY <2>1, <2>2
<1> QED BY <1>1, <1>2

\* Both together, for every step of a process.
LEMMA ActEffects ==
    ASSUME ServeInv, NEW p \in Procs, Acts(p)
    PROVE  /\ Frame(p) /\ MainFrame(p) /\ ServeTypes' /\ Rounds'
           /\ pc'[p] \in {"listed", "scan"} => \/ before'[p] = list_mctp_devices
                                               \/ pc[p] \in {"listed", "scan"} /\ before'[p] = before[p]
           /\ \/ mctp_if_name'[p] \in {mctp_if_name[p], None}
              \/ pc[p] = "scan" /\ mctp_if_name'[p] \in list_mctp_devices \ before[p]
<1>1. CASE Call(p)
  BY <1>1, CallEffects, MainEffects DEF ServeTypes
<1>2. CASE UNCHANGED linuxVars
  BY <1>2, MainEffects DEF linuxVars, kernel, ServeInv, ServeTypes, Frame, Rounds
<1>3. CASE Exit(p) \/ Die(p)
  BY <1>3, EndEffects, MainEffects DEF ServeTypes
<1> QED BY <1>1, <1>2, <1>3, RunKinds

\* The endpoint follows main().
LEMMA LadderStep ==
    ASSUME ServeInv, NEW p \in Procs, Acts(p)
    PROVE  Ladder'
<1> DEFINE Rung ==
       /\ main'[p] \in {"out", "parsed", "open"} => pc'[p] = "idle" /\ mctp_if_name'[p] = None
       /\ main'[p] \in {"out", "parsed", "open", "linux"} => socketPath'[p] = None
       /\ main'[p] \in {"device", "loop", "joining"} => pc'[p] = "up"
       /\ main'[p] = "failed" => pc'[p] = "up" \/ (pc'[p] = "idle" /\ socketPath'[p] = None)
       /\ main'[p] \in Busy => pc'[p] \in {"idle", "close", "vanish"}
       /\ pc'[p] = "listed" => mctp_if_name'[p] = None
<1> SUFFICES Rung
  BY ActEffects DEF ServeInv, Ladder, Frame, MainFrame
<1>1. /\ pc \in [Procs -> Places] /\ main = [q \in Procs |-> main[q]]
      /\ mctp_if_name = [q \in Procs |-> mctp_if_name[q]] /\ socketPath = [q \in Procs |-> socketPath[q]]
  BY DEF ServeInv, ServeTypes, ProcessInv, ProcessTypes, LinuxInv
<1>2. /\ main[p] \in {"out", "parsed", "open"} => pc[p] = "idle" /\ mctp_if_name[p] = None
      /\ main[p] \in {"out", "parsed", "open", "linux"} => socketPath[p] = None
      /\ main[p] \in {"device", "loop", "joining"} => pc[p] = "up"
      /\ main[p] = "failed" => pc[p] = "up" \/ (pc[p] = "idle" /\ socketPath[p] = None)
      /\ main[p] \in Busy => pc[p] \in {"idle", "close", "vanish"}
      /\ pc[p] = "listed" => mctp_if_name[p] = None
  BY DEF ServeInv, Ladder
<1> USE DEF step, goto, Busy
<1>3. CASE InstallHandlers(p) \/ Launch(p) \/ signalHandler(p) \/ DeviceOpens(p) \/ LoopEnds(p) \/ UsbCloses(p)
  BY <1>1, <1>2, <1>3 DEF InstallHandlers, Launch, signalHandler, DeviceOpens, LoopEnds, UsbCloses, linuxVars
<1>4. CASE OpenBegin(p)
  BY <1>1, <1>2, <1>4 DEF OpenBegin, Begin
<1>5. CASE EndpointOpens(p)
  <2>1. main'[p] = "linux" /\ socketPath'[p] = None
    BY <1>2, <1>5 DEF EndpointOpens, mainVars
  <2>2. pc'[p] # "listed"
    BY <1>1, <1>5
    DEF EndpointOpens, Continues, initialize, close, OpenPtyFails, SetDisciplineFails, SetDiscipline, ScanNothing,
        ScanTakes, ScanRenames, ScanEnds, RenameFails, Program, Attach, AttachFails, ResetDiscipline, Vanished, StillThere
  <2> QED BY <2>1, <2>2
<1>6. ASSUME main' = [main EXCEPT ![p] = "closing"], CloseBegin(p) PROVE Rung
  BY <1>1, <1>6 DEF CloseBegin
<1>7. CASE EndpointFails(p) \/ SocketFails(p) \/ UsbFails(p) \/ DeviceFails(p)
  <2>1. PICK from \in {"open", "linux", "device"} : OpenFails(p, from)
    BY <1>7 DEF EndpointFails, SocketFails, UsbFails, DeviceFails
  <2>2. from = "linux" => pc[p] \in {"idle", "up"}
    BY <1>7, <2>1, OpenFailsKinds DEF EndpointFails, SocketFails, UsbFails, DeviceFails
  <2>3. CASE main' = [main EXCEPT ![p] = "closing"] /\ CloseBegin(p)
    BY <1>6, <2>3
  <2>4. CASE main' = [main EXCEPT ![p] = "failed"] /\ UNCHANGED linuxVars
    <3>1. main'[p] = "failed" /\ UNCHANGED <<pc, mctp_if_name, socketPath>> /\ main[p] = from
      BY <1>1, <2>1, <2>4, OpenFailsKinds DEF linuxVars
    <3> QED BY <1>1, <1>2, <2>2, <3>1
  <2> QED BY <2>1, <2>3, <2>4, OpenFailsKinds
<1>8. CASE UsbStops(p) \/ DispatchJoined(p)
  BY <1>6, <1>8 DEF UsbStops, DispatchJoined, Closing
<1>9. CASE SocketOpens(p)
  BY <1>1, <1>2, <1>9 DEF SocketOpens, linuxVars
<1>10. CASE EndpointCloses(p)
  <2>1. main'[p] \in {"closing", "members"}
    BY <1>10 DEF EndpointCloses, mainVars
  <2>2. pc'[p] \in {"vanish", "idle"}
    BY <1>1, <1>10 DEF EndpointCloses, close, ResetDiscipline, Vanished, StillThere
  <2> QED BY <2>1, <2>2
<1>11. CASE CloseEnds(p)
  <2>1. main'[p] \in {"closing", "destroyed"} /\ pc'[p] \in {"idle", "close"}
    BY <1>1, <1>11 DEF CloseEnds, CloseBegin, linuxVars
  <2> QED BY <2>1
<1>12. CASE DestroyMembers(p)
  BY <1>1, <1>12 DEF DestroyMembers, CloseBegin
<1>13. CASE Exit(p) \/ Die(p)
  BY <1>13, EndEffects
<1> HIDE DEF Rung
<1> QED BY <1>3, <1>4, <1>5, <1>7, <1>9, <1>10, <1>11, <1>12, <1>13, <1>8 DEF Acts, Run

\* Where main() is while the endpoint opens or is open.
LEMMA OpeningAtLinux ==
    ASSUME ProcessInv, Ladder, NEW p \in Procs
    PROVE  /\ pc[p] \in Opening => main[p] = "linux"
           /\ pc[p] = "up" => main[p] \in {"linux", "device", "loop", "joining", "failed"}
           /\ main[p] \in {"linux", "device", "loop", "joining", "failed"} \cup Busy \cup {"out", "parsed", "open"}
  BY DEF ProcessInv, ProcessTypes, Ladder, Opening, Serving, Busy

\* What Watch records: a bridge that is not crowded afterwards was not before, and if
\* it opens its endpoint the others are settled.
LEMMA WatchEffects ==
    ASSUME ServeInv, Watch, ProcessInv', Ladder'
    PROVE  /\ disturbed' \subseteq crowded' /\ crowded' \subseteq Procs
           /\ \A p \in Procs \ crowded' : main'[p] # "out" => p \notin crowded
           /\ \A p \in Procs \ crowded' : Quiet(p)'
           /\ \A p \in Procs \ crowded' : main'[p] = "linux" =>
                 \A q \in Procs \ {p} : main'[q] = "out" => main[q] = "out"
<1>1. /\ disturbed \subseteq crowded /\ crowded \subseteq Procs
      /\ Observe
      /\ crowded' = {p \in Procs :
           \/ p \in crowded /\ main'[p] # "out"
           \/ p \in disturbed' /\ main'[p] = "linux"
           \/ main'[p] = "linux" /\ \E q \in Procs \ {p} : Unsettled(q)}
  BY DEF ServeInv, Watch
<1>2. \A p \in Procs : /\ pc'[p] \in Opening => main'[p] = "linux"
                       /\ pc'[p] = "up" => main'[p] \in {"linux", "device", "loop", "joining", "failed"}
  BY DEF ProcessInv, ProcessTypes, Ladder, Opening, Serving, Busy
<1>3. disturbed' \subseteq crowded'
  <2> SUFFICES ASSUME NEW p \in disturbed' PROVE p \in crowded'
    OBVIOUS
  <2>1. p \in Procs /\ (Company(p) \/ (p \in disturbed /\ pc'[p] \in Opening \cup {"up"}))
    BY <1>1 DEF Observe, Opening
  <2>2. CASE Company(p)
    BY <1>1, <1>2, <2>1, <2>2 DEF Company, Opening
  <2>3. CASE p \in disturbed /\ pc'[p] \in Opening \cup {"up"}
    BY <1>1, <1>2, <2>1, <2>3
  <2> QED BY <2>1, <2>2, <2>3
<1>4. \A p \in Procs \ crowded' : main'[p] # "out" => p \notin crowded
  BY <1>1
<1>5. ASSUME NEW p \in Procs \ crowded', main'[p] = "linux", NEW q \in Procs \ {p}
      PROVE  /\ ~Unsettled(q) /\ q \notin crowded'
             /\ pc'[p] \in Opening => pc'[q] \in {"idle", "up"}
  <2>1. p \notin disturbed' /\ p \notin crowded /\ \A r \in Procs \ {p} : ~Unsettled(r)
    BY <1>1, <1>5
  <2>2. ~Unsettled(p)
    BY <1>5, <2>1 DEF Unsettled, Busy
  <2>3. q \notin crowded /\ q \notin disturbed'
    BY <2>1 DEF Unsettled
  <2>4. q \notin crowded'
    BY <1>1, <2>1, <2>2, <2>3
  <2>5. pc'[p] \in Opening => pc'[q] \in {"idle", "up"}
    BY <1>1, <2>1 DEF Observe, Company, Opening
  <2> QED BY <2>1, <2>4, <2>5
<1>6. \A p \in Procs \ crowded' : Quiet(p)'
  BY <1>5 DEF Quiet, Unsettled, Busy
<1> QED BY <1>1, <1>3, <1>4, <1>5, <1>6 DEF Unsettled

\* An interface of another process is as it was; and none changes while the one that
\* moves stays at rest.
LEMMA InterfacesKept ==
    ASSUME ServeInv, NEW p \in Procs, Acts(p)
    PROVE  /\ \A n \in Names : iface'[n] # p /\ iface'[n] # None => iface'[n] = iface[n]
           /\ \A n \in Names : iface[n] # p /\ iface[n] # None => iface'[n] = iface[n]
           /\ pc[p] \in {"idle", "up"} /\ main'[p] # "out" => UNCHANGED iface
<1>1. iface = [n \in Names |-> iface[n]]
  BY DEF ServeInv, ProcessInv, LinuxInv
<1>2. CASE SetDiscipline(p)
  <2>1. PICK m \in Names : m = Lowest /\ iface[m] = None
    BY <1>2, LowestUnused DEF SetDiscipline, Unused
  <2>2. iface' = [iface EXCEPT ![m] = p] /\ pc[p] = "listed"
    BY <1>2, <2>1 DEF SetDiscipline, goto
  <2> QED BY <1>1, <2>1, <2>2
<1>3. CASE ResetDiscipline(p)
  BY <1>3 DEF ResetDiscipline, Released, goto
<1>4. CASE Die(p)
  <2>1. main'[p] = "out"
    BY <1>4, EndEffects
  <2> QED BY <1>4, <2>1 DEF Die, Released
<1>5. CASE ~SetDiscipline(p) /\ ~ResetDiscipline(p) /\ ~Die(p)
  <2>1. CASE Call(p)
    BY <1>5, <2>1
    DEF Call, Continues, initialize, close, kernel, Begin, CloseBegin, OpenPtyFails, SetDisciplineFails, ScanNothing,
        ScanTakes, ScanRenames, RenameFails, Program, Attach, AttachFails, Vanished, StillThere
  <2>2. CASE UNCHANGED linuxVars \/ Exit(p)
    BY <2>2 DEF linuxVars, kernel, Exit
  <2> QED BY <1>5, <2>1, <2>2, RunKinds
<1> QED BY <1>2, <1>3, <1>4, <1>5

\* A process whose endpoint opens or is open, and which has a name already, was there
\* before.
LEMMA StaysOpening ==
    ASSUME ServeInv, NEW p \in Procs, Acts(p), pc'[p] \in Opening \cup {"up"}, mctp_if_name[p] # None
    PROVE  pc[p] \in Opening \cup {"up"}
<1> USE DEF Opening, goto
<1>1. pc \in [Procs -> Places]
  BY DEF ServeInv, ProcessInv, LinuxInv
<1>2. CASE Begin(p, None)
  <2>1. pc'[p] = "listed" /\ UNCHANGED mctp_if_name
    BY <1>1, <1>2 DEF Begin
  <2>2. Ladder'
    BY LadderStep
  <2> QED BY <2>1, <2>2 DEF Ladder
<1>3. CASE CloseBegin(p)
  BY <1>1, <1>3 DEF CloseBegin
<1>4. CASE initialize(p)
  BY <1>4 DEF initialize, OpenPtyFails, SetDisciplineFails, SetDiscipline, ScanNothing,
        ScanTakes, ScanRenames, ScanEnds, RenameFails, Program, Attach, AttachFails
<1>5. CASE close(p)
  BY <1>1, <1>5 DEF close, ResetDiscipline, Vanished, StillThere
<1>6. CASE UNCHANGED linuxVars
  BY <1>6 DEF linuxVars
<1>7. CASE Exit(p) \/ Die(p)
  BY <1>7, EndEffects
<1> QED BY <1>2, <1>3, <1>4, <1>5, <1>6, <1>7, RunKinds DEF Call, Continues

\* Every interface is listed.
LEMMA AllListed ==
    /\ ServeTypes => list_mctp_devices = {n \in Names : iface[n] # None}
    /\ ServeTypes' => list_mctp_devices' = {n \in Names : iface'[n] # None}
<1>1. ServeTypes => list_mctp_devices = {n \in Names : iface[n] # None}
  BY DEF ServeTypes, list_mctp_devices
<1>2. ServeTypes' => list_mctp_devices' = {n \in Names : iface'[n] # None}
  BY DEF ServeTypes, list_mctp_devices
<1> QED BY <1>1, <1>2

\* A step of another process leaves a bridge its interface, its name and its file.
LEMMA OtherServed ==
    ASSUME ServeInv, NEW r \in Procs, Acts(r), Watch, ProcessInv', Ladder',
           NEW p \in Procs \ {r}, p \notin crowded', main'[p] # "out"
    PROVE  Mine(p)' /\ Blamed(p)'
<1>1. /\ Frame(r) /\ MainFrame(r) /\ ServeTypes'
      /\ pc'[r] \in {"listed", "scan"} => \/ before'[r] = list_mctp_devices
                                          \/ pc[r] \in {"listed", "scan"} /\ before'[r] = before[r]
      /\ \/ mctp_if_name'[r] \in {mctp_if_name[r], None}
         \/ pc[r] = "scan" /\ mctp_if_name'[r] \in list_mctp_devices \ before[r]
  BY ActEffects
<1>2. p \notin crowded /\ Quiet(p)' /\ (main'[p] = "linux" /\ main'[r] = "out" => main[r] = "out")
  BY WatchEffects
<1>3. Quiet(p) /\ Mine(p) /\ Blamed(p)
  BY <1>2 DEF ServeInv
<1>4. /\ pc'[p] = pc[p] /\ before'[p] = before[p] /\ round'[p] = round[p] /\ mctp_if_name'[p] = mctp_if_name[p]
      /\ main'[p] = main[p] /\ socketPath'[p] = socketPath[p] /\ closes'[p] = closes[p]
  BY <1>1 DEF Frame, MainFrame
<1>5. Blamed(p)'
  BY <1>3, <1>4 DEF Blamed, Hindered
<1>6. \A n \in Names : iface'[n] = p => iface[n] = p
  BY InterfacesKept, LinuxAssumption
<1>7. ASSUME pc[p] \in Opening PROVE list_mctp_devices' = list_mctp_devices
  <2>1. main[p] = "linux"
    BY <1>7, OpeningAtLinux DEF ServeInv
  <2>2. pc[r] \in {"idle", "up"}
    BY <1>3, <1>7, <2>1 DEF Quiet
  <2>3. CASE main'[r] = "out"
    <3>1. main[r] = "out" /\ Acts(r)
      BY <1>2, <1>4, <2>1, <2>3
    <3>2. \A n \in Names : iface[n] # r /\ iface'[n] # r
      BY <2>3, <3>1 DEF ServeInv, ProcessInv, LinuxInv, NothingLeftBehind
    <3>3. \A n \in Names : iface'[n] = iface[n]
      BY <3>2, InterfacesKept
    <3> QED BY <1>1, <3>3, AllListed DEF ServeInv
  <2>4. CASE main'[r] # "out"
    <3>1. UNCHANGED iface
      BY <2>2, <2>4, InterfacesKept
    <3> QED BY <1>1, <3>1, AllListed DEF ServeInv
  <2> QED BY <2>3, <2>4
<1>8. ASSUME NEW n \in Names, iface[n] = p, pc[p] \in With PROVE Untouched(p, n)'
  <2>1. Untouched(p, n)
    BY <1>3, <1>8 DEF Mine
  <2> SUFFICES ASSUME NEW q \in Procs \ {p}
               PROVE  /\ socketPath'[q] # n
                      /\ pc'[q] \in Opening \cup {"up"} => mctp_if_name'[q] # n
                      /\ pc'[q] \in {"listed", "scan"} => n \in before'[q]
    BY DEF Untouched
  <2>2. CASE q # r
    BY <1>1, <2>1, <2>2 DEF Frame, MainFrame, Untouched
  <2>3. CASE q = r
    <3>1. n # None /\ n \in list_mctp_devices
      BY <1>8, AllListed, LinuxAssumption DEF ServeInv
    <3>2. socketPath'[r] # n
      <4>1. socketPath'[r] \in {socketPath[r], None} \/ (pc[r] = "up" /\ socketPath'[r] = mctp_if_name[r])
        BY MainEffects
      <4> QED BY <2>1, <3>1, <4>1 DEF Untouched
    <3>3. pc'[r] \in {"listed", "scan"} => n \in before'[r]
      BY <1>1, <2>1, <3>1 DEF Untouched
    <3>4. ASSUME pc'[r] \in Opening \cup {"up"} PROVE mctp_if_name'[r] # n
      <4>1. CASE mctp_if_name'[r] = None
        BY <3>1, <4>1
      <4>2. CASE pc[r] = "scan" /\ mctp_if_name'[r] \in list_mctp_devices \ before[r]
        BY <2>1, <4>2 DEF Untouched
      <4>3. CASE mctp_if_name'[r] = mctp_if_name[r] /\ mctp_if_name[r] # None
        <5>1. pc[r] \in Opening \cup {"up"}
          BY <3>4, <4>3, StaysOpening
        <5> QED BY <2>1, <4>3, <5>1 DEF Untouched
      <4> QED BY <1>1, <4>1, <4>2, <4>3
    <3> QED BY <2>3, <3>2, <3>3, <3>4
  <2> QED BY <2>2, <2>3
<1>9. ASSUME NEW n \in Names, iface[n] = p, main[p] \in {"device", "loop", "joining"} PROVE sockFile'[n] = p
  <2>1. pc[p] = "up" /\ sockFile[n] = p
    BY <1>3, <1>9 DEF ServeInv, Ladder, Mine
  <2>2. socketPath[r] # n /\ (pc[r] = "up" => mctp_if_name[r] # n)
    BY <1>3, <1>9, <2>1 DEF Mine, Untouched, With
  <2>3. \/ sockFile'[n] = sockFile[n] \/ n = socketPath[r] \/ sockFile[n] = r
        \/ pc[r] = "up" /\ n = mctp_if_name[r]
    BY MainEffects
  <2> QED BY <2>1, <2>2, <2>3
<1>10. pc'[p] = "listed" => before'[p] = list_mctp_devices'
  BY <1>3, <1>4, <1>7 DEF Mine, Opening
<1>11. ASSUME NEW n \in Names, iface'[n] = p
       PROVE  /\ pc'[p] = "scan" => /\ n \notin before'[p] /\ list_mctp_devices' \ {n} \subseteq before'[p]
                                    /\ round'[p] # 0 => mctp_if_name'[p] = n
              /\ pc'[p] \in {"program", "attach", "up"} => mctp_if_name'[p] = n
              /\ pc'[p] \in With => Untouched(p, n)'
              /\ main'[p] \in {"device", "loop", "joining"} => sockFile'[n] = p /\ socketPath'[p] = n
              /\ main'[p] = "failed" => socketPath'[p] \in {None, n}
  <2>1. iface[n] = p
    BY <1>6, <1>11
  <2>2. /\ pc[p] = "scan" => /\ n \notin before[p] /\ list_mctp_devices \ {n} \subseteq before[p]
                             /\ round[p] # 0 => mctp_if_name[p] = n
        /\ pc[p] \in {"program", "attach", "up"} => mctp_if_name[p] = n
        /\ main[p] \in {"device", "loop", "joining"} => socketPath[p] = n
        /\ main[p] = "failed" => socketPath[p] \in {None, n}
    BY <1>3, <2>1 DEF Mine
  <2>3. pc[p] = "scan" => list_mctp_devices' = list_mctp_devices
    BY <1>7 DEF Opening
  <2> QED BY <1>4, <1>8, <1>9, <2>1, <2>2, <2>3
<1>12. Mine(p)'
  BY <1>10, <1>11 DEF Mine
<1> QED BY <1>5, <1>12

\* The names the others go by, and those they will remove, are taken: no new
\* interface gets one of them while they are settled.
LEMMA OthersNamed ==
    ASSUME ServeInv, NEW p \in Procs \ crowded, pc[p] \in Opening, NEW n \in Names, iface[n] = None,
           NEW q \in Procs \ {p}
    PROVE  socketPath[q] # n /\ pc[q] \in {"idle", "up"} /\ (pc[q] = "up" => mctp_if_name[q] # n)
<1>1. n # None /\ ProcessInv /\ Ladder /\ Quiet(p) /\ main[p] = "linux"
  BY OpeningAtLinux, LinuxAssumption DEF ServeInv
<1>2. q \notin crowded /\ main[q] \notin Busy /\ pc[q] \in {"idle", "up"}
  BY <1>1 DEF Quiet
<1>3. main[q] \in {"out", "parsed", "open", "linux"} => socketPath[q] # n
  BY <1>1 DEF Ladder
<1>4. ASSUME pc[q] = "up"
      PROVE  mctp_if_name[q] # n /\ (main[q] \in {"device", "loop", "joining", "failed"} => socketPath[q] # n)
  <2>1. PICK m \in Names : iface[m] = q
    BY <1>1, <1>4 DEF ProcessInv, LinuxInv, With
  <2>2. m # n
    BY <2>1, LinuxAssumption
  <2>3. Mine(q)
    BY <1>2 DEF ServeInv
  <2>4. mctp_if_name[q] = m /\ (main[q] \in {"device", "loop", "joining", "failed"} => socketPath[q] \in {None, m})
    BY <1>4, <2>1, <2>3 DEF Mine
  <2> QED BY <1>1, <2>2, <2>4
<1>5. /\ main[q] \in {"device", "loop", "joining"} => pc[q] = "up"
      /\ main[q] = "failed" => pc[q] = "up" \/ socketPath[q] = None
  BY <1>1 DEF Ladder
<1>6. main[q] \in {"linux", "device", "loop", "joining", "failed"} \cup Busy \cup {"out", "parsed", "open"}
  BY <1>1, OpeningAtLinux
<1> QED BY <1>1, <1>2, <1>3, <1>4, <1>5, <1>6

\* A pass of the loop that looks for the interface finds that of the process and no
\* other: it ends with its name.
LEMMA ScanFinds ==
    ASSUME ServeInv, NEW p \in Procs \ crowded, initialize(p), pc[p] = "scan", NEW n \in Names, iface[n] = p
    PROVE  /\ mctp_if_name'[p] = n /\ pc'[p] \in {"scan", "program"} /\ UNCHANGED iface
           /\ pc'[p] = "scan" => before'[p] = before[p]
<1>1. /\ n \notin before[p] /\ list_mctp_devices \ {n} \subseteq before[p]
      /\ pc \in [Procs -> Places] /\ mctp_if_name \in [Procs -> Names \cup {None}] /\ wanted[p] = None
      /\ before \in [Procs -> SUBSET Names]
  BY DEF ServeInv, Mine, ProcessInv, LinuxInv, ServeTypes
<1>2. n \in list_mctp_devices /\ n # None
  BY AllListed, LinuxAssumption DEF ServeInv
<1>3. NewNames(p) = {n}
  BY <1>1, <1>2 DEF NewNames
<1>4. ScanTakes(p)
  <2>1. ~ScanNothing(p) /\ ~ScanRenames(p) /\ ~RenameFails(p)
    BY <1>1, <1>3 DEF ScanNothing, ScanRenames, RenameFails
  <2> QED BY <2>1 DEF initialize, goto, OpenPtyFails, SetDisciplineFails, SetDiscipline, Program, Attach, AttachFails
<1>5. mctp_if_name' = [mctp_if_name EXCEPT ![p] = n] /\ ScanEnds(p) /\ UNCHANGED iface
  BY <1>3, <1>4 DEF ScanTakes, kernel
<1>6. mctp_if_name'[p] = n
  BY <1>1, <1>5
<1> QED BY <1>1, <1>2, <1>5, <1>6 DEF ScanEnds, goto

\* What initialize() leads to, as long as nobody crowds the bridge.
LEMMA EndpointServed ==
    ASSUME ServeInv, NEW p \in Procs, Acts(p), ProcessInv', Ladder', EndpointOpens(p), p \notin crowded
    PROVE  Mine(p)' /\ Blamed(p)'
<1>1. /\ Frame(p) /\ MainFrame(p) /\ ServeTypes' /\ ServeTypes /\ ProcessInv /\ Rounds'
      /\ Quiet(p) /\ Mine(p) /\ Blamed(p) /\ pc \in [Procs -> Places]
  BY ActEffects DEF ServeInv, ProcessInv, LinuxInv
<1>2. main[p] = "linux" /\ UNCHANGED mainVars /\ Continues(p)
  BY DEF EndpointOpens
<1>3. main'[p] = "linux" /\ UNCHANGED <<main, closes, socketPath, sockFile>>
  BY <1>2 DEF mainVars
<1>4. pc'[p] \in {"idle", "close", "vanish"} => Mine(p)'
  BY <1>3 DEF Mine, With
<1>5. pc'[p] \notin {"idle", "close", "vanish"} => Blamed(p)'
  BY <1>3 DEF Blamed
<1>6. ASSUME Hindered(p) PROVE Blamed(p)'
  BY <1>6 DEF Blamed, Hindered
<1>7. ASSUME NEW n \in Names, Untouched(p, n) PROVE Untouched(p, n)'
  BY <1>1, <1>3, <1>7 DEF Untouched, Frame
<1>8. CASE OpenPtyFails(p) \/ SetDisciplineFails(p)
  <2>1. Hindered(p) /\ pc'[p] \in {"idle", "close"}
    BY <1>1, <1>8 DEF OpenPtyFails, SetDisciplineFails, goto, Hindered
  <2> QED BY <1>4, <1>6, <2>1
<1>9. CASE SetDiscipline(p)
  <2>1. PICK n \in Names : n = Lowest /\ iface[n] = None
    BY <1>9, LowestUnused DEF SetDiscipline, Unused
  <2>2. /\ pc[p] = "listed" /\ pc'[p] = "scan" /\ iface' = [iface EXCEPT ![n] = p]
        /\ UNCHANGED <<before, round, mctp_if_name>>
    BY <1>1, <1>9, <2>1 DEF SetDiscipline, goto
  <2>3. /\ iface = [m \in Names |-> iface[m]] /\ round[p] = 0 /\ before[p] = list_mctp_devices
        /\ p # None /\ \A m \in Names : iface[m] # p
    BY <1>1, <2>2, LinuxAssumption DEF ProcessInv, LinuxInv, NothingLeftBehind, ServeInv, Rounds, Mine
  <2>4. \A m \in Names : iface'[m] = IF m = n THEN p ELSE iface[m]
    BY <2>2, <2>3
  <2>5. n \notin before'[p] /\ list_mctp_devices' \ {n} \subseteq before'[p]
    BY <1>1, <2>1, <2>2, <2>3, <2>4, AllListed
  <2>6. Untouched(p, n)'
    BY <1>1, <1>3, <2>1, <2>2, OthersNamed DEF Untouched, Frame, Opening
  <2>7. \A m \in Names : iface'[m] = p => m = n
    BY <2>3, <2>4
  <2>8. Mine(p)'
    BY <1>3, <2>2, <2>3, <2>5, <2>6, <2>7 DEF Mine
  <2> QED BY <1>5, <2>2, <2>8
<1>10. CASE pc[p] = "scan" /\ initialize(p)
  <2>1. PICK n \in Names : iface[n] = p
    BY <1>1, <1>10 DEF ProcessInv, LinuxInv, With
  <2>2. /\ mctp_if_name'[p] = n /\ pc'[p] \in {"scan", "program"} /\ UNCHANGED iface
        /\ pc'[p] = "scan" => before'[p] = before[p]
    BY <1>10, <2>1, ScanFinds
  <2>3. \A m \in Names : iface'[m] = p => m = n
    BY <1>1, <2>1, <2>2 DEF ProcessInv, LinuxInv, NothingLeftBehind
  <2>4. n \notin before[p] /\ list_mctp_devices \ {n} \subseteq before[p] /\ Untouched(p, n)
    BY <1>1, <1>10, <2>1 DEF Mine, With
  <2>5. Untouched(p, n)' /\ list_mctp_devices' = list_mctp_devices
    BY <1>1, <1>7, <2>2, <2>4, AllListed
  <2>6. Mine(p)'
    BY <1>3, <2>2, <2>3, <2>4, <2>5 DEF Mine
  <2> QED BY <1>5, <2>2, <2>6
<1>11. CASE Program(p) \/ Attach(p)
  <2>1. /\ pc[p] \in {"program", "attach"} /\ pc'[p] \in {"program", "attach", "up"}
        /\ UNCHANGED <<iface, mctp_if_name>>
    BY <1>1, <1>11 DEF Program, Attach, goto, kernel
  <2>2. \A n \in Names : iface'[n] = p => mctp_if_name'[p] = n /\ Untouched(p, n)'
    BY <1>1, <1>7, <2>1 DEF Mine, With
  <2>3. Mine(p)'
    BY <1>3, <2>1, <2>2 DEF Mine
  <2> QED BY <1>5, <2>1, <2>3
<1>12. CASE AttachFails(p)
  <2>1. pc[p] = "attach" /\ pc'[p] = "close"
    BY <1>1, <1>12 DEF AttachFails, goto
  <2>2. PICK n \in Names : iface[n] = p
    BY <1>1, <2>1 DEF ProcessInv, LinuxInv, With
  <2>3. mctp_if_name[p] = n /\ label[n] = n /\ p # None
    BY <1>1, <2>1, <2>2, LinuxAssumption DEF Mine, ServeTypes
  <2>4. Called(mctp_if_name[p]) # {}
    BY <2>2, <2>3 DEF Called
  <2>5. Hindered(p)
    BY <1>12, <2>4 DEF AttachFails, Hindered
  <2> QED BY <1>4, <1>6, <2>1, <2>5
<1>13. CASE close(p)
  <2>1. pc[p] \in {"close", "vanish"} /\ pc'[p] \in {"vanish", "idle"}
    BY <1>1, <1>13 DEF close, ResetDiscipline, Vanished, StillThere, goto
  <2>2. Hindered(p)
    BY <1>1, <1>2, <2>1 DEF Blamed
  <2> QED BY <1>4, <1>6, <2>1, <2>2
<1>14. CASE ScanNothing(p) \/ ScanTakes(p) \/ ScanRenames(p) \/ RenameFails(p)
  <2>1. pc[p] = "scan"
    BY <1>14 DEF ScanNothing, ScanTakes, ScanRenames, RenameFails, ScanEnds, goto
  <2> QED BY <1>10, <1>14, <2>1 DEF initialize
<1> QED BY <1>2, <1>8, <1>9, <1>11, <1>12, <1>13, <1>14 DEF Continues, initialize

\* A step of a bridge itself, other than its end.
LEMMA OwnServed ==
    ASSUME ServeInv, NEW p \in Procs, Acts(p), ProcessInv', Ladder', p \notin crowded, main'[p] # "out"
    PROVE  Mine(p)' /\ Blamed(p)'
<1>1. /\ Frame(p) /\ MainFrame(p) /\ ServeTypes' /\ ServeTypes /\ ProcessInv /\ Mine(p) /\ Blamed(p)
      /\ pc \in [Procs -> Places] /\ main = [q \in Procs |-> main[q]]
      /\ closes \in [Procs -> Nat]
  BY ActEffects DEF ServeInv, ServeTypes, ProcessInv, ProcessTypes, LinuxInv
<1>2. /\ main'[p] \in {"device", "loop", "joining"} => pc'[p] = "up"
      /\ main'[p] = "failed" => pc'[p] = "up" \/ (pc'[p] = "idle" /\ socketPath'[p] = None)
  BY DEF Ladder
<1>3. pc'[p] \in {"idle", "close", "vanish"} => Mine(p)'
  BY <1>2 DEF Mine, With
<1>4. ASSUME UNCHANGED linuxVars, NEW n \in Names, iface'[n] = p
      PROVE  /\ pc'[p] = "scan" => /\ n \notin before'[p] /\ list_mctp_devices' \ {n} \subseteq before'[p]
                                   /\ round'[p] # 0 => mctp_if_name'[p] = n
             /\ pc'[p] \in {"program", "attach", "up"} => mctp_if_name'[p] = n
             /\ pc'[p] \in With => Untouched(p, n)'
  <2>1. /\ UNCHANGED <<pc, before, round, mctp_if_name, iface>> /\ list_mctp_devices' = list_mctp_devices
    BY <1>1, <1>4, AllListed DEF linuxVars, kernel
  <2>2. pc[p] \in With => Untouched(p, n)
    BY <1>1, <1>4, <2>1 DEF Mine
  <2>3. Untouched(p, n) => Untouched(p, n)'
    BY <1>1, <2>1 DEF Untouched, MainFrame
  <2> QED BY <1>1, <1>4, <2>1, <2>2, <2>3 DEF Mine
<1> USE DEF step
<1>5. CASE InstallHandlers(p) \/ Launch(p)
  <2>1. main'[p] \in {"parsed", "open"}
    BY <1>1, <1>5 DEF InstallHandlers, Launch
  <2>2. pc'[p] = "idle"
    BY <2>1 DEF Ladder
  <2> QED BY <1>3, <2>1, <2>2 DEF Blamed
<1>6. CASE signalHandler(p)
  <2>1. UNCHANGED <<linuxVars, main, closes, socketPath, sockFile>>
    BY <1>6 DEF signalHandler
  <2>2. UNCHANGED <<pc, before, iface>> /\ list_mctp_devices' = list_mctp_devices
    BY <1>1, <2>1, AllListed DEF linuxVars, kernel
  <2>3. Blamed(p)'
    BY <1>1, <2>1, <2>2 DEF Blamed, Hindered
  <2>4. Mine(p)'
    BY <1>1, <1>4, <2>1, <2>2 DEF Mine
  <2> QED BY <2>3, <2>4
<1>7. CASE OpenBegin(p)
  <2>1. /\ main'[p] = "linux" /\ pc'[p] = "listed" /\ before'[p] = list_mctp_devices /\ UNCHANGED iface
    BY <1>1, <1>7 DEF OpenBegin, Begin, goto, kernel, ServeTypes
  <2>2. list_mctp_devices' = list_mctp_devices
    BY <1>1, <2>1, AllListed
  <2>3. \A n \in Names : iface'[n] # p
    BY <2>1 DEF ProcessInv, LinuxInv, NothingLeftBehind
  <2> QED BY <2>1, <2>2, <2>3 DEF Mine, Blamed
<1>8. CASE EndpointOpens(p)
  BY <1>8, EndpointServed
<1>9. CASE EndpointFails(p) \/ SocketFails(p) \/ UsbFails(p) \/ DeviceFails(p)
  <2>1. PICK from \in {"open", "linux", "device"} : OpenFails(p, from)
    BY <1>9 DEF EndpointFails, SocketFails, UsbFails, DeviceFails
  <2>2. Hindered(p)
    BY <1>1, <1>9, OpenFailsKinds DEF EndpointFails, SocketFails, UsbFails, DeviceFails, Blamed, Hindered
  <2>3. CASE CloseBegin(p)
    <3>1. pc'[p] = "close"
      BY <1>1, <2>3 DEF CloseBegin, goto
    <3> QED BY <1>3, <2>2, <3>1 DEF Blamed, Hindered
  <2>4. CASE main' = [main EXCEPT ![p] = "failed"] /\ UNCHANGED linuxVars
    <3>1. main'[p] = "failed" /\ UNCHANGED <<pc, iface, before, socketPath>> /\ main[p] = from
      BY <1>1, <2>1, <2>4, OpenFailsKinds DEF linuxVars, kernel
    <3>2. \A n \in Names : iface[n] = p => socketPath[p] \in {None, n}
      <4>1. from \in {"open", "linux"} => socketPath[p] = None
        BY <3>1 DEF ServeInv, Ladder
      <4> QED BY <1>1, <3>1, <4>1 DEF Mine
    <3>3. pc'[p] # "listed"
      BY <3>1 DEF Ladder
    <3>4. Mine(p)'
      BY <1>4, <2>4, <3>1, <3>2, <3>3 DEF Mine
    <3> QED BY <2>2, <3>4 DEF Blamed, Hindered
  <2> QED BY <2>1, <2>3, <2>4, OpenFailsKinds
<1>10. CASE SocketOpens(p)
  <2>1. /\ main'[p] = "device" /\ pc[p] = "up" /\ UNCHANGED linuxVars
        /\ sockFile' = [sockFile EXCEPT ![mctp_if_name[p]] = p]
        /\ socketPath' = [socketPath EXCEPT ![p] = mctp_if_name[p]]
    BY <1>1, <1>10 DEF SocketOpens
  <2>2. UNCHANGED <<pc, iface, mctp_if_name>>
    BY <2>1 DEF linuxVars, kernel
  <2>3. \A n \in Names : iface'[n] = p => mctp_if_name[p] = n
    BY <1>1, <2>1, <2>2 DEF Mine
  <2>4. \A n \in Names : iface'[n] = p => sockFile'[n] = p /\ socketPath'[p] = n
    BY <1>1, <2>1, <2>3 DEF ServeTypes, ProcessInv, ProcessTypes
  <2>5. Mine(p)'
    BY <1>4, <2>1, <2>2, <2>4 DEF Mine
  <2> QED BY <2>1, <2>5 DEF Blamed
<1>11. CASE DeviceOpens(p) \/ LoopEnds(p)
  <2>1. /\ main[p] \in {"device", "loop"} /\ main'[p] \in {"loop", "joining"}
        /\ UNCHANGED <<linuxVars, socketPath, sockFile>>
    BY <1>1, <1>11 DEF DeviceOpens, LoopEnds
  <2>2. UNCHANGED <<pc, iface>> /\ pc[p] = "up"
    BY <1>2, <2>1 DEF linuxVars, kernel
  <2>3. \A n \in Names : iface'[n] = p => sockFile'[n] = p /\ socketPath'[p] = n
    BY <1>1, <2>1, <2>2 DEF Mine
  <2>4. Mine(p)'
    BY <1>4, <2>1, <2>2, <2>3 DEF Mine
  <2> QED BY <2>1, <2>4 DEF Blamed
<1>12. CASE DispatchJoined(p)
  <2>1. closes'[p] = 1 /\ main'[p] = "closing" /\ pc'[p] = "close"
    BY <1>1, <1>12 DEF DispatchJoined, Closing, CloseBegin, goto
  <2> QED BY <1>3, <2>1 DEF Blamed
<1>13. CASE UsbStops(p)
  <2>1. main[p] = "failed" /\ pc'[p] = "close"
    BY <1>1, <1>13 DEF UsbStops, Closing, CloseBegin, goto
  <2>2. Hindered(p)
    BY <1>1, <2>1 DEF Blamed
  <2> QED BY <1>3, <2>1, <2>2 DEF Blamed, Hindered
<1>14. CASE UsbCloses(p)
  <2>1. main[p] = "closing" /\ UNCHANGED <<main, closes, linuxVars>> /\ pc[p] = "idle"
    BY <1>14 DEF UsbCloses
  <2>2. pc'[p] = "idle"
    BY <2>1 DEF linuxVars
  <2> QED BY <1>1, <1>3, <2>1, <2>2 DEF Blamed, Hindered
<1>15. CASE EndpointCloses(p)
  <2>1. pc'[p] \in {"vanish", "idle"}
    BY <1>1, <1>15 DEF EndpointCloses, close, ResetDiscipline, Vanished, StillThere, goto
  <2>2. main[p] \in {"closing", "members"} /\ UNCHANGED <<main, closes>>
    BY <1>15 DEF EndpointCloses, mainVars
  <2> QED BY <1>1, <1>3, <2>1, <2>2 DEF Blamed, Hindered
<1>16. CASE CloseEnds(p)
  <2>1. main'[p] \in {"closing", "destroyed"} /\ pc'[p] \in {"idle", "close"}
    BY <1>1, <1>16 DEF CloseEnds, CloseBegin, linuxVars, goto
  <2>2. closes[p] \in {1, 2} /\ closes'[p] = closes[p] - 1
    BY <1>1, <1>16 DEF CloseEnds
  <2>3. closes'[p] # 2
    BY <2>2
  <2> QED BY <1>3, <2>1, <2>3 DEF Blamed
<1>17. CASE DestroyMembers(p)
  <2>1. main'[p] = "members" /\ pc'[p] = "close"
    BY <1>1, <1>17 DEF DestroyMembers, CloseBegin, goto
  <2> QED BY <1>3, <2>1 DEF Blamed
<1>18. CASE Exit(p) \/ Die(p)
  BY <1>18, EndEffects
<1> QED BY <1>5, <1>6, <1>7, <1>8, <1>9, <1>10, <1>11, <1>12, <1>15, <1>16, <1>17, <1>18, <1>13, <1>14 DEF Acts, Run

LEMMA ServeInitInv == ProcessInit => ServeInv
<1> SUFFICES ASSUME ProcessInit PROVE ServeInv
  OBVIOUS
<1>1. ProcessInv
  BY ProcessInitInv
<1>2. ServeTypes /\ Rounds /\ Ladder
  BY DEF ProcessInit, Init, ServeTypes, Rounds, Ladder, Busy
<1>3. \A p \in Procs : Quiet(p) /\ Mine(p) /\ Blamed(p)
  BY LinuxAssumption DEF ProcessInit, Init, Quiet, Mine, Blamed
<1> QED BY <1>1, <1>2, <1>3 DEF ServeInv, ProcessInit, Init

LEMMA ServeStep == ServeInv /\ [ProcessNext]_processVars => ServeInv'
<1> SUFFICES ASSUME ServeInv, [ProcessNext]_processVars PROVE ServeInv'
  OBVIOUS
<1>1. ProcessInv'
  BY ProcessStep DEF ServeInv
<1>2. CASE UNCHANGED processVars
  <2>1. UNCHANGED <<pc, wanted, before, round, mctp_if_name, iface, label, disturbed, main, closes, socketPath, sockFile, crowded>>
    BY <1>2 DEF processVars, vars, linuxVars, kernel, mainVars
  <2>2. ServeTypes' /\ Rounds' /\ Ladder'
    BY <2>1 DEF ServeInv, ServeTypes, Rounds, Ladder
  <2>3. list_mctp_devices' = list_mctp_devices
    BY <2>1 DEF list_mctp_devices
  <2>4. \A p \in Procs : /\ Quiet(p) => Quiet(p)'
                         /\ Mine(p) => Mine(p)'
                         /\ Blamed(p) => Blamed(p)'
    BY <2>1, <2>3 DEF Quiet, Mine, Untouched, Blamed, Hindered
  <2> QED BY <1>1, <2>1, <2>2, <2>4 DEF ServeInv
<1>3. ASSUME NEW r \in Procs, Acts(r), Watch PROVE ServeInv'
  <2>1. ServeTypes' /\ Rounds'
    BY <1>3, ActEffects
  <2>2. Ladder'
    BY <1>3, LadderStep
  <2>3. /\ disturbed' \subseteq crowded' /\ crowded' \subseteq Procs
        /\ \A p \in Procs \ crowded' : Quiet(p)' /\ (main'[p] # "out" => p \notin crowded)
    BY <1>1, <1>3, <2>2, WatchEffects
  <2>4. ASSUME NEW p \in Procs \ crowded' PROVE Mine(p)' /\ Blamed(p)'
    <3>1. CASE main'[p] = "out"
      <4>1. pc'[p] = "idle"
        BY <1>1, <3>1 DEF ProcessInv
      <4> QED BY <3>1, <4>1 DEF Mine, Blamed, With
    <3>2. CASE main'[p] # "out" /\ p = r
      BY <1>1, <1>3, <2>2, <2>3, <3>2, OwnServed
    <3>3. CASE main'[p] # "out" /\ p # r
      BY <1>1, <1>3, <2>2, <3>3, OtherServed
    <3> QED BY <3>1, <3>2, <3>3
  <2> QED BY <1>1, <2>1, <2>2, <2>3, <2>4 DEF ServeInv
<1> QED BY <1>2, <1>3 DEF ProcessNext, BridgeStep, Outside, Acts

LEMMA ServeInvImplies == ServeInv => ServedIfUncrowded /\ StartsUnlessHindered
<1> SUFFICES ASSUME ServeInv, NEW p \in Procs \ crowded
             PROVE  /\ main[p] \in {"device", "loop", "joining"} => GoesByOwnName(p) /\ sockFile[mctp_if_name[p]] = p
                    /\ main[p] = "failed" \/ (main[p] = "closing" /\ closes[p] = 2) => Hindered(p)
  BY DEF ServedIfUncrowded, StartsUnlessHindered, Hindered
<1>1. Mine(p) /\ Blamed(p) /\ ProcessInv /\ Ladder /\ ServeTypes
  BY DEF ServeInv
<1>2. ASSUME main[p] \in {"device", "loop", "joining"} PROVE GoesByOwnName(p) /\ sockFile[mctp_if_name[p]] = p
  <2>1. pc[p] = "up"
    BY <1>1, <1>2 DEF Ladder
  <2>2. PICK n \in Names : iface[n] = p
    BY <1>1, <2>1 DEF ProcessInv, LinuxInv, With
  <2>3. mctp_if_name[p] = n /\ sockFile[n] = p
    BY <1>1, <1>2, <2>1, <2>2 DEF Mine
  <2>4. Called(n) = {n}
    BY <1>1, <2>2, LinuxAssumption DEF Called, ServeTypes
  <2> QED BY <2>2, <2>3, <2>4 DEF GoesByOwnName
<1> QED BY <1>1, <1>2 DEF Blamed

\* A bridge that nobody crowded while it opened runs behind the interface it goes by
\* and behind the socket file of that name, for any number of processes, names and
\* loops, whatever the others do afterwards: fail, exit, crash and start again.
THEOREM ProcessServed == ProcessSpec => []ServedIfUncrowded
BY ServeInvImplies, ServeInitInv, ServeStep, PTL DEF ProcessSpec

\* What crashed and closed processes leave behind never makes open() of such a bridge
\* fail: it fails only for a call that may fail by itself.
THEOREM ProcessStarts == ProcessSpec => []StartsUnlessHindered
BY ServeInvImplies, ServeInitInv, ServeStep, PTL DEF ProcessSpec

=============================================================================
