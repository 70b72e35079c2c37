------------------------- MODULE VMFailover_proofs -------------------------
(***************************************************************************)
(* Theorems about VMFailover, for any hosts, VMs, reapers, requests and    *)
(* bounds: its type invariant, that a rental is settled once, who is paid, *)
(* what sets a stopped VM running again, that the booking follows the VM,  *)
(* and that a host is neither oversold nor left with an orphaned unit.  A  *)
(* theorem that needs a hypothesis names it: the handlers it leaves out    *)
(* (TLC finds the property violated with them) or that there is one        *)
(* reaper.                                                                 *)
(*                                                                         *)
(* The lemmas ...Effect say, action by action, what a step does to its     *)
(* worker, and that it keeps the types; the others cite them.  Capacity    *)
(* rests on CapInv, which adds to NeverOversold the units that a crash     *)
(* orphans: a step moves a unit between the free ones, the bookings, the   *)
(* workers in the middle of something and the orphans of its host.         *)
(***************************************************************************)
EXTENDS VMFailover, FiniteSetTheorems, TLAPS

-----------------------------------------------------------------------------
(* Types *)

(* What a worker has in hand, by the step it is about to take. *)
Loaded(w) ==
  /\ pc[w] \in {"pick", "move", "lost", "book", "orphan", "orphan_stop", "free_old", "ex_free",
               "ex_stop", "settle", "release", "free", "register"} => loc[w].vm \in VMs
  /\ pc[w] \in {"vms", "pick", "move", "lost", "book", "orphan", "orphan_stop", "free_old", "rf",
               "rf_free", "ex_free", "ex_stop", "settle", "release", "free"} =>
       loc[w].old \in Hosts
  /\ pc[w] \in {"move", "lost", "book", "orphan", "free_old"} =>
       loc[w].new \in Hosts /\ loc[w].new # loc[w].old
TypeInv == TypeOK /\ \A w \in Workers : Loaded(w)

(* Each label is one.                                                      *)
LEMMA LabelNames ==
  /\ "idle" \in Labels /\ "mark" \in Labels /\ "hosts" \in Labels /\ "vms" \in Labels
  /\ "pick" \in Labels /\ "move" \in Labels /\ "lost" \in Labels /\ "book" \in Labels
  /\ "orphan" \in Labels /\ "orphan_stop" \in Labels /\ "free_old" \in Labels
  /\ "rf_scan" \in Labels /\ "rf_hosts" \in Labels /\ "rf" \in Labels /\ "rf_free" \in Labels
  /\ "ex_scan" \in Labels /\ "ex" \in Labels /\ "ex_free" \in Labels /\ "ex_stop" \in Labels
  /\ "settle" \in Labels /\ "release" \in Labels /\ "free" \in Labels /\ "register" \in Labels
BY DEF Labels

LEMMA NoLocalsType == NoLocals \in Locals
BY DEF NoLocals, Locals, Running

LEMMA LocalType ==
  ASSUME TypeOK, NEW w \in Workers
  PROVE  /\ loc[w] \in Locals /\ loc[w].vm \in VMs \cup {NoHost}
         /\ loc[w].old \in Hosts \cup {NoHost} /\ loc[w].new \in Hosts \cup {NoHost}
         /\ loc[w].dead \subseteq Hosts /\ loc[w].todo \subseteq VMs
BY DEF TypeOK, Locals

LEMMA RowType ==
  ASSUME TypeOK, NEW v \in VMs
  PROVE  /\ vm[v] \in VMRow /\ vm[v].spec \in Hosts
         /\ vm[v].status \in Running \cup {"stopped", "failed"}
         /\ booking[v] \in BookingRow /\ booking[v].spec \in Hosts /\ booking[v].live \in BOOLEAN
BY DEF TypeOK, VMRow, BookingRow

(* A worker w takes a step. *)
StepOf(w) ==
  /\ pc' \in [Workers -> Labels] /\ loc' \in [Workers -> Locals]
  /\ \A u \in Workers \ {w} : pc'[u] = pc[u] /\ loc'[u] = loc[u]

LEMMA GotoType ==
  ASSUME TypeOK, NEW w \in Workers, NEW from, NEW to \in Labels, Goto(w, from, to)
  PROVE  StepOf(w) /\ pc[w] = from /\ pc'[w] = to /\ loc'[w] = loc[w]
BY LocalType DEF TypeOK, Goto, StepOf

LEMMA GotoWithType ==
  ASSUME TypeOK, NEW w \in Workers, NEW from, NEW to \in Labels, NEW l \in Locals,
         GotoWith(w, from, to, l)
  PROVE  StepOf(w) /\ pc[w] = from /\ pc'[w] = to /\ loc'[w] = l
BY DEF TypeOK, GotoWith, StepOf

LEMMA FinishType ==
  ASSUME TypeOK, NEW w \in Workers, NEW from, Finish(w, from)
  PROVE  StepOf(w) /\ pc[w] = from /\ pc'[w] = "idle" /\ loc'[w] = NoLocals
BY GotoWithType, NoLocalsType, LabelNames DEF Finish

LEMMA TakeVMType ==
  ASSUME TypeOK, NEW w \in Workers, NEW v \in VMs, TakeVM(w, v)
  PROVE  /\ loc' \in [Workers -> Locals] /\ \A u \in Workers \ {w} : loc'[u] = loc[u]
         /\ loc'[w].vm = v /\ loc'[w].old = loc[w].old /\ loc'[w].new = loc[w].new
         /\ loc'[w].todo = loc[w].todo \ {v} /\ loc'[w].dead = loc[w].dead
<1>1. loc[w] \in Locals
  BY LocalType
<1>2. loc' = [loc EXCEPT ![w] = [loc[w] EXCEPT !.vm = v, !.todo = loc[w].todo \ {v}]]
  BY <1>1 DEF TakeVM, Locals, TypeOK
<1> DEFINE l == [loc[w] EXCEPT !.vm = v, !.todo = loc[w].todo \ {v}]
<1>3. l \in Locals /\ l.vm = v /\ l.old = loc[w].old /\ l.new = loc[w].new
      /\ l.todo = loc[w].todo \ {v} /\ l.dead = loc[w].dead
  BY <1>1 DEF Locals
<1> HIDE DEF l
<1> QED BY <1>2, <1>3 DEF l, TypeOK

LEMMA ReleaseUnitType ==
  ASSUME TypeOK, NEW h, ReleaseUnit(h)
  PROVE  avail' \in [Hosts -> 0 .. Units]
<1>1. Units \in Nat /\ avail \in [Hosts -> 0 .. Units]
  BY BoundAssumption DEF TypeOK
<1>2. avail' = [k \in Hosts |-> IF k = h THEN IF avail[k] < Units THEN avail[k] + 1 ELSE avail[k]
                               ELSE avail[k]]
  BY <1>1 DEF ReleaseUnit
<1>3. \A k \in Hosts : (IF avail[k] < Units THEN avail[k] + 1 ELSE avail[k]) \in 0 .. Units
  BY <1>1
<1> QED BY <1>1, <1>2, <1>3

LEMMA SetVMType ==
  ASSUME TypeOK, NEW v, NEW s \in Running \cup {"stopped", "failed"}, SetVM(v, s)
  PROVE  /\ vm' \in [VMs -> VMRow]
         /\ \A u \in VMs : vm'[u].spec = vm[u].spec
         /\ \A u \in VMs \ {v} : vm'[u] = vm[u]
         /\ v \in VMs => vm'[v].status = s
<1>1. vm' = [vm EXCEPT ![v] = [vm[v] EXCEPT !.status = s]]
  BY DEF SetVM
<1>2. CASE v \in VMs
  <2>1. [vm[v] EXCEPT !.status = s] \in VMRow
    BY <1>2, RowType DEF VMRow
  <2>2. /\ [vm[v] EXCEPT !.status = s].spec = vm[v].spec
        /\ [vm[v] EXCEPT !.status = s].status = s
    BY <1>2, RowType DEF VMRow
  <2> QED BY <1>1, <1>2, <2>1, <2>2 DEF TypeOK
<1>3. CASE v \notin VMs
  BY <1>1, <1>3 DEF TypeOK
<1> QED BY <1>2, <1>3

LEMMA SettlesType ==
  ASSUME TypeOK, NEW v \in VMs, NEW p \in Hosts \cup {NoHost}, Settles(v, p)
  PROVE  /\ booking' \in [VMs -> BookingRow] /\ paid' \in [VMs -> Hosts \cup {NoHost}]
         /\ booking[v].live /\ ~booking'[v].live /\ paid'[v] = p
         /\ \A u \in VMs : booking'[u].spec = booking[u].spec
         /\ \A u \in VMs \ {v} : booking'[u] = booking[u] /\ paid'[u] = paid[u]
BY DEF TypeOK, Settles, BookingRow

-----------------------------------------------------------------------------
(* What each step does.  The reaper's steps that only read: *)

Quiet == UNCHANGED <<avail, vm, booking, paid, count>>

(* A step of w keeps the types if w ends up with what its next step needs. *)
LEMMA StepType ==
  ASSUME TypeInv, NEW w \in Workers, StepOf(w), Loaded(w)',
         online' \in [Hosts -> BOOLEAN], fresh' \in [Hosts -> BOOLEAN],
         avail' \in [Hosts -> 0 .. Units], vm' \in [VMs -> VMRow],
         booking' \in [VMs -> BookingRow], elapsed' \in [VMs -> BOOLEAN],
         paid' \in [VMs -> Hosts \cup {NoHost}],
         count' \in [silences : Nat, registers : Nat, crashes : Nat]
  PROVE  TypeInv'
<1>1. ASSUME NEW u \in Workers \ {w} PROVE Loaded(u)'
  BY <1>1 DEF TypeInv, Loaded, StepOf
<1> QED BY <1>1 DEF TypeInv, TypeOK, StepOf

LEMMA ScanEffect ==
  ASSUME TypeInv, NEW w \in Workers, ReapScan(w) \/ RefundScan(w) \/ ExpireScan(w)
  PROVE  /\ TypeInv' /\ StepOf(w) /\ Quiet
         /\ pc[w] \in {"idle", "rf_scan", "ex_scan"} /\ pc'[w] \in {"mark", "rf_hosts", "ex"}
<1>0. TypeOK /\ {"mark", "rf_hosts", "ex"} \subseteq Labels
  BY LabelNames DEF TypeInv
<1>1. /\ \A D \in SUBSET Hosts : [NoLocals EXCEPT !.dead = D] \in Locals
      /\ \A S \in SUBSET VMs : [NoLocals EXCEPT !.todo = S] \in Locals
  BY NoLocalsType DEF Locals
<1>2. PICK from \in {"idle", "rf_scan", "ex_scan"}, to \in {"mark", "rf_hosts", "ex"},
           l \in Locals : GotoWith(w, from, to, l)
  BY <1>1 DEF ReapScan, RefundScan, ExpireScan
<1>3. StepOf(w) /\ pc[w] = from /\ pc'[w] = to
  BY <1>0, <1>2, GotoWithType
<1>4. /\ UNCHANGED <<hostVars, avail, vm, booking, elapsed, paid, count>> /\ Quiet
  BY DEF ReapScan, RefundScan, ExpireScan, Quiet
<1>5. Loaded(w)'
  BY <1>3 DEF Loaded
<1> QED BY <1>0, <1>3, <1>4, <1>5, StepType DEF TypeInv, TypeOK, hostVars

LEMMA LoopEffect ==
  ASSUME TypeInv, NEW w \in Workers,
         \/ ReapMark(w) \/ HostsDone(w) \/ VMsDone(w) \/ RefundHostsDone(w) \/ RefundsDone(w)
         \/ CycleDone(w)
  PROVE  /\ TypeInv' /\ StepOf(w) /\ Quiet
         /\ pc[w] \in {"mark", "hosts", "vms", "rf_hosts", "rf", "ex"}
         /\ pc'[w] \in {"hosts", "rf_scan", "ex_scan", "rf_hosts", "idle"}
<1>0. TypeOK /\ {"hosts", "rf_scan", "ex_scan", "rf_hosts", "idle"} \subseteq Labels
  BY LabelNames DEF TypeInv
<1>1. PICK from \in {"mark", "hosts", "vms", "rf_hosts", "rf", "ex"},
           to \in {"hosts", "rf_scan", "ex_scan", "rf_hosts", "idle"} :
        Goto(w, from, to) \/ GotoWith(w, from, to, NoLocals)
  BY DEF ReapMark, HostsDone, VMsDone, RefundHostsDone, RefundsDone, CycleDone, Finish
<1>2. StepOf(w) /\ pc[w] = from /\ pc'[w] = to
  BY <1>0, <1>1, GotoType, GotoWithType, NoLocalsType
<1>3. Quiet /\ UNCHANGED <<fresh, elapsed>> /\ online' \in [Hosts -> BOOLEAN]
  BY <1>0 DEF ReapMark, HostsDone, VMsDone, RefundHostsDone, RefundsDone, CycleDone, Quiet,
              hostVars, TypeOK
<1>4. Loaded(w)'
  BY <1>2 DEF Loaded
<1> QED BY <1>0, <1>2, <1>3, <1>4, StepType DEF TypeInv, TypeOK, Quiet

LEMMA NextHostEffect ==
  ASSUME TypeInv, NEW w \in Workers, NextHost(w)
  PROVE  TypeInv' /\ StepOf(w) /\ Quiet /\ pc[w] = "hosts" /\ pc'[w] = "vms"
<1>0. TypeOK /\ loc[w].dead \subseteq Hosts /\ "vms" \in Labels
  BY LabelNames, LocalType DEF TypeInv
<1>1. PICK d \in loc[w].dead :
        GotoWith(w, "hosts", "vms",
                 [NoLocals EXCEPT !.dead = loc[w].dead \ {d}, !.old = d,
                                  !.todo = {v \in VMs : vm[v].spec = d /\ VMLive(v)}])
  BY DEF NextHost
<1> DEFINE l == [NoLocals EXCEPT !.dead = loc[w].dead \ {d}, !.old = d,
                                 !.todo = {v \in VMs : vm[v].spec = d /\ VMLive(v)}]
<1>2. l \in Locals /\ l.old = d /\ d \in Hosts
  BY <1>0, NoLocalsType DEF Locals
<1>3. StepOf(w) /\ pc[w] = "hosts" /\ pc'[w] = "vms" /\ loc'[w] = l
  BY <1>0, <1>1, <1>2, GotoWithType
<1>4. Loaded(w)' /\ Quiet
  BY <1>2, <1>3 DEF Loaded, NextHost, Quiet
<1> QED BY <1>0, <1>3, <1>4, StepType DEF TypeInv, TypeOK, NextHost, hostVars

LEMMA RefundHostEffect ==
  ASSUME TypeInv, NEW w \in Workers, RefundHost(w)
  PROVE  /\ TypeInv' /\ StepOf(w) /\ Quiet /\ pc[w] = "rf_hosts" /\ pc'[w] = "rf"
         /\ \A v \in loc'[w].todo : booking[v].spec = loc'[w].old
<1>0. TypeOK /\ loc[w].dead \subseteq Hosts /\ "rf" \in Labels
  BY LabelNames, LocalType DEF TypeInv
<1>1. PICK d \in loc[w].dead :
        GotoWith(w, "rf_hosts", "rf",
                 [NoLocals EXCEPT !.dead = loc[w].dead \ {d}, !.old = d,
                                  !.todo = {v \in VMs : booking[v].spec = d /\ booking[v].live}])
  BY DEF RefundHost
<1> DEFINE l == [NoLocals EXCEPT !.dead = loc[w].dead \ {d}, !.old = d,
                                 !.todo = {v \in VMs : booking[v].spec = d /\ booking[v].live}]
<1>2. /\ l \in Locals /\ l.old = d /\ d \in Hosts
      /\ l.todo = {v \in VMs : booking[v].spec = d /\ booking[v].live}
  BY <1>0, NoLocalsType DEF Locals
<1>3. StepOf(w) /\ pc[w] = "rf_hosts" /\ pc'[w] = "rf" /\ loc'[w] = l
  BY <1>0, <1>1, <1>2, GotoWithType
<1>4. Loaded(w)' /\ Quiet
  BY <1>2, <1>3 DEF Loaded, RefundHost, Quiet
<1> QED BY <1>0, <1>2, <1>3, <1>4, StepType DEF TypeInv, TypeOK, RefundHost, hostVars

-----------------------------------------------------------------------------
(* The steps of a failover *)

LEMMA FailoverBeginEffect ==
  ASSUME TypeInv, NEW w \in Workers, NEW v \in VMs, FailoverBegin(w, v)
  PROVE  /\ TypeInv' /\ StepOf(w) /\ UNCHANGED <<avail, booking, paid, count>>
         /\ pc[w] = "vms" /\ loc'[w].vm = v
         /\ \/ pc'[w] = "pick" /\ booking[v].live /\ vm' = vm
            \/ pc'[w] = "vms" /\ SetVM(v, "stopped")
<1>0. TypeOK /\ loc[w].old \in Hosts /\ pc[w] = "vms" /\ {"pick", "vms"} \subseteq Labels
  BY LabelNames DEF TypeInv, Loaded, FailoverBegin
<1>1. /\ StepOf(w) /\ loc'[w].vm = v /\ loc'[w].old = loc[w].old /\ pc'[w] \in {"pick", "vms"}
      /\ \/ pc'[w] = "pick" /\ booking[v].live /\ vm' = vm
         \/ pc'[w] = "vms" /\ SetVM(v, "stopped")
  BY <1>0, TakeVMType DEF FailoverBegin, StepOf, TypeOK
<1>2. vm' \in [VMs -> VMRow]
  BY <1>0, <1>1, SetVMType DEF TypeOK
<1>3. Loaded(w)'
  BY <1>0, <1>1 DEF Loaded
<1> QED BY <1>0, <1>1, <1>2, <1>3, StepType DEF TypeInv, TypeOK, FailoverBegin, hostVars

LEMMA FailoverPickEffect ==
  ASSUME TypeInv, NEW w \in Workers, FailoverPick(w)
  PROVE  /\ TypeInv' /\ StepOf(w) /\ UNCHANGED <<avail, booking, paid, count>>
         /\ pc[w] = "pick" /\ loc'[w].vm = loc[w].vm /\ loc'[w].old = loc[w].old
         /\ \/ pc'[w] = "vms" /\ SetVM(loc[w].vm, "failed")
            \/ pc'[w] = "move" /\ vm' = vm
<1>0. /\ TypeOK /\ loc[w].old \in Hosts /\ loc[w].vm \in VMs /\ pc[w] = "pick"
      /\ {"move", "vms"} \subseteq Labels /\ loc[w] \in Locals
  BY LabelNames, LocalType DEF TypeInv, Loaded, FailoverPick
<1>1. CASE SetVM(loc[w].vm, "failed") /\ Goto(w, "pick", "vms")
  <2>1. /\ StepOf(w) /\ pc'[w] = "vms" /\ loc'[w] = loc[w] /\ vm' \in [VMs -> VMRow]
    BY <1>0, <1>1, GotoType, SetVMType
  <2>2. Loaded(w)'
    BY <1>0, <2>1 DEF Loaded
  <2> QED BY <1>0, <1>1, <2>1, <2>2, StepType DEF TypeInv, TypeOK, FailoverPick, hostVars
<1>2. CASE \E h \in Candidates(w) : GotoWith(w, "pick", "move", [loc[w] EXCEPT !.new = h])
           /\ UNCHANGED vm
  <2>1. PICK h \in Candidates(w) : GotoWith(w, "pick", "move", [loc[w] EXCEPT !.new = h])
    BY <1>2
  <2>2. h \in Hosts /\ h # loc[w].old
    BY DEF Candidates
  <2> DEFINE l == [loc[w] EXCEPT !.new = h]
  <2>3. l \in Locals /\ l.vm = loc[w].vm /\ l.old = loc[w].old /\ l.new = h
    BY <1>0, <2>2 DEF Locals
  <2>4. StepOf(w) /\ pc'[w] = "move" /\ loc'[w] = l
    BY <1>0, <2>1, <2>3, GotoWithType
  <2>5. Loaded(w)'
    BY <1>0, <2>2, <2>3, <2>4 DEF Loaded
  <2> QED BY <1>0, <1>2, <2>3, <2>4, <2>5, StepType DEF TypeInv, TypeOK, FailoverPick, hostVars
<1> QED BY <1>1, <1>2 DEF FailoverPick

LEMMA FailoverMoveEffect ==
  ASSUME TypeInv, NEW w \in Workers, FailoverMove(w)
  PROVE  /\ TypeInv' /\ StepOf(w) /\ UNCHANGED <<booking, paid, count>>
         /\ pc[w] = "move" /\ loc'[w] = loc[w]
         /\ \/ avail' = avail /\ pc'[w] = "vms" /\ SetVM(loc[w].vm, "failed")
            \/ /\ avail[loc[w].new] > 0
               /\ avail' = [avail EXCEPT ![loc[w].new] = @ - 1]
               /\ \/ /\ pc'[w] = "book" /\ vm[loc[w].vm].spec = loc[w].old /\ VMLive(loc[w].vm)
                     /\ vm' = [vm EXCEPT ![loc[w].vm] = [status |-> "migrating",
                                                         spec |-> loc[w].new]]
                  \/ pc'[w] = "lost" /\ vm' = vm
<1>0. /\ TypeOK /\ loc[w].old \in Hosts /\ loc[w].vm \in VMs /\ pc[w] = "move"
      /\ loc[w].new \in Hosts /\ loc[w].new # loc[w].old
      /\ {"book", "lost", "vms"} \subseteq Labels
  BY LabelNames DEF TypeInv, Loaded, FailoverMove
<1>1. /\ StepOf(w) /\ loc'[w] = loc[w] /\ pc'[w] \in {"book", "lost", "vms"}
      /\ \/ avail' = avail /\ pc'[w] = "vms" /\ SetVM(loc[w].vm, "failed")
         \/ /\ avail[loc[w].new] > 0
            /\ avail' = [avail EXCEPT ![loc[w].new] = @ - 1]
            /\ \/ /\ pc'[w] = "book" /\ vm[loc[w].vm].spec = loc[w].old /\ VMLive(loc[w].vm)
                  /\ vm' = [vm EXCEPT ![loc[w].vm] = [status |-> "migrating",
                                                      spec |-> loc[w].new]]
               \/ pc'[w] = "lost" /\ vm' = vm
  BY <1>0, GotoType DEF FailoverMove
<1>2. Units \in Nat
  BY BoundAssumption
<1>3. avail' \in [Hosts -> 0 .. Units]
  BY <1>0, <1>1, <1>2 DEF TypeOK
<1>4. [status |-> "migrating", spec |-> loc[w].new] \in VMRow
  BY <1>0 DEF VMRow, Running
<1>5. vm' \in [VMs -> VMRow]
  BY <1>0, <1>1, <1>4, SetVMType DEF TypeOK
<1>6. Loaded(w)'
  BY <1>0, <1>1 DEF Loaded
<1> QED BY <1>0, <1>1, <1>3, <1>5, <1>6, StepType DEF TypeInv, TypeOK, FailoverMove, hostVars

LEMMA FailoverBookEffect ==
  ASSUME TypeInv, NEW w \in Workers, FailoverBook(w)
  PROVE  /\ TypeInv' /\ StepOf(w) /\ UNCHANGED <<avail, vm, paid, count>>
         /\ pc[w] = "book" /\ loc'[w] = loc[w]
         /\ \/ /\ pc'[w] = "free_old" /\ booking[loc[w].vm].live
               /\ booking' = [booking EXCEPT ![loc[w].vm].spec = loc[w].new]
            \/ pc'[w] = "orphan" /\ ~booking[loc[w].vm].live /\ booking' = booking
<1>0. /\ TypeOK /\ loc[w].old \in Hosts /\ loc[w].vm \in VMs /\ pc[w] = "book"
      /\ loc[w].new \in Hosts /\ loc[w].new # loc[w].old
      /\ {"free_old", "orphan"} \subseteq Labels
  BY LabelNames DEF TypeInv, Loaded, FailoverBook
<1>1. /\ StepOf(w) /\ loc'[w] = loc[w] /\ pc'[w] \in {"free_old", "orphan"}
      /\ \/ /\ pc'[w] = "free_old" /\ booking[loc[w].vm].live
            /\ booking' = [booking EXCEPT ![loc[w].vm].spec = loc[w].new]
         \/ pc'[w] = "orphan" /\ ~booking[loc[w].vm].live /\ booking' = booking
  BY <1>0, GotoType DEF FailoverBook
<1>2. booking' \in [VMs -> BookingRow]
  BY <1>0, <1>1 DEF TypeOK, BookingRow
<1>3. Loaded(w)'
  BY <1>0, <1>1 DEF Loaded
<1> QED BY <1>0, <1>1, <1>2, <1>3, StepType DEF TypeInv, TypeOK, FailoverBook, hostVars

(* The steps that give a unit back. *)
LEMMA FreeEffect ==
  ASSUME TypeInv, NEW w \in Workers,
         \/ FailoverLost(w) \/ FailoverOrphan(w) \/ FailoverFreeOld(w) \/ RefundFree(w)
         \/ ExpireFree(w) \/ FreeUnit(w)
  PROVE  /\ TypeInv' /\ StepOf(w) /\ UNCHANGED <<vm, booking, paid, count>>
         /\ loc'[w] \in {loc[w], NoLocals}
         /\ pc'[w] \in {"rf", "ex_stop", "orphan_stop"} => loc'[w] = loc[w]
         /\ \/ /\ pc[w] \in {"lost", "orphan"} /\ ReleaseUnit(loc[w].new)
               /\ loc[w].new \in Hosts /\ loc[w].vm \in VMs
               /\ pc'[w] = IF pc[w] = "lost" THEN "vms" ELSE "orphan_stop"
            \/ /\ pc[w] \in {"free_old", "rf_free", "ex_free", "free"}
               /\ ReleaseUnit(loc[w].old) /\ loc[w].old \in Hosts
               /\ pc'[w] = CASE pc[w] = "free_old" -> "vms" [] pc[w] = "rf_free" -> "rf"
                             [] pc[w] = "ex_free" -> "ex_stop" [] pc[w] = "free" -> "idle"
<1>0. TypeOK /\ {"vms", "orphan_stop", "rf", "ex_stop", "idle"} \subseteq Labels /\ Loaded(w)
  BY LabelNames DEF TypeInv
<1>1. /\ StepOf(w) /\ loc'[w] \in {loc[w], NoLocals} /\ (pc[w] # "free" => loc'[w] = loc[w])
      /\ \/ /\ pc[w] \in {"lost", "orphan"} /\ ReleaseUnit(loc[w].new)
            /\ pc'[w] = IF pc[w] = "lost" THEN "vms" ELSE "orphan_stop"
         \/ /\ pc[w] \in {"free_old", "rf_free", "ex_free", "free"} /\ ReleaseUnit(loc[w].old)
            /\ pc'[w] = CASE pc[w] = "free_old" -> "vms" [] pc[w] = "rf_free" -> "rf"
                          [] pc[w] = "ex_free" -> "ex_stop" [] pc[w] = "free" -> "idle"
  <2>1. CASE FailoverLost(w)
    BY <1>0, <2>1, GotoType DEF FailoverLost
  <2>2. CASE FailoverOrphan(w)
    BY <1>0, <2>2, GotoType DEF FailoverOrphan
  <2>3. CASE FailoverFreeOld(w)
    BY <1>0, <2>3, GotoType DEF FailoverFreeOld
  <2>4. CASE RefundFree(w)
    BY <1>0, <2>4, GotoType DEF RefundFree
  <2>5. CASE ExpireFree(w)
    BY <1>0, <2>5, GotoType DEF ExpireFree
  <2>6. CASE FreeUnit(w)
    BY <1>0, <2>6, FinishType DEF FreeUnit
  <2> QED BY <2>1, <2>2, <2>3, <2>4, <2>5, <2>6
<1>2. avail' \in [Hosts -> 0 .. Units]
  BY <1>0, <1>1, ReleaseUnitType
<1>3. Loaded(w)' /\ (pc[w] \in {"lost", "orphan"} => loc[w].new \in Hosts /\ loc[w].vm \in VMs)
      /\ (pc[w] \in {"free_old", "rf_free", "ex_free", "free"} => loc[w].old \in Hosts)
  BY <1>0, <1>1 DEF Loaded
<1>4. UNCHANGED <<hostVars, vm, booking, elapsed, paid, count>>
  BY DEF FailoverLost, FailoverOrphan, FailoverFreeOld, RefundFree, ExpireFree, FreeUnit
<1>5. TypeInv'
  BY <1>0, <1>1, <1>2, <1>3, <1>4, StepType DEF TypeInv, TypeOK, hostVars
<1> QED BY <1>1, <1>3, <1>4, <1>5

(* The steps that stop a VM whose booking is settled. *)
LEMMA StopEffect ==
  ASSUME TypeInv, NEW w \in Workers, FailoverOrphanStop(w) \/ ExpireStop(w)
  PROVE  /\ TypeInv' /\ StepOf(w) /\ UNCHANGED <<avail, booking, paid, count>>
         /\ loc'[w] = loc[w] /\ loc[w].vm \in VMs /\ SetVM(loc[w].vm, "stopped")
         /\ \/ pc[w] = "orphan_stop" /\ pc'[w] = "vms"
            \/ pc[w] = "ex_stop" /\ pc'[w] = "ex"
<1>0. TypeOK /\ {"vms", "ex"} \subseteq Labels /\ Loaded(w)
  BY LabelNames DEF TypeInv
<1>1. /\ StepOf(w) /\ loc'[w] = loc[w] /\ SetVM(loc[w].vm, "stopped")
      /\ \/ pc[w] = "orphan_stop" /\ pc'[w] = "vms"
         \/ pc[w] = "ex_stop" /\ pc'[w] = "ex"
  BY <1>0, GotoType DEF FailoverOrphanStop, ExpireStop
<1>2. vm' \in [VMs -> VMRow]
  BY <1>0, <1>1, SetVMType
<1>3. Loaded(w)' /\ loc[w].vm \in VMs
  BY <1>0, <1>1 DEF Loaded
<1>4. UNCHANGED <<hostVars, avail, booking, elapsed, paid, count>>
  BY DEF FailoverOrphanStop, ExpireStop
<1>5. TypeInv'
  BY <1>0, <1>1, <1>2, <1>3, <1>4, StepType DEF TypeInv, TypeOK, hostVars
<1> QED BY <1>1, <1>3, <1>4, <1>5

-----------------------------------------------------------------------------
(* The settlements *)

LEMMA RefundCasEffect ==
  ASSUME TypeInv, NEW w \in Workers, NEW v \in VMs, RefundCas(w, v)
  PROVE  /\ TypeInv' /\ StepOf(w) /\ UNCHANGED <<avail, vm, count>>
         /\ pc[w] = "rf" /\ loc'[w].vm = v /\ v \in loc[w].todo /\ loc'[w].old = loc[w].old
         /\ loc'[w].todo = loc[w].todo \ {v}
         /\ \/ pc'[w] = "rf_free" /\ Settles(v, NoHost)
            \/ pc'[w] = "rf" /\ UNCHANGED <<booking, paid>>
<1>0. TypeOK /\ loc[w].old \in Hosts /\ pc[w] = "rf" /\ {"rf", "rf_free"} \subseteq Labels
  BY LabelNames DEF TypeInv, Loaded, RefundCas
<1>1. /\ StepOf(w) /\ loc'[w].vm = v /\ loc'[w].old = loc[w].old /\ pc'[w] \in {"rf", "rf_free"}
      /\ loc'[w].todo = loc[w].todo \ {v} /\ v \in loc[w].todo
      /\ \/ pc'[w] = "rf_free" /\ Settles(v, NoHost)
         \/ pc'[w] = "rf" /\ UNCHANGED <<booking, paid>>
  <2>1. TakeVM(w, v) /\ v \in loc[w].todo
    BY DEF RefundCas, TakeVM
  <2>2. /\ pc' \in [Workers -> Labels] /\ \A u \in Workers \ {w} : pc'[u] = pc[u]
        /\ \/ pc'[w] = "rf_free" /\ Settles(v, NoHost)
           \/ pc'[w] = "rf" /\ UNCHANGED <<booking, paid>>
    BY <1>0 DEF RefundCas, AlreadySettled, TypeOK
  <2> QED BY <1>0, <2>1, <2>2, TakeVMType DEF StepOf
<1>2. booking' \in [VMs -> BookingRow] /\ paid' \in [VMs -> Hosts \cup {NoHost}]
  BY <1>0, <1>1, SettlesType DEF TypeOK
<1>3. Loaded(w)'
  BY <1>0, <1>1 DEF Loaded
<1>4. UNCHANGED <<hostVars, avail, vm, elapsed, count>>
  BY DEF RefundCas
<1>5. TypeInv'
  BY <1>0, <1>1, <1>2, <1>3, <1>4, StepType DEF TypeInv, TypeOK, hostVars
<1> QED BY <1>0, <1>1, <1>4, <1>5

LEMMA ExpireReleaseEffect ==
  ASSUME TypeInv, NEW w \in Workers, NEW v \in VMs, ExpireRelease(w, v)
  PROVE  /\ TypeInv' /\ StepOf(w) /\ UNCHANGED <<avail, vm, count>>
         /\ pc[w] = "ex" /\ loc'[w].vm = v /\ loc'[w].old = booking[v].spec
         /\ \/ pc'[w] = "ex_free" /\ Settles(v, booking[v].spec)
            \/ pc'[w] = "ex_stop" /\ UNCHANGED <<booking, paid>>
<1>0. /\ TypeOK /\ pc[w] = "ex" /\ {"ex_free", "ex_stop"} \subseteq Labels /\ loc[w] \in Locals
      /\ booking[v].spec \in Hosts
  BY LabelNames, LocalType, RowType DEF TypeInv, ExpireRelease
<1> DEFINE l == [loc[w] EXCEPT !.vm = v, !.todo = loc[w].todo \ {v}, !.old = booking[v].spec]
<1>1. l \in Locals /\ l.vm = v /\ l.old = booking[v].spec
  BY <1>0 DEF Locals
<1>2. loc' = [loc EXCEPT ![w] = l]
  BY <1>0 DEF ExpireRelease, Locals, TypeOK
<1> HIDE DEF l
<1>3. /\ pc' \in [Workers -> Labels] /\ \A u \in Workers \ {w} : pc'[u] = pc[u]
      /\ pc'[w] \in {"ex_free", "ex_stop"}
      /\ \/ pc'[w] = "ex_free" /\ Settles(v, booking[v].spec)
         \/ pc'[w] = "ex_stop" /\ UNCHANGED <<booking, paid>>
  BY <1>0 DEF ExpireRelease, AlreadySettled, TypeOK
<1>4. StepOf(w) /\ loc'[w] = l
  BY <1>0, <1>1, <1>2, <1>3 DEF StepOf, TypeOK
<1>5. booking' \in [VMs -> BookingRow] /\ paid' \in [VMs -> Hosts \cup {NoHost}]
  BY <1>0, <1>3, SettlesType DEF TypeOK
<1>6. Loaded(w)'
  BY <1>0, <1>1, <1>3, <1>4 DEF Loaded
<1>7. UNCHANGED <<hostVars, avail, vm, elapsed, count>>
  BY DEF ExpireRelease
<1>8. TypeInv'
  BY <1>0, <1>4, <1>5, <1>6, <1>7, StepType DEF TypeInv, TypeOK, hostVars
<1> QED BY <1>0, <1>1, <1>3, <1>4, <1>7, <1>8

LEMMA StopCasEffect ==
  ASSUME TypeInv, NEW w \in Workers, NEW v \in VMs, StopCas(w, v)
  PROVE  /\ TypeInv' /\ StepOf(w) /\ UNCHANGED <<avail, booking, paid, count>>
         /\ pc[w] = "idle" /\ pc'[w] = "settle" /\ loc'[w].vm = v /\ loc'[w].old = vm[v].spec
         /\ VMLive(v) /\ SetVM(v, "stopped") /\ "stop" \in Handlers
<1>0. TypeOK /\ "settle" \in Labels /\ vm[v].spec \in Hosts
  BY LabelNames, RowType DEF TypeInv
<1> DEFINE l == [NoLocals EXCEPT !.vm = v, !.old = vm[v].spec]
<1>1. l \in Locals /\ l.vm = v /\ l.old = vm[v].spec
  BY <1>0, NoLocalsType DEF Locals
<1>2. GotoWith(w, "idle", "settle", l)
  BY DEF StopCas
<1> HIDE DEF l
<1>3. StepOf(w) /\ pc[w] = "idle" /\ pc'[w] = "settle" /\ loc'[w] = l
  BY <1>0, <1>1, <1>2, GotoWithType
<1>4. SetVM(v, "stopped") /\ VMLive(v) /\ "stop" \in Handlers
      /\ UNCHANGED <<hostVars, avail, booking, elapsed, paid, count>>
  BY DEF StopCas
<1>5. vm' \in [VMs -> VMRow]
  BY <1>0, <1>4, SetVMType
<1>6. Loaded(w)'
  BY <1>0, <1>1, <1>3 DEF Loaded
<1>7. TypeInv'
  BY <1>0, <1>3, <1>4, <1>5, <1>6, StepType DEF TypeInv, TypeOK, hostVars
<1> QED BY <1>1, <1>3, <1>4, <1>7

LEMMA StopSettleEffect ==
  ASSUME TypeInv, NEW w \in Workers, StopSettle(w)
  PROVE  /\ TypeInv' /\ StepOf(w) /\ UNCHANGED <<avail, vm, count>>
         /\ pc[w] = "settle" /\ loc[w].vm \in VMs
         /\ \/ /\ Settles(loc[w].vm, booking[loc[w].vm].spec) /\ pc'[w] = "free"
               /\ loc'[w].old = booking[loc[w].vm].spec
            \/ /\ UNCHANGED <<booking, paid>> /\ booking[loc[w].vm].spec # loc[w].old
               /\ ~booking[loc[w].vm].live /\ pc'[w] = "free" /\ loc'[w] = loc[w]
            \/ /\ UNCHANGED <<booking, paid>> /\ pc'[w] = "idle"
               /\ ~booking[loc[w].vm].live /\ booking[loc[w].vm].spec = loc[w].old
<1>0. /\ TypeOK /\ {"free", "idle"} \subseteq Labels /\ pc[w] = "settle" /\ loc[w] \in Locals
      /\ loc[w].vm \in VMs /\ loc[w].old \in Hosts /\ booking[loc[w].vm].spec \in Hosts
  BY LabelNames, LocalType, RowType DEF TypeInv, Loaded, StopSettle
<1>1. UNCHANGED <<hostVars, avail, vm, elapsed, count>>
  BY DEF StopSettle
<1>2. CASE /\ Settles(loc[w].vm, booking[loc[w].vm].spec)
           /\ GotoWith(w, "settle", "free", [loc[w] EXCEPT !.old = booking[loc[w].vm].spec])
  <2> DEFINE l == [loc[w] EXCEPT !.old = booking[loc[w].vm].spec]
  <2>1. l \in Locals /\ l.old = booking[loc[w].vm].spec /\ l.vm = loc[w].vm
    BY <1>0 DEF Locals
  <2>2. GotoWith(w, "settle", "free", l)
    BY <1>2
  <2> HIDE DEF l
  <2>3. StepOf(w) /\ pc'[w] = "free" /\ loc'[w] = l
    BY <1>0, <2>1, <2>2, GotoWithType
  <2>4. Loaded(w)'
    BY <1>0, <2>1, <2>3 DEF Loaded
  <2>5. booking' \in [VMs -> BookingRow] /\ paid' \in [VMs -> Hosts \cup {NoHost}]
    BY <1>0, <1>2, SettlesType
  <2>6. TypeInv'
    BY <1>0, <1>1, <2>3, <2>4, <2>5, StepType DEF TypeInv, TypeOK, hostVars
  <2> QED BY <1>0, <1>1, <1>2, <2>1, <2>3, <2>6
<1>3. CASE /\ AlreadySettled(loc[w].vm) /\ booking[loc[w].vm].spec # loc[w].old
           /\ Goto(w, "settle", "free")
  <2>1. StepOf(w) /\ pc'[w] = "free" /\ loc'[w] = loc[w]
    BY <1>0, <1>3, GotoType
  <2>2. Loaded(w)'
    BY <1>0, <2>1 DEF Loaded
  <2>3. UNCHANGED <<booking, paid>> /\ ~booking[loc[w].vm].live
    BY <1>3 DEF AlreadySettled
  <2>4. TypeInv'
    BY <1>0, <1>1, <2>1, <2>2, <2>3, StepType DEF TypeInv, TypeOK, hostVars
  <2> QED BY <1>0, <1>1, <1>3, <2>1, <2>3, <2>4
<1>4. CASE /\ AlreadySettled(loc[w].vm) /\ booking[loc[w].vm].spec = loc[w].old
           /\ Finish(w, "settle")
  <2>1. StepOf(w) /\ pc'[w] = "idle"
    BY <1>0, <1>4, FinishType
  <2>2. Loaded(w)'
    BY <2>1 DEF Loaded
  <2>3. UNCHANGED <<booking, paid>> /\ ~booking[loc[w].vm].live
    BY <1>4 DEF AlreadySettled
  <2>4. TypeInv'
    BY <1>0, <1>1, <2>1, <2>2, <2>3, StepType DEF TypeInv, TypeOK, hostVars
  <2> QED BY <1>0, <1>1, <1>4, <2>1, <2>3, <2>4
<1> QED BY <1>2, <1>3, <1>4 DEF StopSettle

LEMMA ResultReleaseEffect ==
  ASSUME TypeInv, NEW w \in Workers, NEW v \in VMs, ResultRelease(w, v)
  PROVE  /\ TypeInv' /\ StepOf(w) /\ UNCHANGED <<avail, vm, count>>
         /\ pc[w] = "idle" /\ pc'[w] = "free" /\ loc'[w].vm = v
         /\ loc'[w].old = booking[v].spec
         /\ Settles(v, booking[v].spec) /\ "result" \in Handlers
<1>0. TypeOK /\ "free" \in Labels /\ booking[v].spec \in Hosts
  BY LabelNames, RowType DEF TypeInv
<1> DEFINE l == [NoLocals EXCEPT !.vm = v, !.old = booking[v].spec]
<1>1. l \in Locals /\ l.vm = v /\ l.old = booking[v].spec
  BY <1>0, NoLocalsType DEF Locals
<1>2. GotoWith(w, "idle", "free", l)
  BY DEF ResultRelease
<1> HIDE DEF l
<1>3. StepOf(w) /\ pc[w] = "idle" /\ pc'[w] = "free" /\ loc'[w] = l
  BY <1>0, <1>1, <1>2, GotoWithType
<1>4. Settles(v, booking[v].spec) /\ "result" \in Handlers
      /\ UNCHANGED <<hostVars, avail, vm, elapsed, count>>
  BY DEF ResultRelease
<1>5. booking' \in [VMs -> BookingRow] /\ paid' \in [VMs -> Hosts \cup {NoHost}]
  BY <1>0, <1>4, SettlesType
<1>6. Loaded(w)'
  BY <1>0, <1>1, <1>3 DEF Loaded
<1>7. TypeInv'
  BY <1>0, <1>3, <1>4, <1>5, <1>6, StepType DEF TypeInv, TypeOK, hostVars
<1> QED BY <1>1, <1>3, <1>4, <1>7

LEMMA AcceptReadEffect ==
  ASSUME TypeInv, NEW w \in Workers, NEW v \in VMs, AcceptRead(w, v)
  PROVE  /\ TypeInv' /\ StepOf(w) /\ Quiet
         /\ pc[w] = "idle" /\ pc'[w] = "release" /\ "accept" \in Handlers
<1>0. TypeOK /\ "release" \in Labels /\ booking[v].spec \in Hosts
  BY LabelNames, RowType DEF TypeInv
<1> DEFINE l == [NoLocals EXCEPT !.vm = v, !.old = booking[v].spec]
<1>1. l \in Locals /\ l.vm = v /\ l.old = booking[v].spec
  BY <1>0, NoLocalsType DEF Locals
<1>2. GotoWith(w, "idle", "release", l)
  BY DEF AcceptRead
<1> HIDE DEF l
<1>3. StepOf(w) /\ pc[w] = "idle" /\ pc'[w] = "release" /\ loc'[w] = l
  BY <1>0, <1>1, <1>2, GotoWithType
<1>4. "accept" \in Handlers /\ UNCHANGED <<hostVars, avail, vm, booking, elapsed, paid, count>>
  BY DEF AcceptRead
<1>5. Loaded(w)'
  BY <1>0, <1>1, <1>3 DEF Loaded
<1>6. TypeInv'
  BY <1>0, <1>3, <1>4, <1>5, StepType DEF TypeInv, TypeOK, hostVars
<1> QED BY <1>3, <1>4, <1>6 DEF Quiet

LEMMA AcceptReleaseEffect ==
  ASSUME TypeInv, NEW w \in Workers, AcceptRelease(w)
  PROVE  /\ TypeInv' /\ StepOf(w) /\ UNCHANGED <<avail, vm, count>>
         /\ pc[w] = "release" /\ loc[w].vm \in VMs
         /\ \/ Settles(loc[w].vm, loc[w].old) /\ loc[w].old \in Hosts /\ pc'[w] = "free"
               /\ loc'[w] = loc[w]
            \/ UNCHANGED <<booking, paid>> /\ pc'[w] = "idle"
<1>0. TypeOK /\ {"free", "idle"} \subseteq Labels /\ Loaded(w) /\ pc[w] = "release"
      /\ loc[w].vm \in VMs /\ loc[w].old \in Hosts
  BY LabelNames DEF TypeInv, AcceptRelease, Loaded
<1>1. /\ StepOf(w)
      /\ \/ Settles(loc[w].vm, loc[w].old) /\ pc'[w] = "free" /\ loc'[w] = loc[w]
         \/ UNCHANGED <<booking, paid>> /\ pc'[w] = "idle"
  BY <1>0, GotoType, FinishType DEF AcceptRelease, AlreadySettled
<1>2. booking' \in [VMs -> BookingRow] /\ paid' \in [VMs -> Hosts \cup {NoHost}]
  BY <1>0, <1>1, SettlesType DEF TypeOK
<1>3. Loaded(w)'
  BY <1>0, <1>1 DEF Loaded
<1>4. UNCHANGED <<hostVars, avail, vm, elapsed, count>>
  BY DEF AcceptRelease
<1>5. TypeInv'
  BY <1>0, <1>1, <1>2, <1>3, <1>4, StepType DEF TypeInv, TypeOK, hostVars
<1> QED BY <1>0, <1>1, <1>4, <1>5

LEMMA RegisterReadEffect ==
  ASSUME TypeInv, NEW w \in Workers, NEW v \in VMs, RegisterRead(w, v)
  PROVE  /\ TypeInv' /\ StepOf(w) /\ UNCHANGED <<avail, vm, booking, paid>>
         /\ count'.crashes = count.crashes
         /\ pc[w] = "idle" /\ pc'[w] = "register" /\ "register" \in Handlers
<1>0. /\ TypeOK /\ "register" \in Labels /\ vm[v].status \in Running \cup {"failed"}
      /\ "register" \in Handlers
  BY LabelNames, RowType DEF TypeInv, RegisterRead
<1> DEFINE l == [NoLocals EXCEPT !.vm = v, !.was = vm[v].status]
<1>1. l \in Locals /\ l.vm = v
  BY <1>0, NoLocalsType DEF Locals
<1>2. GotoWith(w, "idle", "register", l)
  BY DEF RegisterRead
<1> HIDE DEF l
<1>3. StepOf(w) /\ pc[w] = "idle" /\ pc'[w] = "register" /\ loc'[w] = l
  BY <1>0, <1>1, <1>2, GotoWithType
<1>4. /\ count' \in [silences : Nat, registers : Nat, crashes : Nat]
      /\ count'.crashes = count.crashes
      /\ UNCHANGED <<hostVars, avail, vm, booking, elapsed, paid>>
  BY <1>0 DEF RegisterRead, TypeOK
<1>5. Loaded(w)'
  BY <1>1, <1>3 DEF Loaded
<1>6. TypeInv'
  BY <1>0, <1>3, <1>4, <1>5, StepType DEF TypeInv, TypeOK, hostVars
<1> QED BY <1>0, <1>3, <1>4, <1>6

LEMMA RegisterWriteEffect ==
  ASSUME TypeInv, NEW w \in Workers, RegisterWrite(w)
  PROVE  /\ TypeInv' /\ StepOf(w) /\ UNCHANGED <<avail, booking, paid, count>>
         /\ pc[w] = "register" /\ pc'[w] = "idle" /\ loc[w].vm \in VMs
         /\ vm' = vm \/ SetVM(loc[w].vm, "running")
<1>0. TypeOK /\ Loaded(w)
  BY DEF TypeInv
<1>1. StepOf(w) /\ pc[w] = "register" /\ pc'[w] = "idle"
  BY <1>0, FinishType DEF RegisterWrite
<1>2. /\ vm' = vm \/ SetVM(loc[w].vm, "running")
      /\ UNCHANGED <<hostVars, avail, booking, elapsed, paid, count>>
  BY DEF RegisterWrite
<1>3. "running" \in Running
  BY DEF Running
<1>4. vm' \in [VMs -> VMRow]
  BY <1>0, <1>2, <1>3, SetVMType DEF TypeOK
<1>5. Loaded(w)' /\ loc[w].vm \in VMs
  BY <1>0, <1>1 DEF Loaded
<1>6. TypeInv'
  BY <1>0, <1>1, <1>2, <1>4, <1>5, StepType DEF TypeInv, TypeOK, hostVars
<1> QED BY <1>1, <1>2, <1>5, <1>6

LEMMA CrashEffect ==
  ASSUME TypeInv, NEW w \in Workers, Crash(w)
  PROVE  /\ TypeInv' /\ StepOf(w) /\ UNCHANGED <<avail, vm, booking, paid>>
         /\ pc'[w] = "idle" /\ count'.crashes = count.crashes + 1
<1>0. TypeOK
  BY DEF TypeInv
<1>1. StepOf(w) /\ pc'[w] = "idle"
  BY <1>0, FinishType DEF Crash
<1>2. /\ count' \in [silences : Nat, registers : Nat, crashes : Nat]
      /\ count'.crashes = count.crashes + 1
      /\ UNCHANGED <<hostVars, avail, vm, booking, elapsed, paid>>
  BY <1>0 DEF Crash, TypeOK
<1>3. Loaded(w)'
  BY <1>1 DEF Loaded
<1>4. TypeInv'
  BY <1>0, <1>1, <1>2, <1>3, StepType DEF TypeInv, TypeOK, hostVars
<1> QED BY <1>1, <1>2, <1>4

LEMMA WorldEffect ==
  ASSUME TypeInv,
         \/ \E h \in Hosts : Heartbeat(h) \/ GoSilent(h)
         \/ \E v \in VMs : WindowEnds(v)
         \/ UNCHANGED vars
  PROVE  TypeInv' /\ UNCHANGED <<avail, vm, booking, paid, pc, loc>>
         /\ count'.crashes = count.crashes
<1>1. UNCHANGED <<avail, vm, booking, paid, pc, loc>>
  BY DEF Heartbeat, GoSilent, WindowEnds, vars
<1>2. /\ online' \in [Hosts -> BOOLEAN] /\ fresh' \in [Hosts -> BOOLEAN]
      /\ elapsed' \in [VMs -> BOOLEAN]
  BY DEF Heartbeat, GoSilent, WindowEnds, vars, hostVars, TypeInv, TypeOK
<1>3. /\ count' \in [silences : Nat, registers : Nat, crashes : Nat]
      /\ count'.crashes = count.crashes
  BY DEF Heartbeat, GoSilent, WindowEnds, vars, TypeInv, TypeOK
<1>4. TypeOK'
  BY <1>1, <1>2, <1>3 DEF TypeInv, TypeOK
<1>5. \A w \in Workers : Loaded(w)'
  BY <1>1 DEF TypeInv, Loaded
<1> QED BY <1>1, <1>3, <1>4, <1>5 DEF TypeInv

LEMMA TypeInit == Init => TypeInv
<1> SUFFICES ASSUME Init PROVE TypeInv
  OBVIOUS
<1> DEFINE placed(place, h) == Cardinality({v \in VMs : place[v] = h})
<1>1. PICK place \in [VMs -> Hosts] :
        /\ \A h \in Hosts : placed(place, h) <= Units
        /\ online = [h \in Hosts |-> TRUE] /\ fresh = [h \in Hosts |-> TRUE]
        /\ avail = [h \in Hosts |-> Units - placed(place, h)]
        /\ vm = [v \in VMs |-> [status |-> "starting", spec |-> place[v]]]
        /\ booking = [v \in VMs |-> [live |-> TRUE, spec |-> place[v]]]
        /\ elapsed = [v \in VMs |-> FALSE] /\ paid = [v \in VMs |-> NoHost]
        /\ count = [silences |-> 0, registers |-> 0, crashes |-> 0]
        /\ pc = [w \in Workers |-> "idle"] /\ loc = [w \in Workers |-> NoLocals]
  BY DEF Init
<1>2. \A h \in Hosts : placed(place, h) \in Nat
  BY FiniteAssumption, FS_Subset, FS_CardinalityType
<1> HIDE DEF placed
<1>3. avail \in [Hosts -> 0 .. Units]
  BY <1>1, <1>2, BoundAssumption
<1>4. vm \in [VMs -> VMRow] /\ booking \in [VMs -> BookingRow]
  BY <1>1 DEF VMRow, BookingRow, Running
<1>5. count \in [silences : Nat, registers : Nat, crashes : Nat]
  BY <1>1
<1>6. pc \in [Workers -> Labels] /\ loc \in [Workers -> Locals]
  BY <1>1, NoLocalsType, LabelNames
<1>7. TypeOK
  BY <1>1, <1>3, <1>4, <1>5, <1>6 DEF TypeOK
<1>8. \A w \in Workers : Loaded(w)
  BY <1>1 DEF Loaded
<1> QED BY <1>7, <1>8 DEF TypeInv

-----------------------------------------------------------------------------
(* The steps of the specification, grouped by what they do. *)

World == \/ \E h \in Hosts : Heartbeat(h) \/ GoSilent(h)
         \/ \E v \in VMs : WindowEnds(v)
         \/ UNCHANGED vars
Reads(w) == \/ ReapScan(w) \/ RefundScan(w) \/ ExpireScan(w) \/ ReapMark(w) \/ HostsDone(w)
            \/ VMsDone(w) \/ RefundHostsDone(w) \/ RefundsDone(w) \/ CycleDone(w)
            \/ NextHost(w) \/ RefundHost(w)
Frees(w) == \/ FailoverLost(w) \/ FailoverOrphan(w) \/ FailoverFreeOld(w) \/ RefundFree(w)
            \/ ExpireFree(w)
Stops(w) == FailoverOrphanStop(w) \/ ExpireStop(w)

LEMMA StepCases ==
  ASSUME [Next]_vars
  PROVE  \/ World
         \/ \E w \in Reapers : \/ Reads(w) \/ FailoverPick(w) \/ FailoverMove(w)
                               \/ FailoverBook(w) \/ Frees(w) \/ Stops(w)
         \/ \E w \in Reapers, v \in VMs : \/ FailoverBegin(w, v) \/ RefundCas(w, v)
                                          \/ ExpireRelease(w, v)
         \/ \E w \in Requests : \/ StopSettle(w) \/ AcceptRelease(w) \/ FreeUnit(w)
                                \/ RegisterWrite(w)
         \/ \E w \in Requests, v \in VMs : \/ StopCas(w, v) \/ ResultRelease(w, v)
                                           \/ AcceptRead(w, v) \/ RegisterRead(w, v)
         \/ \E w \in Workers : Crash(w)
<1>1. CASE \E w \in Reapers : Cycle(w)
  <2>1. PICK w \in Reapers : FailoverStep(w) \/ RefundStep(w) \/ ExpireStep(w)
    BY <1>1 DEF Cycle
  <2>2. CASE FailoverStep(w)
    BY <2>2 DEF FailoverStep, Reads, Frees, Stops
  <2>3. CASE RefundStep(w)
    BY <2>3 DEF RefundStep, Reads, Frees, Stops
  <2>4. CASE ExpireStep(w)
    BY <2>4 DEF ExpireStep, Reads, Frees, Stops
  <2> QED BY <2>1, <2>2, <2>3, <2>4
<1>2. CASE \E w \in Requests : Arrive(w) \/ Serve(w)
  BY <1>2 DEF Arrive, Serve
<1>3. CASE \E w \in Workers : Crash(w)
  BY <1>3
<1>4. CASE World
  BY <1>4
<1> QED BY <1>1, <1>2, <1>3, <1>4 DEF Next, World

LEMMA ReadsEffect ==
  ASSUME TypeInv, NEW w \in Workers, Reads(w)
  PROVE  /\ TypeInv' /\ StepOf(w) /\ Quiet
         /\ pc[w] \in {"idle", "rf_scan", "ex_scan", "mark", "hosts", "vms", "rf_hosts", "rf", "ex"}
         /\ pc'[w] \in {"mark", "rf_hosts", "ex", "hosts", "rf_scan", "ex_scan", "idle", "vms", "rf"}
         /\ pc'[w] = "rf" => \A v \in loc'[w].todo : booking[v].spec = loc'[w].old
<1>1. CASE ReapScan(w) \/ RefundScan(w) \/ ExpireScan(w)
  BY <1>1, ScanEffect
<1>2. CASE \/ ReapMark(w) \/ HostsDone(w) \/ VMsDone(w) \/ RefundHostsDone(w) \/ RefundsDone(w)
           \/ CycleDone(w)
  BY <1>2, LoopEffect
<1>3. CASE NextHost(w)
  BY <1>3, NextHostEffect
<1>4. CASE RefundHost(w)
  BY <1>4, RefundHostEffect
<1> QED BY <1>1, <1>2, <1>3, <1>4 DEF Reads

LEMMA TypeStep ==
  ASSUME TypeInv, [Next]_vars
  PROVE  TypeInv'
<1>1. CASE World
  BY <1>1, WorldEffect DEF World
<1>2. ASSUME NEW w \in Reapers, \/ Reads(w) \/ FailoverPick(w) \/ FailoverMove(w)
                                \/ FailoverBook(w) \/ Frees(w) \/ Stops(w)
      PROVE  TypeInv'
  <2>1. w \in Workers
    BY DEF Workers
  <2> QED BY <1>2, <2>1, ReadsEffect, FailoverPickEffect, FailoverMoveEffect,
             FailoverBookEffect, FreeEffect, StopEffect DEF Frees, Stops
<1>3. ASSUME NEW w \in Reapers, NEW v \in VMs,
             FailoverBegin(w, v) \/ RefundCas(w, v) \/ ExpireRelease(w, v)
      PROVE  TypeInv'
  <2>1. w \in Workers
    BY DEF Workers
  <2> QED BY <1>3, <2>1, FailoverBeginEffect, RefundCasEffect, ExpireReleaseEffect
<1>4. ASSUME NEW w \in Requests,
             StopSettle(w) \/ AcceptRelease(w) \/ FreeUnit(w) \/ RegisterWrite(w)
      PROVE  TypeInv'
  <2>1. w \in Workers
    BY DEF Workers
  <2> QED BY <1>4, <2>1, StopSettleEffect, AcceptReleaseEffect, FreeEffect, RegisterWriteEffect
<1>5. ASSUME NEW w \in Requests, NEW v \in VMs,
             StopCas(w, v) \/ ResultRelease(w, v) \/ AcceptRead(w, v) \/ RegisterRead(w, v)
      PROVE  TypeInv'
  <2>1. w \in Workers
    BY DEF Workers
  <2> QED BY <1>5, <2>1, StopCasEffect, ResultReleaseEffect, AcceptReadEffect,
             RegisterReadEffect
<1>6. ASSUME NEW w \in Workers, Crash(w)
      PROVE  TypeInv'
  BY <1>6, CrashEffect
<1> QED BY <1>1, <1>2, <1>3, <1>4, <1>5, <1>6, StepCases

(* The types, and what a worker has loaded by the step it is at, are       *)
(* invariant.                                                              *)
THEOREM TypeInvHolds == Spec => []TypeInv
<1>1. TypeInv /\ [Next]_vars => TypeInv'
  BY TypeStep
<1> QED BY TypeInit, <1>1, PTL DEF Spec

(* Every variable of the model keeps its type, whatever is interleaved or  *)
(* killed: no reservation or release takes available_units out of 0 ..     *)
(* total_units (try_reserve_unit, release_unit).                           *)
THEOREM TypeCorrect == Spec => []TypeOK
<1>1. TypeInv => TypeOK
  BY DEF TypeInv
<1> QED BY TypeInvHolds, <1>1, PTL

-----------------------------------------------------------------------------
(* Who takes which steps *)

RequestLabels == {"idle", "settle", "release", "free", "register"}
LabelOK(w) ==
  /\ pc[w] = "release" => "accept" \in Handlers
  /\ pc[w] = "register" => "register" \in Handlers
  /\ w \in Requests => pc[w] \in RequestLabels
  /\ w \in Reapers => pc[w] = "idle" \/ pc[w] \notin RequestLabels
LabelInv == \A w \in Workers : LabelOK(w)

LEMMA LabelStep ==
  ASSUME TypeInv, LabelInv, [Next]_vars
  PROVE  LabelInv'
<1>0. Reapers \subseteq Workers /\ Requests \subseteq Workers /\ Reapers \cap Requests = {}
  BY WorkerAssumption DEF Workers
<1>1. CASE World
  BY <1>1, WorldEffect DEF World, LabelInv, LabelOK
<1>2. ASSUME NEW w \in Reapers, \/ Reads(w) \/ FailoverPick(w) \/ FailoverMove(w)
                                \/ FailoverBook(w) \/ Frees(w) \/ Stops(w)
      PROVE  StepOf(w) /\ LabelOK(w)'
  <2>1. StepOf(w) /\ (pc'[w] = "idle" \/ pc'[w] \notin RequestLabels)
    <3>1. CASE Reads(w)
      BY <1>0, <3>1, ReadsEffect DEF RequestLabels
    <3>2. CASE FailoverPick(w) \/ FailoverMove(w) \/ FailoverBook(w)
      BY <1>0, <3>2, FailoverPickEffect, FailoverMoveEffect, FailoverBookEffect DEF RequestLabels
    <3>3. CASE Frees(w)
      <4>1. pc[w] # "free"
        BY <1>0 DEF LabelInv, LabelOK, RequestLabels
      <4> QED BY <1>0, <3>3, <4>1, FreeEffect DEF Frees, RequestLabels
    <3>4. CASE Stops(w)
      BY <1>0, <3>4, StopEffect DEF Stops, RequestLabels
    <3> QED BY <1>2, <3>1, <3>2, <3>3, <3>4
  <2> QED BY <1>0, <2>1 DEF LabelOK, RequestLabels
<1>3. ASSUME NEW w \in Reapers, NEW v \in VMs,
             FailoverBegin(w, v) \/ RefundCas(w, v) \/ ExpireRelease(w, v)
      PROVE  StepOf(w) /\ LabelOK(w)'
  BY <1>0, <1>3, FailoverBeginEffect, RefundCasEffect, ExpireReleaseEffect
     DEF LabelOK, RequestLabels
<1>4. ASSUME NEW w \in Requests,
             StopSettle(w) \/ AcceptRelease(w) \/ FreeUnit(w) \/ RegisterWrite(w)
      PROVE  StepOf(w) /\ LabelOK(w)'
  <2>1. pc[w] \in RequestLabels
    BY <1>0 DEF LabelInv, LabelOK
  <2> QED BY <1>0, <1>4, <2>1, StopSettleEffect, AcceptReleaseEffect, FreeEffect,
             RegisterWriteEffect DEF LabelOK, RequestLabels
<1>5. ASSUME NEW w \in Requests, NEW v \in VMs,
             StopCas(w, v) \/ ResultRelease(w, v) \/ AcceptRead(w, v) \/ RegisterRead(w, v)
      PROVE  StepOf(w) /\ LabelOK(w)'
  BY <1>0, <1>5, StopCasEffect, ResultReleaseEffect, AcceptReadEffect, RegisterReadEffect
     DEF LabelOK, RequestLabels
<1>6. ASSUME NEW w \in Workers, Crash(w)
      PROVE  StepOf(w) /\ LabelOK(w)'
  BY <1>6, CrashEffect DEF LabelOK, RequestLabels
<1>7. ASSUME NEW w \in Workers, StepOf(w), LabelOK(w)'
      PROVE  LabelInv'
  BY <1>7 DEF StepOf, LabelInv, LabelOK
<1> QED BY <1>0, <1>1, <1>2, <1>3, <1>4, <1>5, <1>6, <1>7, StepCases

(* Reapers and requests keep to their own steps, and a disabled handler is *)
(* never under way.                                                        *)
THEOREM LabelInvHolds == Spec => []LabelInv
<1>1. Init => LabelInv
  BY DEF Init, LabelInv, LabelOK, RequestLabels
<1>2. TypeInv /\ LabelInv /\ [Next]_vars => LabelInv'
  BY LabelStep
<1> QED BY <1>1, <1>2, TypeInvHolds, PTL DEF Spec

-----------------------------------------------------------------------------
(* What happens to a booking *)

Repointed(w) ==
  /\ pc[w] = "book" /\ booking[loc[w].vm].live /\ loc[w].vm \in VMs
  /\ booking' = [booking EXCEPT ![loc[w].vm].spec = loc[w].new] /\ paid' = paid

(* A booking is settled, by one whose seller it pays, or follows its VM.   *)
LEMMA BookingEffect ==
  ASSUME TypeInv, [Next]_vars
  PROVE  \/ UNCHANGED <<booking, paid>>
         \/ \E v \in VMs, p \in Hosts \cup {NoHost} :
              /\ Settles(v, p)
              /\ p \in {NoHost, booking[v].spec} \/ \E w \in Workers : pc[w] = "release"
         \/ \E w \in Reapers : Repointed(w)
<1> DEFINE Goal == \/ UNCHANGED <<booking, paid>>
                   \/ \E v \in VMs, p \in Hosts \cup {NoHost} :
                        /\ Settles(v, p)
                        /\ p \in {NoHost, booking[v].spec} \/ \E w \in Workers : pc[w] = "release"
                   \/ \E w \in Reapers : Repointed(w)
<1>0. \A v \in VMs : booking[v].spec \in Hosts
  BY RowType DEF TypeInv
<1>1. CASE World
  BY <1>1, WorldEffect DEF World
<1>2. ASSUME NEW w \in Reapers, Reads(w) \/ FailoverPick(w) \/ FailoverMove(w) \/ Frees(w) \/ Stops(w)
      PROVE  UNCHANGED <<booking, paid>>
  <2>1. w \in Workers
    BY DEF Workers
  <2> QED BY <1>2, <2>1, ReadsEffect, FailoverPickEffect, FailoverMoveEffect,
             FreeEffect, StopEffect DEF Frees, Stops, Quiet
<1>3. ASSUME NEW w \in Reapers, FailoverBook(w) PROVE Goal
  <2>1. w \in Workers /\ (pc[w] = "book" => loc[w].vm \in VMs)
    BY DEF Workers, TypeInv, Loaded
  <2> QED BY <1>3, <2>1, FailoverBookEffect DEF Repointed
<1>4. ASSUME NEW w \in Reapers, NEW v \in VMs,
             FailoverBegin(w, v) \/ RefundCas(w, v) \/ ExpireRelease(w, v)
      PROVE  Goal
  <2>1. w \in Workers
    BY DEF Workers
  <2>2. UNCHANGED <<booking, paid>> \/ Settles(v, NoHost) \/ Settles(v, booking[v].spec)
    BY <1>4, <2>1, FailoverBeginEffect, RefundCasEffect, ExpireReleaseEffect
  <2> QED BY <1>0, <2>2
<1>5. ASSUME NEW w \in Requests,
             StopSettle(w) \/ AcceptRelease(w) \/ FreeUnit(w) \/ RegisterWrite(w)
      PROVE  Goal
  <2>1. w \in Workers
    BY DEF Workers
  <2>2. CASE StopSettle(w)
    BY <1>0, <2>1, <2>2, StopSettleEffect
  <2>3. CASE AcceptRelease(w)
    BY <2>1, <2>3, AcceptReleaseEffect
  <2>4. CASE FreeUnit(w) \/ RegisterWrite(w)
    BY <2>1, <2>4, FreeEffect, RegisterWriteEffect
  <2> QED BY <1>5, <2>2, <2>3, <2>4
<1>6. ASSUME NEW w \in Requests, NEW v \in VMs,
             StopCas(w, v) \/ ResultRelease(w, v) \/ AcceptRead(w, v) \/ RegisterRead(w, v)
      PROVE  Goal
  <2>1. w \in Workers
    BY DEF Workers
  <2>2. UNCHANGED <<booking, paid>> \/ Settles(v, booking[v].spec)
    BY <1>6, <2>1, StopCasEffect, ResultReleaseEffect, AcceptReadEffect,
       RegisterReadEffect DEF Quiet
  <2> QED BY <1>0, <2>2
<1>7. ASSUME NEW w \in Workers, Crash(w) PROVE Goal
  BY <1>7, CrashEffect
<1> HIDE DEF Goal
<1>8. Goal
  BY <1>1, <1>2, <1>3, <1>4, <1>5, <1>6, <1>7, StepCases DEF Goal
<1> QED BY <1>8 DEF Goal

(* A settled booking is never settled again, by any pair of the handlers,   *)
(* the refund of a dead host's bookings and the expiry of windows.          *)
THEOREM SettledOnceHolds == Spec => SettledOnce
<1> DEFINE Once == \A v \in VMs : ~booking[v].live => paid'[v] = paid[v] /\ booking'[v] = booking[v]
<1>1. TypeInv /\ [Next]_vars => Once
  <2> SUFFICES ASSUME TypeInv, [Next]_vars, NEW v \in VMs, ~booking[v].live
               PROVE  paid'[v] = paid[v] /\ booking'[v] = booking[v]
    OBVIOUS
  <2>0. TypeOK
    BY DEF TypeInv
  <2>1. ASSUME NEW u \in VMs, NEW p \in Hosts \cup {NoHost}, Settles(u, p)
        PROVE  paid'[v] = paid[v] /\ booking'[v] = booking[v]
    BY <2>0, <2>1, SettlesType
  <2>2. ASSUME NEW w \in Reapers, Repointed(w)
        PROVE  paid'[v] = paid[v] /\ booking'[v] = booking[v]
    BY <2>0, <2>2 DEF Repointed, TypeOK
  <2> QED BY <2>1, <2>2, BookingEffect
<1>2. TypeInv /\ [Next]_vars => [Once]_vars
  BY <1>1
<1> QED BY TypeInvHolds, <1>2, PTL DEF Spec, SettledOnce

-----------------------------------------------------------------------------
(* Who is paid *)

(* Nobody has been paid for a live booking. *)
PaidInv ==
  \A v \in VMs : /\ booking[v].live => paid[v] = NoHost
                 /\ paid[v] # NoHost => paid[v] = booking[v].spec

(* Unless release_endpoint settles from a row it loaded earlier (accept),  *)
(* a settlement pays the seller of the host the booking is on, or refunds  *)
(* (release_booking, settle_dead_specs).                                   *)
THEOREM HostIsPaidHolds ==
  ASSUME "accept" \notin Handlers
  PROVE  Spec => []HostIsPaid
<1>1. Init => PaidInv
  BY DEF Init, PaidInv
<1>2. TypeInv /\ LabelInv /\ PaidInv /\ [Next]_vars => PaidInv'
  <2> SUFFICES ASSUME TypeInv, LabelInv, PaidInv, [Next]_vars PROVE PaidInv'
    OBVIOUS
  <2>0. TypeOK
    BY DEF TypeInv
  <2>1. \A w \in Workers : pc[w] # "release"
    BY DEF LabelInv, LabelOK
  <2>2. ASSUME NEW v \in VMs
        PROVE  /\ booking'[v].live => paid'[v] = NoHost
               /\ paid'[v] # NoHost => paid'[v] = booking'[v].spec
    <3>1. ASSUME NEW u \in VMs, NEW p \in Hosts \cup {NoHost}, Settles(u, p),
                 p \in {NoHost, booking[u].spec}
          PROVE  /\ booking'[v].live => paid'[v] = NoHost
                 /\ paid'[v] # NoHost => paid'[v] = booking'[v].spec
      BY <2>0, <3>1, SettlesType DEF PaidInv
    <3>2. ASSUME NEW w \in Reapers, Repointed(w)
          PROVE  /\ booking'[v].live => paid'[v] = NoHost
                 /\ paid'[v] # NoHost => paid'[v] = booking'[v].spec
      BY <2>0, <3>2 DEF Repointed, TypeOK, BookingRow, PaidInv
    <3>3. CASE UNCHANGED <<booking, paid>>
      BY <3>3 DEF PaidInv
    <3> QED BY <2>1, <3>1, <3>2, <3>3, BookingEffect
  <2> QED BY <2>2 DEF PaidInv
<1>3. PaidInv => HostIsPaid
  BY DEF PaidInv, HostIsPaid
<1> QED BY <1>1, <1>2, <1>3, TypeInvHolds, LabelInvHolds, PTL DEF Spec

-----------------------------------------------------------------------------
(* What happens to a VM *)

Moved(w) ==
  /\ pc[w] = "move" /\ loc[w].vm \in VMs /\ VMLive(loc[w].vm) /\ loc[w].new \in Hosts
  /\ vm' = [vm EXCEPT ![loc[w].vm] = [status |-> "migrating", spec |-> loc[w].new]]

(* A VM is stopped, fails, is registered or moves.                         *)
LEMMA VMEffect ==
  ASSUME TypeInv, [Next]_vars
  PROVE  \/ vm' = vm
         \/ \E v \in VMs : SetVM(v, "stopped") \/ SetVM(v, "failed")
         \/ \E w \in Requests : RegisterWrite(w) /\ SetVM(loc[w].vm, "running")
         \/ \E w \in Reapers : Moved(w)
<1> DEFINE Goal == \/ vm' = vm
                   \/ \E v \in VMs : SetVM(v, "stopped") \/ SetVM(v, "failed")
                   \/ \E w \in Requests : RegisterWrite(w) /\ SetVM(loc[w].vm, "running")
                   \/ \E w \in Reapers : Moved(w)
<1>1. CASE World
  BY <1>1, WorldEffect DEF World
<1>2. ASSUME NEW w \in Reapers,
             Reads(w) \/ FailoverPick(w) \/ FailoverBook(w) \/ Frees(w) \/ Stops(w)
      PROVE  Goal
  <2>1. w \in Workers /\ (pc[w] = "pick" => loc[w].vm \in VMs)
    BY DEF Workers, TypeInv, Loaded
  <2> QED BY <1>2, <2>1, ReadsEffect, FailoverPickEffect, FailoverBookEffect,
             FreeEffect, StopEffect DEF Frees, Stops, Quiet
<1>3. ASSUME NEW w \in Reapers, FailoverMove(w) PROVE Goal
  <2>1. w \in Workers /\ (pc[w] = "move" => loc[w].vm \in VMs /\ loc[w].new \in Hosts)
    BY DEF Workers, TypeInv, Loaded
  <2> QED BY <1>3, <2>1, FailoverMoveEffect DEF Moved
<1>4. ASSUME NEW w \in Reapers, NEW v \in VMs,
             FailoverBegin(w, v) \/ RefundCas(w, v) \/ ExpireRelease(w, v)
      PROVE  Goal
  <2>1. w \in Workers
    BY DEF Workers
  <2> QED BY <1>4, <2>1, FailoverBeginEffect, RefundCasEffect, ExpireReleaseEffect
<1>5. ASSUME NEW w \in Requests,
             StopSettle(w) \/ AcceptRelease(w) \/ FreeUnit(w) \/ RegisterWrite(w)
      PROVE  Goal
  <2>1. w \in Workers
    BY DEF Workers
  <2> QED BY <1>5, <2>1, StopSettleEffect, AcceptReleaseEffect, FreeEffect, RegisterWriteEffect
<1>6. ASSUME NEW w \in Requests, NEW v \in VMs,
             StopCas(w, v) \/ ResultRelease(w, v) \/ AcceptRead(w, v) \/ RegisterRead(w, v)
      PROVE  Goal
  <2>1. w \in Workers
    BY DEF Workers
  <2> QED BY <1>6, <2>1, StopCasEffect, ResultReleaseEffect, AcceptReadEffect,
             RegisterReadEffect DEF Quiet
<1>7. ASSUME NEW w \in Workers, Crash(w) PROVE Goal
  BY <1>7, CrashEffect
<1> HIDE DEF Goal
<1>8. Goal
  BY <1>1, <1>2, <1>3, <1>4, <1>5, <1>6, <1>7, StepCases DEF Goal
<1> QED BY <1>8 DEF Goal

(* the write of a registration that read VM v before v was stopped *)
Resumes(w, v) ==
  RegisterWrite(w) /\ loc[w].vm = v /\ loc[w].was \in {"starting", "migrating", "failed"}

(* register_vm_tunnel refuses a stopped VM and then writes the status      *)
(* unconditionally.  Only that sets a stopped VM running again, and only   *)
(* for a registration that read the VM before the stop, while it was       *)
(* starting, migrating or failed: no failover, settlement or meter does,   *)
(* whatever they read before the stop.                                     *)
THEOREM OnlyRegistrationResumes ==
  Spec => [][\A v \in VMs : vm[v].status = "stopped" /\ vm'[v].status \in Running =>
               \E w \in Requests : Resumes(w, v)]_vars
<1> DEFINE Only == \A v \in VMs : vm[v].status = "stopped" /\ vm'[v].status \in Running =>
                     \E w \in Requests : Resumes(w, v)
<1>1. TypeInv /\ [Next]_vars => [Only]_vars
  <2> SUFFICES ASSUME TypeInv, [Next]_vars,
                      NEW v \in VMs, vm[v].status = "stopped", vm'[v].status \in Running
               PROVE  \E w \in Requests : Resumes(w, v)
    OBVIOUS
  <2>0. TypeOK /\ {"stopped", "failed"} \cap Running = {}
    BY DEF TypeInv, Running
  <2>1. ASSUME NEW u \in VMs, SetVM(u, "stopped") \/ SetVM(u, "failed")
        PROVE  FALSE
    BY <2>0, <2>1, SetVMType
  <2>2. ASSUME NEW w \in Reapers, Moved(w)
        PROVE  FALSE
    BY <2>0, <2>2 DEF Moved, VMLive, TypeOK
  <2>3. CASE vm' = vm
    BY <2>0, <2>3
  <2>4. ASSUME NEW w \in Requests, RegisterWrite(w), SetVM(loc[w].vm, "running")
        PROVE  Resumes(w, v)
    <3>1. w \in Workers /\ loc[w].was \in Running \cup {"failed"}
      BY <2>0 DEF Workers, TypeOK, Locals
    <3>2. loc[w].vm \in VMs
      BY <2>4, <3>1, RegisterWriteEffect
    <3>3. loc[w].vm = v
      BY <2>0, <2>4, <3>2 DEF SetVM, TypeOK
    <3>4. loc[w].was # "running"
      <4>1. loc[w].was = "running" => vm' = vm
        BY <2>4 DEF RegisterWrite
      <4> QED BY <2>3, <4>1, <2>0
    <3> QED BY <2>4, <3>1, <3>3, <3>4 DEF Resumes, Running
  <2> QED BY <2>1, <2>2, <2>3, <2>4, VMEffect
<1> QED BY <1>1, TypeInvHolds, PTL DEF Spec

-----------------------------------------------------------------------------
(* The booking follows the VM, with one reaper *)

(* All the maintenance cycles are of one process. *)
OneReaper == \A a, b \in Reapers : a = b

FollowInv ==
  /\ count.crashes = 0 =>
       \A v \in VMs : booking[v].live /\ ~Moving(v) => booking[v].spec = vm[v].spec
  /\ \A w \in Workers : pc[w] = "book" => vm[loc[w].vm].spec = loc[w].new
  /\ \A w \in Workers : pc[w] = "orphan" => ~booking[loc[w].vm].live

(* A step that moves no VM and no booking. *)
LEMMA FollowFrame ==
  ASSUME TypeInv, FollowInv, NEW w \in Workers, StepOf(w),
         \A v \in VMs : /\ vm'[v].spec = vm[v].spec /\ booking'[v].spec = booking[v].spec
                        /\ booking'[v].live => booking[v].live,
         pc[w] \notin {"book", "orphan"}, pc'[w] \notin {"book", "orphan"},
         count'.crashes = count.crashes
  PROVE  FollowInv'
<1>1. ASSUME NEW v \in VMs PROVE Moving(v)' <=> Moving(v)
  BY DEF Moving, StepOf, Workers
<1>2. \A x \in Workers : pc[x] \in {"book", "orphan"} => loc[x].vm \in VMs
  BY DEF TypeInv, Loaded
<1>3. ASSUME NEW x \in Workers, pc'[x] \in {"book", "orphan"}
      PROVE  x # w /\ pc'[x] = pc[x] /\ loc'[x] = loc[x] /\ loc[x].vm \in VMs
  BY <1>2, <1>3 DEF StepOf
<1> QED BY <1>1, <1>3 DEF FollowInv

(* Every step keeps FollowInv.                                             *)
LEMMA FollowStep ==
  ASSUME OneReaper, TypeInv, LabelInv, FollowInv, [Next]_vars
  PROVE  FollowInv'
<1>0. /\ Reapers \subseteq Workers /\ Requests \subseteq Workers /\ TypeOK
      /\ \A w \in Workers : pc[w] \in {"book", "orphan"} => w \in Reapers
  BY DEF Workers, TypeInv, LabelInv, LabelOK, RequestLabels
<1> DEFINE Same == \A v \in VMs : /\ vm'[v].spec = vm[v].spec /\ booking'[v].spec = booking[v].spec
                                  /\ booking'[v].live => booking[v].live
<1>a. ASSUME NEW v \in VMs, booking' = booking, vm' = vm \/ SetVM(v, "stopped") \/ SetVM(v, "failed") \/ SetVM(v, "running")
      PROVE  Same
  BY <1>0, <1>a, SetVMType DEF Running
<1>b. ASSUME NEW v \in VMs, NEW p \in Hosts \cup {NoHost}, Settles(v, p), vm' = vm
      PROVE  Same
  BY <1>0, <1>b, SettlesType
<1>c. UNCHANGED <<vm, booking>> => Same
  OBVIOUS
<1>d. \A v \in VMs : booking[v].spec \in Hosts
  BY <1>0, RowType
<1>e. \A w \in Workers : /\ pc[w] \in {"pick", "move", "book", "orphan", "orphan_stop", "ex_stop",
                                       "settle", "release", "register"} => loc[w].vm \in VMs
                         /\ pc[w] \in {"move", "book"} => loc[w].new \in Hosts
  BY DEF TypeInv, Loaded
<1> HIDE DEF Same
<1>1. CASE World
  BY <1>1, WorldEffect DEF World, FollowInv, Moving
<1>2. ASSUME NEW w \in Reapers, Reads(w)
      PROVE  FollowInv'
  BY <1>0, <1>2, <1>c, ReadsEffect, FollowFrame DEF Quiet, Same
<1>3. ASSUME NEW w \in Reapers, FailoverPick(w)
      PROVE  FollowInv'
  BY <1>0, <1>3, <1>a, <1>e, FailoverPickEffect, FollowFrame DEF Same
<1>4. ASSUME NEW w \in Reapers, FailoverMove(w)
      PROVE  FollowInv'
  <2>1. /\ TypeInv' /\ StepOf(w) /\ UNCHANGED <<booking, count>>
        /\ pc[w] = "move" /\ loc'[w] = loc[w]
        /\ \/ pc'[w] = "vms" /\ SetVM(loc[w].vm, "failed")
           \/ pc'[w] = "lost" /\ vm' = vm
           \/ /\ pc'[w] = "book"
              /\ vm' = [vm EXCEPT ![loc[w].vm] = [status |-> "migrating", spec |-> loc[w].new]]
    BY <1>0, <1>4, FailoverMoveEffect
  <2>2. CASE pc'[w] # "book"
    BY <1>0, <1>a, <1>e, <2>1, <2>2, FollowFrame DEF Same
  <2>3. CASE pc'[w] = "book"
    <3>1. vm'[loc[w].vm].spec = loc[w].new /\ \A u \in VMs \ {loc[w].vm} : vm'[u] = vm[u]
      BY <1>0, <1>e, <2>1, <2>3 DEF TypeOK
    <3>2. \A x \in Workers : pc[x] \notin {"book", "orphan"}
      BY <1>0, <2>1 DEF OneReaper
    <3>3. \A x \in Workers : pc'[x] \in {"book", "orphan"} => x = w
      BY <2>1, <3>2 DEF StepOf
    <3>4. \A u \in VMs : ~Moving(u) /\ (Moving(u)' \/ u # loc[w].vm)
      BY <1>0, <2>1, <2>3, <3>2 DEF Moving
    <3> QED BY <2>1, <2>3, <3>1, <3>3, <3>4 DEF FollowInv
  <2> QED BY <2>2, <2>3
<1>5. ASSUME NEW w \in Reapers, FailoverBook(w)
      PROVE  FollowInv'
  <2>1. /\ StepOf(w) /\ UNCHANGED <<vm, count>> /\ pc[w] = "book" /\ loc'[w] = loc[w]
        /\ \/ /\ pc'[w] = "free_old" /\ booking[loc[w].vm].live
              /\ booking' = [booking EXCEPT ![loc[w].vm].spec = loc[w].new]
           \/ pc'[w] = "orphan" /\ ~booking[loc[w].vm].live /\ booking' = booking
    BY <1>0, <1>5, FailoverBookEffect
  <2>2. \A x \in Workers : pc[x] \in {"book", "orphan"} => x = w
    BY <1>0, <2>1 DEF OneReaper
  <2>3. \A x \in Workers : pc'[x] \in {"book", "orphan"} => x = w /\ pc'[w] = "orphan"
    BY <2>1, <2>2 DEF StepOf
  <2>4. \A u \in VMs \ {loc[w].vm} : ~Moving(u)
    BY <2>2, <1>0 DEF Moving
  <2>5. vm[loc[w].vm].spec = loc[w].new
    BY <1>0, <2>1 DEF FollowInv
  <2>6. CASE pc'[w] = "free_old"
    <3>1. /\ booking'[loc[w].vm].spec = loc[w].new
          /\ \A u \in VMs \ {loc[w].vm} : booking'[u] = booking[u]
      BY <1>0, <1>e, <2>1, <2>6 DEF TypeOK, BookingRow
    <3> QED BY <2>1, <2>3, <2>4, <2>5, <2>6, <3>1 DEF FollowInv
  <2>7. CASE pc'[w] = "orphan"
    BY <2>1, <2>3, <2>4, <2>7 DEF FollowInv, Moving
  <2> QED BY <2>1, <2>6, <2>7
<1>6. ASSUME NEW w \in Reapers, Frees(w)
      PROVE  FollowInv'
  <2>1. /\ StepOf(w) /\ UNCHANGED <<vm, booking, count>>
        /\ pc[w] \in {"lost", "orphan", "free_old", "rf_free", "ex_free", "free"}
        /\ pc'[w] \notin {"book", "orphan"}
        /\ pc[w] = "orphan" => loc[w].vm \in VMs
    BY <1>0, <1>6, FreeEffect DEF Frees
  <2>2. CASE pc[w] = "orphan"
    <3>1. ~booking[loc[w].vm].live
      BY <1>0, <2>2 DEF FollowInv
    <3>2. \A u \in VMs \ {loc[w].vm} : Moving(u)' <=> Moving(u)
      BY <1>0, <2>1, <2>2 DEF Moving, StepOf
    <3>3. \A x \in Workers : pc'[x] \in {"book", "orphan"} =>
                               x # w /\ pc'[x] = pc[x] /\ loc'[x] = loc[x]
      BY <2>1 DEF StepOf
    <3> QED BY <2>1, <3>1, <3>2, <3>3 DEF FollowInv
  <2>3. CASE pc[w] # "orphan"
    BY <1>0, <1>c, <2>1, <2>3, FollowFrame DEF Same
  <2> QED BY <2>2, <2>3
<1>7. ASSUME NEW w \in Reapers, Stops(w)
      PROVE  FollowInv'
  BY <1>0, <1>7, <1>a, <1>e, StopEffect, FollowFrame DEF Stops, Same
<1>8. ASSUME NEW w \in Reapers, NEW v \in VMs, FailoverBegin(w, v)
      PROVE  FollowInv'
  BY <1>0, <1>8, <1>a, FailoverBeginEffect, FollowFrame DEF Same
<1>9. ASSUME NEW w \in Reapers, NEW v \in VMs, RefundCas(w, v) \/ ExpireRelease(w, v)
      PROVE  FollowInv'
  <2>1. /\ StepOf(w) /\ UNCHANGED <<vm, count>>
        /\ pc[w] \in {"rf", "ex"} /\ pc'[w] \in {"rf", "rf_free", "ex_free", "ex_stop"}
        /\ booking' = booking \/ Settles(v, NoHost) \/ Settles(v, booking[v].spec)
    BY <1>0, <1>9, RefundCasEffect, ExpireReleaseEffect
  <2>2. Same
    BY <1>b, <1>c, <1>d, <2>1
  <2> QED BY <1>0, <2>1, <2>2, FollowFrame DEF Same
<1>10. ASSUME NEW w \in Requests, NEW v \in VMs,
              StopCas(w, v) \/ ResultRelease(w, v) \/ AcceptRead(w, v) \/ RegisterRead(w, v)
       PROVE  FollowInv'
  <2>1. /\ StepOf(w) /\ count'.crashes = count.crashes
        /\ pc[w] = "idle" /\ pc'[w] \in {"settle", "free", "release", "register"}
        /\ \/ booking' = booking /\ SetVM(v, "stopped")
           \/ vm' = vm /\ (booking' = booking \/ Settles(v, booking[v].spec))
    BY <1>0, <1>10, StopCasEffect, ResultReleaseEffect, AcceptReadEffect, RegisterReadEffect
       DEF Quiet
  <2>2. Same
    BY <1>a, <1>b, <1>c, <1>d, <2>1
  <2> QED BY <1>0, <2>1, <2>2, FollowFrame DEF Same
<1>11. ASSUME NEW w \in Requests,
              StopSettle(w) \/ AcceptRelease(w) \/ FreeUnit(w) \/ RegisterWrite(w)
       PROVE  FollowInv'
  <2>1. StepOf(w) /\ count' = count /\ pc'[w] \in {"free", "idle"} /\ Same
    <3>1. CASE StopSettle(w)
      BY <1>0, <1>b, <1>c, <1>d, <3>1, StopSettleEffect
    <3>2. CASE AcceptRelease(w)
      BY <1>0, <1>b, <1>c, <3>2, AcceptReleaseEffect
    <3>3. CASE FreeUnit(w)
      <4>1. pc[w] = "free"
        BY <3>3 DEF FreeUnit, Finish, GotoWith
      <4> QED BY <1>0, <1>c, <3>3, <4>1, FreeEffect
    <3>4. CASE RegisterWrite(w)
      BY <1>0, <1>a, <1>c, <3>4, RegisterWriteEffect
    <3> QED BY <1>11, <3>1, <3>2, <3>3, <3>4
  <2>2. pc[w] \notin {"book", "orphan"}
    BY <1>0 DEF LabelInv, LabelOK, RequestLabels
  <2> QED BY <1>0, <2>1, <2>2, FollowFrame DEF Same
<1>12. ASSUME NEW w \in Workers, Crash(w)
       PROVE  FollowInv'
  <2>1. /\ StepOf(w) /\ UNCHANGED <<vm, booking>> /\ pc'[w] = "idle"
        /\ count'.crashes = count.crashes + 1
    BY <1>12, CrashEffect
  <2>2. count'.crashes # 0
    BY <1>0, <2>1 DEF TypeOK
  <2>3. \A x \in Workers : pc'[x] \in {"book", "orphan"} => pc'[x] = pc[x] /\ loc'[x] = loc[x]
    BY <2>1 DEF StepOf
  <2> QED BY <2>1, <2>2, <2>3 DEF FollowInv
<1> QED BY <1>1, <1>2, <1>3, <1>4, <1>5, <1>6, <1>7, <1>8, <1>9, <1>10, <1>11, <1>12, StepCases

(* With one reaper, the booking of a VM that is not being moved is on its  *)
(* host, and a move that waits for its booking knows where the VM is.      *)
THEOREM FollowInvHolds ==
  ASSUME OneReaper
  PROVE  Spec => []FollowInv
<1>1. Init => FollowInv
  BY DEF Init, FollowInv
<1>2. TypeInv /\ LabelInv /\ FollowInv /\ [Next]_vars => FollowInv'
  BY FollowStep
<1> QED BY <1>1, <1>2, TypeInvHolds, LabelInvHolds, PTL DEF Spec

(* With one reaper, and whatever requests do meanwhile, the live booking   *)
(* of a live VM is on the host the VM is on, unless a failover of it is    *)
(* under way or a process died (failover_vm).                              *)
THEOREM BookingFollowsVMHolds ==
  ASSUME OneReaper
  PROVE  Spec => []BookingFollowsVM
<1>1. FollowInv => BookingFollowsVM
  BY DEF FollowInv, BookingFollowsVM
<1> QED BY <1>1, FollowInvHolds, PTL

-----------------------------------------------------------------------------
(* Capacity, with one reaper and metered stops: what the copies that the    *)
(* workers hold still say of the rows.                                     *)

StopsOnly == Handlers \subseteq {"stop"}

Settling(w, v) == pc[w] = "settle" /\ loc[w].vm = v
RowsOK(w) ==
  /\ pc[w] \in {"pick", "move", "book"} /\ VMLive(loc[w].vm) => booking[loc[w].vm].live
  /\ pc[w] = "settle" => ~VMLive(loc[w].vm) /\ vm[loc[w].vm].spec = loc[w].old
  /\ pc[w] \in {"rf", "rf_free"} => \A v \in loc[w].todo : booking[v].spec = loc[w].old
CopyInv ==
  /\ \A w \in Workers : RowsOK(w)
  /\ \A w, x \in Workers : pc[w] = "book" /\ Settling(x, loc[w].vm) => booking[loc[w].vm].live
  /\ \A w, x \in Workers : pc[w] = "settle" /\ Settling(x, loc[w].vm) => x = w

(* The steps there are with metered stops only.                            *)
LEMMA StopCases ==
  ASSUME StopsOnly, LabelInv, [Next]_vars
  PROVE  \/ World
         \/ \E w \in Reapers : \/ Reads(w) \/ FailoverPick(w) \/ FailoverMove(w)
                               \/ FailoverBook(w) \/ Frees(w) \/ Stops(w)
         \/ \E w \in Reapers, v \in VMs : \/ FailoverBegin(w, v) \/ RefundCas(w, v)
                                          \/ ExpireRelease(w, v)
         \/ \E w \in Requests : StopSettle(w) \/ FreeUnit(w)
         \/ \E w \in Requests, v \in VMs : StopCas(w, v)
         \/ \E w \in Workers : Crash(w)
<1>1. \A w \in Requests : ~AcceptRelease(w) /\ ~RegisterWrite(w)
  BY DEF StopsOnly, LabelInv, LabelOK, Workers, AcceptRelease, RegisterWrite, Finish, GotoWith
<1>2. \A w \in Requests, v \in VMs : ~ResultRelease(w, v) /\ ~AcceptRead(w, v) /\ ~RegisterRead(w, v)
  BY DEF StopsOnly, ResultRelease, AcceptRead, RegisterRead
<1> QED BY <1>1, <1>2, StepCases

(* A step that moves no VM or booking and starts no settlement of a VM.     *)
LEMMA CopyFrame ==
  ASSUME TypeInv, CopyInv, NEW w \in Workers, StepOf(w), RowsOK(w)',
         pc'[w] \notin {"book", "settle"},
         \A v \in VMs : /\ vm'[v].spec = vm[v].spec /\ booking'[v].spec = booking[v].spec
                        /\ VMLive(v)' => VMLive(v),
         \A v \in VMs : \/ booking'[v].live = booking[v].live
                        \/ \A x \in Workers \ {w} :
                             /\ pc[x] \in {"pick", "move", "book"} /\ loc[x].vm = v => ~VMLive(v)
                             /\ ~Settling(x, v)
  PROVE  CopyInv'
<1>1. \A x \in Workers : /\ pc[x] \in {"pick", "move", "book", "settle"} => loc[x].vm \in VMs
                         /\ loc[x].todo \subseteq VMs
  BY LocalType DEF TypeInv, Loaded
<1>2. \A x \in Workers \ {w} : pc'[x] = pc[x] /\ loc'[x] = loc[x]
  BY DEF StepOf
<1>3. ASSUME NEW x \in Workers \ {w} PROVE RowsOK(x)'
  <2>0. RowsOK(x)
    BY DEF CopyInv
  <2>1. pc'[x] \in {"pick", "move", "book"} /\ VMLive(loc[x].vm)' => booking'[loc'[x].vm].live
    BY <2>0, <1>1, <1>2 DEF RowsOK
  <2>2. pc'[x] = "settle" => ~VMLive(loc[x].vm)' /\ vm'[loc'[x].vm].spec = loc'[x].old
    BY <2>0, <1>1, <1>2 DEF RowsOK
  <2>3. pc'[x] \in {"rf", "rf_free"} => \A v \in loc'[x].todo : booking'[v].spec = loc'[x].old
    BY <2>0, <1>1, <1>2 DEF RowsOK
  <2> QED BY <2>1, <2>2, <2>3 DEF RowsOK
<1>4. ASSUME NEW y \in Workers, NEW x \in Workers, pc'[y] = "book", Settling(x, loc[y].vm)'
      PROVE  booking'[loc'[y].vm].live
  <2>1. /\ y # w /\ x # w /\ pc[y] = "book" /\ loc'[y] = loc[y] /\ Settling(x, loc[y].vm)
        /\ loc[y].vm \in VMs
    BY <1>1, <1>2, <1>4 DEF Settling
  <2> QED BY <2>1 DEF CopyInv
<1>5. ASSUME NEW y \in Workers, NEW x \in Workers, pc'[y] = "settle", Settling(x, loc[y].vm)'
      PROVE  x = y
  BY <1>1, <1>2, <1>5 DEF Settling, CopyInv
<1> QED BY <1>3, <1>4, <1>5 DEF CopyInv

(* Every step keeps CopyInv.                                               *)
LEMMA CopyStep ==
  ASSUME OneReaper, StopsOnly, TypeInv, LabelInv, FollowInv, CopyInv, [Next]_vars
  PROVE  CopyInv'
<1>0. /\ Reapers \subseteq Workers /\ Requests \subseteq Workers /\ TypeOK
      /\ \A w \in Workers : pc[w] \in {"pick", "move", "book", "rf", "rf_free"} => w \in Reapers
      /\ Reapers \cap Requests = {} /\ Workers = Reapers \cup Requests
  BY WorkerAssumption DEF Workers, TypeInv, LabelInv, LabelOK, RequestLabels
<1>e. \A w \in Workers : /\ pc[w] \in {"pick", "move", "book", "orphan", "orphan_stop", "ex_stop",
                                       "settle"} => loc[w].vm \in VMs
                         /\ pc[w] \in {"move", "book"} => loc[w].new \in Hosts
                         /\ loc[w].todo \subseteq VMs
  BY LocalType DEF TypeInv, Loaded
<1>f. \A v \in VMs : booking[v].spec \in Hosts
  BY <1>0, RowType
<1> DEFINE SameVM == \A v \in VMs : vm'[v].spec = vm[v].spec /\ (VMLive(v)' => VMLive(v))
<1>a. ASSUME NEW v \in VMs, vm' = vm \/ SetVM(v, "stopped") \/ SetVM(v, "failed")
      PROVE  SameVM
  <2>1. {"stopped", "failed"} \cap Running = {}
    BY DEF Running
  <2> QED BY <1>0, <1>a, <2>1, SetVMType DEF VMLive
<1>b. vm' = vm => SameVM
  BY DEF VMLive
<1> HIDE DEF SameVM
<1>1. CASE World
  BY <1>1, WorldEffect DEF World, CopyInv, RowsOK, Settling, VMLive
<1>2. ASSUME NEW w \in Reapers, Reads(w)
      PROVE  CopyInv'
  <2>1. /\ StepOf(w) /\ UNCHANGED <<vm, booking>> /\ SameVM
        /\ pc'[w] \in {"mark", "rf_hosts", "ex", "hosts", "rf_scan", "ex_scan", "idle", "vms", "rf"}
        /\ pc'[w] = "rf" => \A v \in loc'[w].todo : booking[v].spec = loc'[w].old
    BY <1>0, <1>2, <1>b, ReadsEffect DEF Quiet
  <2>2. RowsOK(w)'
    BY <2>1 DEF RowsOK
  <2> QED BY <1>0, <2>1, <2>2, CopyFrame DEF SameVM
<1>3. ASSUME NEW w \in Reapers, FailoverPick(w)
      PROVE  CopyInv'
  <2>1. /\ StepOf(w) /\ booking' = booking /\ SameVM /\ pc[w] = "pick" /\ loc'[w].vm = loc[w].vm
        /\ pc'[w] \in {"vms", "move"}
    BY <1>0, <1>3, <1>a, <1>b, <1>e, FailoverPickEffect
  <2>2. RowsOK(w)'
    BY <1>0, <1>e, <2>1 DEF RowsOK, SameVM, CopyInv
  <2> QED BY <1>0, <2>1, <2>2, CopyFrame DEF SameVM
<1>4. ASSUME NEW w \in Reapers, FailoverMove(w)
      PROVE  CopyInv'
  <2>1. /\ StepOf(w) /\ booking' = booking /\ pc[w] = "move" /\ loc'[w] = loc[w]
        /\ \/ pc'[w] = "vms" /\ SetVM(loc[w].vm, "failed")
           \/ pc'[w] = "lost" /\ vm' = vm
           \/ /\ pc'[w] = "book" /\ VMLive(loc[w].vm)
              /\ vm' = [vm EXCEPT ![loc[w].vm] = [status |-> "migrating", spec |-> loc[w].new]]
    BY <1>0, <1>4, FailoverMoveEffect
  <2>2. CASE pc'[w] # "book"
    <3>1. SameVM
      BY <1>0, <1>a, <1>b, <1>e, <2>1, <2>2
    <3>2. RowsOK(w)' /\ pc'[w] \notin {"book", "settle"}
      BY <2>1, <2>2 DEF RowsOK
    <3> QED BY <1>0, <2>1, <3>1, <3>2, CopyFrame DEF SameVM
  <2>3. CASE pc'[w] = "book"
    <3>1. \A u \in VMs \ {loc[w].vm} : vm'[u] = vm[u] /\ (VMLive(u)' <=> VMLive(u))
      BY <1>0, <2>1, <2>3 DEF TypeOK, VMLive
    <3>2. booking[loc[w].vm].live /\ VMLive(loc[w].vm)
      BY <1>0, <2>1, <2>3 DEF CopyInv, RowsOK
    <3>3. \A x \in Workers \ {w} : /\ pc'[x] = pc[x] /\ loc'[x] = loc[x]
                                   /\ pc[x] \notin {"pick", "move", "book", "rf", "rf_free"}
      BY <1>0, <2>1 DEF StepOf, OneReaper
    <3>4. \A x \in Workers : Settling(x, loc[w].vm)' <=> FALSE
      BY <1>0, <2>1, <2>3, <3>2, <3>3 DEF CopyInv, RowsOK, Settling
    <3>5. \A x \in Workers : RowsOK(x)'
      <4>1. RowsOK(w)'
        BY <2>1, <2>3, <3>2 DEF RowsOK
      <4>2. ASSUME NEW x \in Workers \ {w} PROVE RowsOK(x)'
        <5>1. pc[x] = "settle" => loc[x].vm # loc[w].vm /\ loc[x].vm \in VMs
          BY <1>e, <2>1, <3>3, <3>4 DEF Settling
        <5>2. RowsOK(x)
          BY DEF CopyInv
        <5> QED BY <3>1, <3>3, <5>1, <5>2 DEF RowsOK
      <4> QED BY <4>1, <4>2
    <3>6. \A y, x \in Workers : pc'[y] = "book" /\ Settling(x, loc[y].vm)' => FALSE
      BY <2>1, <3>3, <3>4
    <3>7. \A y, x \in Workers : pc'[y] = "settle" /\ Settling(x, loc[y].vm)' => x = y
      BY <2>3, <3>3 DEF CopyInv, Settling
    <3> QED BY <3>5, <3>6, <3>7 DEF CopyInv
  <2> QED BY <2>2, <2>3
<1>5. ASSUME NEW w \in Reapers, FailoverBook(w)
      PROVE  CopyInv'
  <2>1. /\ StepOf(w) /\ vm' = vm /\ pc[w] = "book" /\ loc'[w] = loc[w]
        /\ \/ /\ pc'[w] = "free_old"
              /\ booking' = [booking EXCEPT ![loc[w].vm].spec = loc[w].new]
           \/ pc'[w] = "orphan" /\ booking' = booking
    BY <1>0, <1>5, FailoverBookEffect
  <2>2. \A x \in Workers : /\ pc'[x] \notin {"pick", "move", "book", "rf", "rf_free"}
                           /\ pc'[x] = "settle" => pc[x] = "settle" /\ loc'[x] = loc[x]
    BY <1>0, <2>1 DEF StepOf, OneReaper
  <2> QED BY <2>1, <2>2 DEF CopyInv, RowsOK, Settling, VMLive
<1>6. ASSUME NEW w \in Workers, Frees(w) \/ FreeUnit(w)
      PROVE  CopyInv'
  <2>1. /\ StepOf(w) /\ UNCHANGED <<vm, booking>> /\ SameVM
        /\ pc'[w] \in {"vms", "orphan_stop", "rf", "ex_stop", "idle"}
        /\ pc'[w] = "rf" => pc[w] = "rf_free" /\ loc'[w] = loc[w]
    BY <1>6, <1>b, FreeEffect DEF Frees
  <2>2. RowsOK(w)'
    BY <2>1 DEF RowsOK, CopyInv
  <2> QED BY <2>1, <2>2, CopyFrame DEF SameVM
<1>7. ASSUME NEW w \in Reapers, Stops(w)
      PROVE  CopyInv'
  <2>1. /\ StepOf(w) /\ booking' = booking /\ SameVM /\ pc'[w] \in {"vms", "ex"}
    BY <1>0, <1>7, <1>a, <1>e, StopEffect DEF Stops
  <2>2. RowsOK(w)'
    BY <2>1 DEF RowsOK
  <2> QED BY <1>0, <2>1, <2>2, CopyFrame DEF SameVM
<1>8. ASSUME NEW w \in Reapers, NEW v \in VMs, FailoverBegin(w, v)
      PROVE  CopyInv'
  <2>1. /\ StepOf(w) /\ booking' = booking /\ SameVM /\ loc'[w].vm = v
        /\ (pc'[w] = "pick" /\ booking[v].live) \/ pc'[w] = "vms"
    BY <1>0, <1>8, <1>a, <1>b, FailoverBeginEffect
  <2>2. RowsOK(w)'
    BY <2>1 DEF RowsOK
  <2> QED BY <1>0, <2>1, <2>2, CopyFrame DEF SameVM
<1>9. ASSUME NEW w \in Reapers, NEW v \in VMs, RefundCas(w, v) \/ ExpireRelease(w, v)
      PROVE  CopyInv'
  <2>1. /\ StepOf(w) /\ vm' = vm /\ SameVM
        /\ pc[w] \in {"rf", "ex"} /\ pc'[w] \in {"rf", "rf_free", "ex_free", "ex_stop"}
        /\ pc'[w] \in {"rf", "rf_free"} => /\ pc[w] = "rf" /\ loc'[w].todo \subseteq loc[w].todo
                                           /\ loc'[w].old = loc[w].old
        /\ booking' = booking \/ Settles(v, NoHost) \/ Settles(v, booking[v].spec)
    BY <1>0, <1>9, <1>b, RefundCasEffect, ExpireReleaseEffect
  <2>2. \A u \in VMs : booking'[u].spec = booking[u].spec
    BY <1>0, <1>f, <2>1, SettlesType
  <2>3. RowsOK(w)'
    BY <1>0, <1>e, <2>1, <2>2 DEF RowsOK, CopyInv
  <2>4. \A x \in Workers \ {w} : pc[x] \notin {"pick", "move", "book"}
    BY <1>0 DEF OneReaper
  <2>5. \A x \in Workers : pc'[x] \notin {"pick", "move", "book"}
    BY <2>1, <2>4 DEF StepOf
  <2>6. \A x \in Workers \ {w} : pc'[x] = pc[x] /\ loc'[x] = loc[x]
    BY <2>1 DEF StepOf
  <2>7. ASSUME NEW x \in Workers \ {w} PROVE RowsOK(x)'
    <3>1. RowsOK(x) /\ loc[x].todo \subseteq VMs
      BY <1>e DEF CopyInv
    <3> QED BY <2>1, <2>2, <2>5, <2>6, <3>1 DEF RowsOK, VMLive
  <2>8. \A y, x \in Workers : pc'[y] = "settle" /\ Settling(x, loc[y].vm)' => x = y
    BY <2>1, <2>6 DEF CopyInv, Settling
  <2> QED BY <2>3, <2>5, <2>7, <2>8 DEF CopyInv
<1>10. ASSUME NEW w \in Requests, NEW v \in VMs, StopCas(w, v)
       PROVE  CopyInv'
  <2>1. /\ StepOf(w) /\ booking' = booking /\ pc[w] = "idle" /\ pc'[w] = "settle"
        /\ loc'[w].vm = v /\ loc'[w].old = vm[v].spec /\ VMLive(v) /\ SetVM(v, "stopped") /\ SameVM
    BY <1>0, <1>10, <1>a, StopCasEffect
  <2>2. vm'[v].spec = vm[v].spec /\ ~VMLive(v)'
    BY <1>0, <2>1, SetVMType DEF VMLive, Running
  <2>3. \A x \in Workers \ {w} : pc'[x] = pc[x] /\ loc'[x] = loc[x]
    BY <2>1 DEF StepOf
  <2>4. \A x \in Workers : ~Settling(x, v)
    BY <2>1 DEF CopyInv, RowsOK, Settling
  <2>5. ASSUME NEW x \in Workers PROVE RowsOK(x)'
    <3>1. RowsOK(x)
      BY DEF CopyInv
    <3>2. CASE x = w
      BY <2>1, <2>2, <3>2 DEF RowsOK
    <3>3. CASE x # w
      BY <1>e, <2>1, <2>3, <3>1, <3>3 DEF RowsOK, SameVM
    <3> QED BY <3>2, <3>3
  <2>6. ASSUME NEW y \in Workers, NEW x \in Workers, pc'[y] = "book", Settling(x, loc[y].vm)'
        PROVE  booking'[loc'[y].vm].live
    <3>1. y # w /\ pc[y] = "book" /\ loc'[y] = loc[y]
      BY <2>1, <2>3, <2>6
    <3>2. CASE x = w
      BY <2>1, <2>6, <3>1, <3>2 DEF Settling, CopyInv, RowsOK
    <3>3. CASE x # w
      BY <2>1, <2>3, <2>6, <3>1, <3>3 DEF Settling, CopyInv
    <3> QED BY <3>2, <3>3
  <2>7. \A y, x \in Workers : pc'[y] = "settle" /\ Settling(x, loc[y].vm)' => x = y
    BY <2>1, <2>3, <2>4 DEF CopyInv, Settling
  <2> QED BY <2>5, <2>6, <2>7 DEF CopyInv
<1>11. ASSUME NEW w \in Requests, StopSettle(w)
       PROVE  CopyInv'
  <2>1. /\ StepOf(w) /\ vm' = vm /\ SameVM /\ pc[w] = "settle" /\ loc[w].vm \in VMs
        /\ pc'[w] \in {"free", "idle"}
        /\ booking' = booking \/ Settles(loc[w].vm, booking[loc[w].vm].spec)
    BY <1>0, <1>11, <1>b, StopSettleEffect
  <2>2. /\ \A u \in VMs : booking'[u].spec = booking[u].spec
        /\ \A u \in VMs \ {loc[w].vm} : booking'[u] = booking[u]
    BY <1>0, <1>f, <2>1, SettlesType
  <2>3. RowsOK(w)'
    BY <2>1 DEF RowsOK
  <2>4. ~VMLive(loc[w].vm) /\ \A x \in Workers \ {w} : ~Settling(x, loc[w].vm)
    BY <1>0, <2>1 DEF CopyInv, RowsOK
  <2> QED BY <1>0, <2>1, <2>2, <2>3, <2>4, CopyFrame DEF SameVM
<1>12. ASSUME NEW w \in Workers, Crash(w)
       PROVE  CopyInv'
  <2>1. StepOf(w) /\ UNCHANGED <<vm, booking>> /\ pc'[w] = "idle" /\ SameVM
    BY <1>12, <1>b, CrashEffect
  <2>2. RowsOK(w)'
    BY <2>1 DEF RowsOK
  <2> QED BY <2>1, <2>2, CopyFrame DEF SameVM
<1> QED BY <1>0, <1>1, <1>2, <1>3, <1>4, <1>5, <1>6, <1>7, <1>8, <1>9, <1>10, <1>11, <1>12, StopCases

-----------------------------------------------------------------------------
(* Counting *)

Ind(p) == IF p THEN 1 ELSE 0

(* Two sets that agree but for x. *)
LEMMA OneMore ==
  ASSUME NEW S, NEW T, IsFiniteSet(S), IsFiniteSet(T), NEW x, T \ {x} = S \ {x}
  PROVE  /\ Cardinality(S) \in Nat /\ Cardinality(T) \in Nat
         /\ Cardinality(T) + Ind(x \in S) = Cardinality(S) + Ind(x \in T)
<1>1. Cardinality(S) \in Nat /\ Cardinality(T) \in Nat
  BY FS_CardinalityType
<1>2. CASE (x \in S) <=> (x \in T)
  <2>1. S = T
    BY <1>2
  <2> QED BY <1>1, <2>1
<1>3. CASE x \in S /\ x \notin T
  <2>1. T = S \ {x}
    BY <1>3
  <2>2. Cardinality(T) = Cardinality(S) - 1
    BY <1>3, <2>1, FS_RemoveElement
  <2> QED BY <1>1, <1>3, <2>2 DEF Ind
<1>4. CASE x \notin S /\ x \in T
  <2>1. S = T \ {x}
    BY <1>4
  <2>2. Cardinality(S) = Cardinality(T) - 1
    BY <1>4, <2>1, FS_RemoveElement
  <2> QED BY <1>1, <1>4, <2>2 DEF Ind
<1> QED BY <1>2, <1>3, <1>4

LEMMA NoMoreBut ==
  ASSUME NEW S, NEW T, IsFiniteSet(S), IsFiniteSet(T), NEW x, T \ {x} \subseteq S \ {x}
  PROVE  /\ Cardinality(S) \in Nat /\ Cardinality(T) \in Nat
         /\ Cardinality(T) + Ind(x \in S) <= Cardinality(S) + Ind(x \in T)
<1> DEFINE U == (S \ {x}) \cup (T \cap {x})
<1>1. IsFiniteSet(U) /\ T \subseteq U /\ U \ {x} = S \ {x}
  <2>1. IsFiniteSet(S \ {x}) /\ IsFiniteSet(T \cap {x})
    BY FS_Subset
  <2> QED BY <2>1, FS_Union
<1>2. Cardinality(T) \in Nat /\ Cardinality(U) \in Nat /\ Cardinality(T) <= Cardinality(U)
  BY <1>1, FS_Subset, FS_CardinalityType
<1>3. /\ Cardinality(S) \in Nat
      /\ Cardinality(U) + Ind(x \in S) = Cardinality(S) + Ind(x \in U)
  BY <1>1, OneMore
<1>4. Ind(x \in U) = Ind(x \in T) /\ Ind(x \in S) \in Nat /\ Ind(x \in T) \in Nat
  BY DEF Ind
<1> HIDE DEF U
<1> QED BY <1>2, <1>3, <1>4

(* A unit that only a process that died, or a stop, still knows of: v runs  *)
(* on h, or is being moved off it or stopped on it, and its booking is     *)
(* elsewhere.                                                              *)
AtBook(v) == \E x \in Workers : pc[x] = "book" /\ loc[x].vm = v
Orphan(v, h) ==
  /\ h # booking[v].spec
  /\ \/ VMLive(v) /\ vm[v].spec = h /\ ~AtBook(v)
     \/ \E x \in Workers : pc[x] = "book" /\ loc[x].vm = v /\ loc[x].old = h
     \/ ~AtBook(v) /\ \E x \in Workers : Settling(x, v) /\ loc[x].old = h

Booked(h) == {v \in VMs : booking[v].live /\ booking[v].spec = h}
Held(h) == {w \in Workers : Holds(w, h)}
Orphans(h) == {v \in VMs : Orphan(v, h)}
Used(h) == avail[h] + Cardinality(Booked(h)) + Cardinality(Held(h))

(* The units of a host: free, booked, held or orphaned. *)
CapInv ==
  \A h \in Hosts : /\ Used(h) + Cardinality(Orphans(h)) <= Units
                   /\ count.crashes = 0 => Used(h) = Units /\ Orphans(h) = {}

(* The three sets of a host's units, and those after the step, are finite. *)
LEMMA Counts ==
  ASSUME NEW h
  PROVE  /\ IsFiniteSet(Booked(h)) /\ IsFiniteSet(Held(h)) /\ IsFiniteSet(Orphans(h))
         /\ Cardinality(Booked(h)) \in Nat /\ Cardinality(Held(h)) \in Nat
         /\ Cardinality(Orphans(h)) \in Nat
<1>1. IsFiniteSet(Booked(h)) /\ IsFiniteSet(Held(h)) /\ IsFiniteSet(Orphans(h))
  BY FiniteAssumption, FS_Subset DEF Booked, Held, Orphans
<1> QED BY <1>1, FS_CardinalityType

LEMMA CountsNext ==
  ASSUME NEW h \in Hosts
  PROVE  /\ IsFiniteSet(Booked(h)') /\ IsFiniteSet(Held(h)') /\ IsFiniteSet(Orphans(h)')
         /\ Cardinality(Booked(h)') \in Nat /\ Cardinality(Held(h)') \in Nat
         /\ Cardinality(Orphans(h)') \in Nat
<1>1. IsFiniteSet(Booked(h)') /\ IsFiniteSet(Held(h)') /\ IsFiniteSet(Orphans(h)')
  BY FiniteAssumption, FS_Subset DEF Booked, Held, Orphans
<1> QED BY <1>1, FS_CardinalityType

LEMMA AvailType ==
  ASSUME TypeOK, NEW h \in Hosts
  PROVE  avail[h] \in Nat /\ Units \in Nat /\ avail[h] <= Units
BY BoundAssumption DEF TypeOK

(* A step of w that changes the accounts of at most one VM balances them,   *)
(* host by host, if it does so for w and for that VM.                      *)
LEMMA CapFrame ==
  ASSUME TypeInv, TypeInv', CapInv, NEW w \in Workers, StepOf(w), NEW v, NEW h \in Hosts,
         Booked(h)' \ {v} = Booked(h) \ {v}, Orphans(h)' \ {v} \subseteq Orphans(h) \ {v},
         avail'[h] + Ind((v \in Booked(h))') + Ind(Holds(w, h)') + Ind((v \in Orphans(h))')
           <= avail[h] + Ind(v \in Booked(h)) + Ind(Holds(w, h)) + Ind(v \in Orphans(h)),
         count'.crashes = 0 =>
           /\ count.crashes = 0 /\ v \notin Orphans(h)'
           /\ avail'[h] + Ind((v \in Booked(h))') + Ind(Holds(w, h)')
                = avail[h] + Ind(v \in Booked(h)) + Ind(Holds(w, h))
  PROVE  /\ Used(h)' + Cardinality(Orphans(h)') <= Units
         /\ count'.crashes = 0 => Used(h)' = Units /\ Orphans(h)' = {}
<1>1. /\ avail[h] \in Nat /\ Units \in Nat /\ avail'[h] \in Nat
  BY AvailType, BoundAssumption DEF TypeInv, TypeOK
<1>2. Held(h)' \ {w} = Held(h) \ {w} /\ (w \in Held(h) <=> Holds(w, h)) /\ (w \in Held(h)' <=> Holds(w, h)')
  BY DEF Held, Holds, StepOf
<1>3. Cardinality(Booked(h)') + Ind(v \in Booked(h)) = Cardinality(Booked(h)) + Ind(v \in Booked(h)')
  BY Counts, CountsNext, OneMore
<1>4. Cardinality(Held(h)') + Ind(w \in Held(h)) = Cardinality(Held(h)) + Ind(w \in Held(h)')
  BY <1>2, Counts, CountsNext, OneMore
<1>5. Cardinality(Orphans(h)') + Ind(v \in Orphans(h)) <= Cardinality(Orphans(h)) + Ind(v \in Orphans(h)')
  BY Counts, CountsNext, NoMoreBut
<1>6. Ind(w \in Held(h)) = Ind(Holds(w, h)) /\ Ind(w \in Held(h)') = Ind(Holds(w, h)')
  BY <1>2 DEF Ind
<1>7. /\ \A p \in BOOLEAN : Ind(p) \in 0 .. 1
  BY DEF Ind
<1> DEFINE b == Cardinality(Booked(h))   b1 == Cardinality(Booked(h)')
           c == Cardinality(Held(h))     c1 == Cardinality(Held(h)')
           o == Cardinality(Orphans(h))  o1 == Cardinality(Orphans(h)')
<1>8. /\ b \in Nat /\ b1 \in Nat /\ c \in Nat /\ c1 \in Nat /\ o \in Nat /\ o1 \in Nat
  BY Counts, CountsNext
<1>9. /\ Used(h) = avail[h] + b + c /\ Used(h)' = avail'[h] + b1 + c1
  BY DEF Used
<1>10. /\ Ind(v \in Booked(h)) \in 0 .. 1 /\ Ind(v \in Booked(h)') \in 0 .. 1
       /\ Ind(Holds(w, h)) \in 0 .. 1 /\ Ind(Holds(w, h)') \in 0 .. 1
       /\ Ind(v \in Orphans(h)) \in 0 .. 1 /\ Ind(v \in Orphans(h)') \in 0 .. 1
  BY DEF Ind
<1> HIDE DEF b, b1, c, c1, o, o1
<1>11. Used(h) + o <= Units
  BY DEF CapInv, o
<1>12. Used(h)' + o1 <= Units
  BY <1>1, <1>3, <1>4, <1>5, <1>6, <1>8, <1>9, <1>10, <1>11 DEF b, b1, c, c1, o, o1
<1>13. ASSUME count'.crashes = 0 PROVE Used(h)' = Units /\ Orphans(h)' = {}
  <2>1. Used(h) = Units /\ Orphans(h) = {}
    BY <1>13 DEF CapInv
  <2>2. Used(h)' = Units
    BY <1>1, <1>3, <1>4, <1>6, <1>8, <1>9, <1>10, <1>13, <2>1 DEF b, b1, c, c1
  <2>3. Orphans(h)' = {}
    BY <1>13, <2>1
  <2> QED BY <2>2, <2>3
<1> QED BY <1>12, <1>13 DEF o1

(* A step that settles nothing, moves no VM and starts or ends no move.     *)
LEMMA OrphanFrame ==
  ASSUME TypeInv, NEW w \in Workers, StepOf(w),
         pc[w] # "book", pc'[w] \notin {"book", "settle"},
         \A v \in VMs : /\ vm'[v].spec = vm[v].spec /\ booking'[v].spec = booking[v].spec
                        /\ VMLive(v)' => VMLive(v)
  PROVE  \A v \in VMs, h \in Hosts : Orphan(v, h)' => Orphan(v, h)
<1> SUFFICES ASSUME NEW v \in VMs, NEW h \in Hosts, Orphan(v, h)'
             PROVE  Orphan(v, h)
  OBVIOUS
<1>1. AtBook(v)' <=> AtBook(v)
  BY DEF AtBook, StepOf
<1>2. \A x \in Workers : Settling(x, v)' => Settling(x, v) /\ loc'[x].old = loc[x].old
  BY DEF Settling, StepOf
<1>3. \A x \in Workers : pc'[x] = "book" => pc[x] = "book" /\ loc'[x] = loc[x]
  BY DEF StepOf
<1>4. h # booking[v].spec
  BY DEF Orphan
<1>5. CASE (VMLive(v) /\ vm[v].spec = h /\ ~AtBook(v))'
  BY <1>1, <1>4, <1>5 DEF Orphan
<1>6. CASE (\E x \in Workers : pc[x] = "book" /\ loc[x].vm = v /\ loc[x].old = h)'
  BY <1>3, <1>4, <1>6 DEF Orphan
<1>7. CASE (~AtBook(v) /\ \E x \in Workers : Settling(x, v) /\ loc[x].old = h)'
  BY <1>1, <1>2, <1>4, <1>7 DEF Orphan
<1> QED BY <1>5, <1>6, <1>7 DEF Orphan

(* A step in which no booking changes and no unit is orphaned.              *)
LEMMA PlainFrame ==
  ASSUME TypeInv, TypeInv', CapInv, NEW w \in Workers, StepOf(w), booking' = booking,
         \A v \in VMs, h \in Hosts : Orphan(v, h)' => Orphan(v, h),
         count'.crashes = 0 => count.crashes = 0,
         \A h \in Hosts : /\ avail'[h] + Ind(Holds(w, h)') <= avail[h] + Ind(Holds(w, h))
                          /\ count'.crashes = 0 =>
                               avail'[h] + Ind(Holds(w, h)') = avail[h] + Ind(Holds(w, h))
  PROVE  CapInv'
<1> SUFFICES ASSUME NEW h \in Hosts
             PROVE  /\ Used(h)' + Cardinality(Orphans(h)') <= Units
                    /\ count'.crashes = 0 => Used(h)' = Units /\ Orphans(h)' = {}
  BY DEF CapInv
<1>1. Booked(h)' = Booked(h) /\ Orphans(h)' \subseteq Orphans(h)
  BY DEF Booked, Orphans
<1>2. PICK v : v \notin VMs
  BY NoSetContainsEverything
<1>3. v \notin Booked(h) /\ v \notin Booked(h)' /\ v \notin Orphans(h) /\ v \notin Orphans(h)'
  BY <1>2 DEF Booked, Orphans
<1>4. /\ Ind(v \in Booked(h)) = 0 /\ Ind((v \in Booked(h))') = 0
      /\ Ind(v \in Orphans(h)) = 0 /\ Ind((v \in Orphans(h))') = 0
  BY <1>3 DEF Ind
<1>5. avail[h] \in Nat /\ avail'[h] \in Nat /\ Ind(Holds(w, h)) \in Nat /\ Ind(Holds(w, h)') \in Nat
  BY AvailType, BoundAssumption DEF Ind, TypeInv, TypeOK
<1>6. /\ avail'[h] + Ind((v \in Booked(h))') + Ind(Holds(w, h)') + Ind((v \in Orphans(h))')
           <= avail[h] + Ind(v \in Booked(h)) + Ind(Holds(w, h)) + Ind(v \in Orphans(h))
      /\ count'.crashes = 0 =>
           /\ count.crashes = 0 /\ v \notin Orphans(h)'
           /\ avail'[h] + Ind((v \in Booked(h))') + Ind(Holds(w, h)')
                = avail[h] + Ind(v \in Booked(h)) + Ind(Holds(w, h))
  BY <1>3, <1>4, <1>5
<1> QED BY <1>1, <1>6, CapFrame

(* A settlement: the unit of a live booking becomes one its settler holds.  *)
LEMMA SettleFrame ==
  ASSUME TypeInv, TypeInv', CapInv, NEW w \in Workers, StepOf(w), NEW v \in VMs,
         NEW p \in Hosts \cup {NoHost}, Settles(v, p), avail' = avail, count' = count,
         \A u \in VMs, h \in Hosts : Orphan(u, h)' => Orphan(u, h),
         pc[w] \in {"rf", "ex", "settle"}, pc'[w] \in {"rf_free", "ex_free", "free"},
         loc'[w].old = booking[v].spec
  PROVE  CapInv'
<1>0. TypeOK
  BY DEF TypeInv
<1> SUFFICES ASSUME NEW h \in Hosts
             PROVE  /\ Used(h)' + Cardinality(Orphans(h)') <= Units
                    /\ count'.crashes = 0 => Used(h)' = Units /\ Orphans(h)' = {}
  BY DEF CapInv
<1>1. Booked(h)' \ {v} = Booked(h) \ {v} /\ v \notin Booked(h)' /\ (v \in Booked(h) <=> h = booking[v].spec)
  BY <1>0, SettlesType DEF Booked
<1>2. Orphans(h)' \subseteq Orphans(h)
  BY DEF Orphans
<1>3. ~Holds(w, h) /\ (Holds(w, h)' <=> h = booking[v].spec)
  BY DEF Holds
<1>4. avail[h] \in Nat
  BY <1>0, AvailType
<1>5. /\ Ind((v \in Booked(h))') = 0 /\ Ind(Holds(w, h)) = 0
      /\ Ind(v \in Booked(h)) = Ind(Holds(w, h)') /\ Ind(Holds(w, h)') \in Nat
      /\ Ind((v \in Orphans(h))') <= Ind(v \in Orphans(h))
      /\ Ind((v \in Orphans(h))') \in Nat /\ Ind(v \in Orphans(h)) \in Nat
  BY <1>1, <1>2, <1>3 DEF Ind
<1>6. /\ avail'[h] + Ind((v \in Booked(h))') + Ind(Holds(w, h)') + Ind((v \in Orphans(h))')
           <= avail[h] + Ind(v \in Booked(h)) + Ind(Holds(w, h)) + Ind(v \in Orphans(h))
      /\ avail'[h] + Ind((v \in Booked(h))') + Ind(Holds(w, h)')
           = avail[h] + Ind(v \in Booked(h)) + Ind(Holds(w, h))
  BY <1>4, <1>5
<1>7. count'.crashes = 0 => count.crashes = 0 /\ v \notin Orphans(h)'
  BY <1>2 DEF CapInv
<1> QED BY <1>1, <1>2, <1>6, <1>7, CapFrame

(* While no process has died, a unit that a worker holds is not a free     *)
(* one.                                                                    *)
LEMMA HeldUnit ==
  ASSUME CapInv, TypeOK, NEW h \in Hosts, NEW w \in Workers, Holds(w, h), count.crashes = 0
  PROVE  avail[h] < Units
<1>1. Held(h) # {} /\ IsFiniteSet(Held(h))
  BY Counts DEF Held
<1>2. Cardinality(Held(h)) # 0
  BY <1>1, FS_EmptySet
<1> QED BY <1>2, Counts, AvailType DEF CapInv, Used

(* A step that gives back the unit its worker holds.                       *)
LEMMA FreeFrame ==
  ASSUME TypeInv, TypeInv', CapInv, NEW w \in Workers, StepOf(w), booking' = booking,
         \A v \in VMs, h \in Hosts : Orphan(v, h)' => Orphan(v, h),
         count' = count, NEW k \in Hosts, ReleaseUnit(k),
         \A h \in Hosts : (Holds(w, h) <=> h = k) /\ ~Holds(w, h)'
  PROVE  CapInv'
<1>0. TypeOK
  BY DEF TypeInv
<1>1. ASSUME NEW h \in Hosts
      PROVE  /\ avail'[h] + Ind(Holds(w, h)') <= avail[h] + Ind(Holds(w, h))
             /\ count'.crashes = 0 => avail'[h] + Ind(Holds(w, h)') = avail[h] + Ind(Holds(w, h))
  <2>1. avail'[h] = IF h = k /\ avail[h] < Units THEN avail[h] + 1 ELSE avail[h]
    BY <1>0 DEF ReleaseUnit, TypeOK
  <2>2. Ind(Holds(w, h)') = 0 /\ Ind(Holds(w, h)) = IF h = k THEN 1 ELSE 0
    BY DEF Ind
  <2>3. h = k /\ count.crashes = 0 => avail[h] < Units
    BY <1>0, HeldUnit
  <2>4. avail[h] \in Nat /\ Units \in Nat
    BY <1>0, AvailType
  <2> QED BY <2>1, <2>2, <2>3, <2>4
<1> QED BY <1>1, PlainFrame

(* The move takes a unit of the new host and holds it.                     *)
LEMMA CapMove ==
  ASSUME OneReaper, TypeInv, TypeInv', LabelInv, CopyInv, CapInv, NEW w \in Reapers, FailoverMove(w)
  PROVE  CapInv'
<1>0. /\ w \in Workers /\ TypeOK /\ Reapers \subseteq Workers
      /\ \A x \in Workers : pc[x] = "book" => x \in Reapers
  BY DEF Workers, TypeInv, LabelInv, LabelOK, RequestLabels
<1>1. PICK v, new, old : v = loc[w].vm /\ new = loc[w].new /\ old = loc[w].old
  OBVIOUS
<1>2. /\ StepOf(w) /\ booking' = booking /\ count' = count /\ pc[w] = "move" /\ loc'[w] = loc[w]
      /\ \/ avail' = avail /\ pc'[w] = "vms" /\ SetVM(v, "failed")
         \/ /\ avail[new] > 0 /\ avail' = [avail EXCEPT ![new] = @ - 1]
            /\ \/ /\ pc'[w] = "book" /\ vm[v].spec = old /\ VMLive(v)
                  /\ vm' = [vm EXCEPT ![v] = [status |-> "migrating", spec |-> new]]
               \/ pc'[w] = "lost" /\ vm' = vm
  BY <1>0, <1>1, FailoverMoveEffect
<1>3. v \in VMs /\ new \in Hosts /\ old \in Hosts
  BY <1>0, <1>1, <1>2 DEF TypeInv, Loaded
<1>4. \A h \in Hosts : ~Holds(w, h)
  BY <1>2 DEF Holds
<1>5. CASE pc'[w] = "vms"
  <2>1. \A u \in VMs : vm'[u].spec = vm[u].spec /\ (VMLive(u)' => VMLive(u))
    BY <1>0, <1>2, <1>3, <1>5, SetVMType DEF VMLive, Running
  <2>2. \A u \in VMs, h \in Hosts : Orphan(u, h)' => Orphan(u, h)
    BY <1>0, <1>2, <1>5, <2>1, OrphanFrame
  <2>3. \A h \in Hosts : Ind(Holds(w, h)) = 0 /\ Ind(Holds(w, h)') = 0 /\ avail[h] \in Nat
    BY <1>0, <1>4, <1>5, AvailType DEF Ind, Holds
  <2> QED BY <1>0, <1>2, <1>5, <2>2, <2>3, PlainFrame
<1>6. CASE pc'[w] \in {"book", "lost"}
  <2>1. \A u \in VMs, h \in Hosts : Orphan(u, h)' => Orphan(u, h)
    <3>1. CASE pc'[w] = "lost"
      BY <1>0, <1>2, <3>1, OrphanFrame DEF VMLive
    <3>2. CASE pc'[w] = "book"
      <4> SUFFICES ASSUME NEW u \in VMs, NEW h \in Hosts, Orphan(u, h)'
                   PROVE  Orphan(u, h)
        OBVIOUS
      <4>1. \A x \in Workers : pc[x] # "book"
        BY <1>0, <1>2 DEF OneReaper
      <4>2. /\ \A x \in Workers : pc'[x] = "book" => x = w
            /\ \A x \in Workers : Settling(x, u)' => Settling(x, u) /\ loc'[x] = loc[x]
        BY <1>2, <3>2, <4>1 DEF StepOf, Settling
      <4>3. AtBook(v)' /\ ~AtBook(u)
        BY <1>0, <1>1, <1>2, <3>2, <4>1 DEF AtBook
      <4>4. CASE u = v
        <5>1. h = old /\ h # booking[v].spec
          BY <1>1, <1>2, <4>2, <4>3, <4>4 DEF Orphan
        <5> QED BY <1>2, <3>2, <4>3, <4>4, <5>1 DEF Orphan
      <4>5. CASE u # v
        <5>1. vm'[u] = vm[u]
          BY <1>0, <1>2, <1>3, <3>2, <4>5 DEF TypeOK
        <5>2. \A x \in Workers : pc'[x] = "book" => loc'[x].vm # u
          BY <1>1, <1>2, <4>2, <4>5
        <5> QED BY <1>2, <4>2, <4>3, <5>1, <5>2 DEF Orphan, VMLive
      <4> QED BY <4>4, <4>5
    <3> QED BY <1>6, <3>1, <3>2
  <2>2. avail[new] > 0 /\ \A h \in Hosts : avail'[h] = IF h = new THEN avail[h] - 1 ELSE avail[h]
    BY <1>0, <1>2, <1>3, <1>6 DEF TypeOK
  <2>3. \A h \in Hosts : Ind(Holds(w, h)) = 0 /\ Ind(Holds(w, h)') = IF h = new THEN 1 ELSE 0
    BY <1>1, <1>2, <1>4, <1>6 DEF Ind, Holds
  <2>4. \A h \in Hosts : avail[h] \in Nat
    BY <1>0, AvailType
  <2>5. \A h \in Hosts : avail'[h] + Ind(Holds(w, h)') = avail[h] + Ind(Holds(w, h))
    BY <2>2, <2>3, <2>4
  <2>6. \A h \in Hosts : avail[h] + Ind(Holds(w, h)) \in Nat
    BY <2>3, <2>4
  <2>7. \A h \in Hosts : /\ avail'[h] + Ind(Holds(w, h)') <= avail[h] + Ind(Holds(w, h))
                         /\ avail'[h] + Ind(Holds(w, h)') = avail[h] + Ind(Holds(w, h))
    BY <2>5, <2>6
  <2> QED BY <1>0, <1>2, <2>1, <2>7, PlainFrame
<1> QED BY <1>2, <1>5, <1>6

(* The booking takes the unit that was held, and the old host's unit, that *)
(* of the booking or an orphan, is held instead; if it is settled, its VM  *)
(* is stopped and nobody is about to free the old unit again.              *)
LEMMA CapBook ==
  ASSUME OneReaper, TypeInv, TypeInv', LabelInv, FollowInv, CopyInv, CapInv,
         NEW w \in Reapers, FailoverBook(w)
  PROVE  CapInv'
<1>0. /\ w \in Workers /\ TypeOK /\ Reapers \subseteq Workers
      /\ \A x \in Workers : pc[x] = "book" => x \in Reapers
  BY DEF Workers, TypeInv, LabelInv, LabelOK, RequestLabels
<1>1. PICK v, new, old : v = loc[w].vm /\ new = loc[w].new /\ old = loc[w].old
  OBVIOUS
<1>2. /\ StepOf(w) /\ UNCHANGED <<avail, vm, count>> /\ pc[w] = "book" /\ loc'[w] = loc[w]
      /\ \/ pc'[w] = "free_old" /\ booking[v].live /\ booking' = [booking EXCEPT ![v].spec = new]
         \/ pc'[w] = "orphan" /\ ~booking[v].live /\ booking' = booking
  BY <1>0, <1>1, FailoverBookEffect
<1>3. v \in VMs /\ new \in Hosts /\ old \in Hosts /\ vm[v].spec = new
  BY <1>0, <1>1, <1>2 DEF TypeInv, Loaded, FollowInv
<1>4. \A x \in Workers : pc[x] = "book" => x = w
  BY <1>0, <1>2 DEF OneReaper
<1>5. /\ \A u \in VMs : ~AtBook(u)' /\ (AtBook(u) <=> u = v)
      /\ \A x \in Workers : pc'[x] # "book"
      /\ \A x \in Workers, u \in VMs : Settling(x, u)' => Settling(x, u) /\ loc'[x] = loc[x]
  BY <1>0, <1>1, <1>2, <1>4 DEF AtBook, StepOf, Settling
<1>6. \A u \in VMs \ {v} : booking'[u] = booking[u]
  BY <1>0, <1>2 DEF TypeOK
<1>7. \A u \in VMs \ {v}, h \in Hosts : Orphan(u, h)' => Orphan(u, h)
  BY <1>2, <1>5, <1>6 DEF Orphan, VMLive
<1>8. \A h \in Hosts : Orphan(v, h) <=> h = old /\ old # booking[v].spec
  BY <1>0, <1>1, <1>2, <1>3, <1>4, <1>5 DEF Orphan
<1>9. CASE pc'[w] = "orphan"
  <2>1. ~VMLive(v) /\ \A x \in Workers : ~Settling(x, v)
    BY <1>0, <1>1, <1>2, <1>9 DEF CopyInv, RowsOK
  <2>2. \A h \in Hosts : ~Orphan(v, h)'
    BY <1>2, <1>5, <2>1, <1>3 DEF Orphan, VMLive
  <2>3. \A u \in VMs, h \in Hosts : Orphan(u, h)' => Orphan(u, h)
    BY <1>7, <2>2
  <2>4. \A h \in Hosts : /\ Ind(Holds(w, h)') = Ind(Holds(w, h)) /\ Ind(Holds(w, h)) \in Nat
                         /\ avail'[h] = avail[h] /\ avail[h] \in Nat
    BY <1>0, <1>2, <1>9, AvailType DEF Ind, Holds
  <2>5. \A h \in Hosts : /\ avail'[h] + Ind(Holds(w, h)') <= avail[h] + Ind(Holds(w, h))
                         /\ avail'[h] + Ind(Holds(w, h)') = avail[h] + Ind(Holds(w, h))
    BY <2>4
  <2> QED BY <1>0, <1>2, <1>9, <2>3, <2>5, PlainFrame
<1>10. CASE pc'[w] = "free_old"
  <2> SUFFICES ASSUME NEW h \in Hosts
               PROVE  /\ Used(h)' + Cardinality(Orphans(h)') <= Units
                      /\ count'.crashes = 0 => Used(h)' = Units /\ Orphans(h)' = {}
    BY DEF CapInv
  <2>1. booking[v].live /\ booking'[v].live /\ booking'[v].spec = new
    BY <1>0, <1>2, <1>3, <1>10 DEF TypeOK, BookingRow
  <2>2. \A k \in Hosts : ~Orphan(v, k)'
    <3>1. \A x \in Workers : Settling(x, v) => loc[x].old = new
      BY <1>3 DEF CopyInv, RowsOK, Settling
    <3> QED BY <1>2, <1>3, <1>5, <2>1, <3>1 DEF Orphan, VMLive
  <2>3. /\ Booked(h)' \ {v} = Booked(h) \ {v} /\ Orphans(h)' \ {v} \subseteq Orphans(h) \ {v}
        /\ v \notin Orphans(h)' /\ (v \in Orphans(h) <=> h = old /\ old # booking[v].spec)
        /\ (v \in Booked(h) <=> h = booking[v].spec) /\ (v \in Booked(h)' <=> h = new)
    BY <1>3, <1>6, <1>7, <1>8, <2>1, <2>2 DEF Booked, Orphans
  <2>4. (Holds(w, h) <=> h = new) /\ (Holds(w, h)' <=> h = old)
    BY <1>1, <1>2, <1>10 DEF Holds
  <2>5. avail'[h] = avail[h] /\ avail[h] \in Nat
    BY <1>0, <1>2, AvailType
  <2>6. count.crashes = 0 => old = booking[v].spec
    BY <1>3, <1>8 DEF CapInv, Orphans
  <2>7. /\ Ind((v \in Booked(h))') = Ind(Holds(w, h)) /\ Ind((v \in Orphans(h))') = 0
        /\ Ind(Holds(w, h)') <= Ind(v \in Booked(h)) + Ind(v \in Orphans(h))
        /\ (old = booking[v].spec => Ind(Holds(w, h)') = Ind(v \in Booked(h)))
        /\ Ind(Holds(w, h)) \in Nat /\ Ind(Holds(w, h)') \in Nat
        /\ Ind(v \in Booked(h)) \in Nat /\ Ind(v \in Orphans(h)) \in Nat
    BY <2>3, <2>4 DEF Ind
  <2>8. /\ avail'[h] + Ind((v \in Booked(h))') + Ind(Holds(w, h)') + Ind((v \in Orphans(h))')
             <= avail[h] + Ind(v \in Booked(h)) + Ind(Holds(w, h)) + Ind(v \in Orphans(h))
        /\ count'.crashes = 0 =>
             /\ count.crashes = 0 /\ v \notin Orphans(h)'
             /\ avail'[h] + Ind((v \in Booked(h))') + Ind(Holds(w, h)')
                  = avail[h] + Ind(v \in Booked(h)) + Ind(Holds(w, h))
    BY <1>2, <2>3, <2>5, <2>6, <2>7
  <2> QED BY <1>0, <1>2, <2>3, <2>8, CapFrame
<1> QED BY <1>2, <1>9, <1>10

(* A process that dies in the middle of a move may orphan the unit it      *)
(* held.                                                                   *)
LEMMA CapCrash ==
  ASSUME OneReaper, TypeInv, TypeInv', LabelInv, FollowInv, CopyInv, CapInv,
         NEW w \in Workers, Crash(w)
  PROVE  CapInv'
<1>0. /\ TypeOK /\ Reapers \subseteq Workers
      /\ \A x \in Workers : pc[x] = "book" => x \in Reapers
  BY DEF Workers, TypeInv, LabelInv, LabelOK, RequestLabels
<1>1. /\ StepOf(w) /\ UNCHANGED <<avail, vm, booking>> /\ pc'[w] = "idle"
      /\ count'.crashes = count.crashes + 1
  BY CrashEffect
<1>2. count'.crashes # 0
  BY <1>0, <1>1 DEF TypeOK
<1>3. \A h \in Hosts : avail'[h] = avail[h] /\ avail[h] \in Nat /\ ~Holds(w, h)'
  BY <1>0, <1>1, AvailType DEF Holds
<1>4. CASE pc[w] # "book"
  <2>1. \A v \in VMs, h \in Hosts : Orphan(v, h)' => Orphan(v, h)
    BY <1>1, <1>4, OrphanFrame DEF VMLive
  <2>2. \A h \in Hosts : avail'[h] + Ind(Holds(w, h)') <= avail[h] + Ind(Holds(w, h))
    BY <1>3 DEF Ind
  <2> QED BY <1>1, <1>2, <2>1, <2>2, PlainFrame
<1>5. CASE pc[w] = "book"
  <2> SUFFICES ASSUME NEW h \in Hosts
               PROVE  /\ Used(h)' + Cardinality(Orphans(h)') <= Units
                      /\ count'.crashes = 0 => Used(h)' = Units /\ Orphans(h)' = {}
    BY DEF CapInv
  <2>1. PICK v, new : v = loc[w].vm /\ new = loc[w].new
    OBVIOUS
  <2>2. v \in VMs /\ new \in Hosts /\ vm[v].spec = new
    BY <1>5, <2>1 DEF TypeInv, Loaded, FollowInv
  <2>3. \A x \in Workers : (pc[x] = "book" => x = w) /\ pc'[x] # "book"
    BY <1>0, <1>1, <1>5 DEF OneReaper, StepOf
  <2>4. /\ \A u \in VMs : ~AtBook(u)' /\ (AtBook(u) <=> u = v)
        /\ \A x \in Workers, u \in VMs : Settling(x, u)' => Settling(x, u) /\ loc'[x] = loc[x]
    BY <1>1, <1>5, <2>1, <2>3 DEF AtBook, StepOf, Settling
  <2>5. \A u \in VMs \ {v} : Orphan(u, h)' => Orphan(u, h)
    BY <1>1, <2>3, <2>4 DEF Orphan, VMLive
  <2>6. Orphan(v, h)' => h = new
    <3>1. \A x \in Workers : Settling(x, v) => loc[x].old = new
      BY <2>2 DEF CopyInv, RowsOK, Settling
    <3> QED BY <1>1, <2>2, <2>3, <2>4, <3>1 DEF Orphan
  <2>7. Booked(h)' = Booked(h) /\ Orphans(h)' \ {v} \subseteq Orphans(h) \ {v}
    BY <1>1, <2>5 DEF Booked, Orphans
  <2>8. Holds(w, h) <=> h = new
    BY <1>5, <2>1 DEF Holds
  <2>9. /\ Ind((v \in Booked(h))') = Ind(v \in Booked(h)) /\ Ind(v \in Booked(h)) \in Nat
        /\ Ind(Holds(w, h)') = 0 /\ Ind((v \in Orphans(h))') <= Ind(Holds(w, h))
        /\ Ind((v \in Orphans(h))') \in Nat /\ Ind(Holds(w, h)) \in Nat
        /\ Ind(v \in Orphans(h)) \in Nat
    BY <1>3, <2>6, <2>7, <2>8 DEF Ind, Orphans
  <2>10. avail'[h] + Ind((v \in Booked(h))') + Ind(Holds(w, h)') + Ind((v \in Orphans(h))')
           <= avail[h] + Ind(v \in Booked(h)) + Ind(Holds(w, h)) + Ind(v \in Orphans(h))
    BY <1>3, <2>9
  <2> QED BY <1>1, <1>2, <2>7, <2>10, CapFrame
<1> QED BY <1>4, <1>5

(* A stop takes over the orphan of the VM it stops.                        *)
LEMMA CapStopCas ==
  ASSUME TypeInv, TypeInv', CopyInv, CapInv, NEW w \in Workers, NEW v \in VMs, StopCas(w, v)
  PROVE  CapInv'
<1>0. TypeOK
  BY DEF TypeInv
<1>1. /\ StepOf(w) /\ UNCHANGED <<avail, booking, count>> /\ pc[w] = "idle" /\ pc'[w] = "settle"
      /\ loc'[w].vm = v /\ loc'[w].old = vm[v].spec /\ VMLive(v) /\ SetVM(v, "stopped")
  BY StopCasEffect
<1>2. /\ \A u \in VMs : vm'[u].spec = vm[u].spec /\ (VMLive(u)' => VMLive(u)) /\ ~VMLive(v)'
      /\ \A u \in VMs \ {v} : vm'[u] = vm[u]
  BY <1>0, <1>1, SetVMType DEF VMLive, Running
<1>3. \A x \in Workers : ~Settling(x, v)
  BY <1>1 DEF CopyInv, RowsOK, Settling
<1>4. /\ \A u \in VMs : AtBook(u)' <=> AtBook(u)
      /\ \A x \in Workers : pc'[x] = "book" => pc[x] = "book" /\ loc'[x] = loc[x]
      /\ \A x \in Workers \ {w}, u \in VMs : Settling(x, u)' => Settling(x, u) /\ loc'[x] = loc[x]
      /\ \A u \in VMs : Settling(w, u)' => u = v
  BY <1>1 DEF AtBook, StepOf, Settling
<1>5. ASSUME NEW u \in VMs, NEW h \in Hosts, Orphan(u, h)' PROVE Orphan(u, h)
  <2>1. h # booking[u].spec
    BY <1>1, <1>5 DEF Orphan
  <2>2. CASE (\E x \in Workers : pc[x] = "book" /\ loc[x].vm = u /\ loc[x].old = h)'
    BY <1>4, <2>1, <2>2 DEF Orphan
  <2>3. CASE (VMLive(u) /\ vm[u].spec = h /\ ~AtBook(u))'
    BY <1>2, <1>4, <2>1, <2>3 DEF Orphan
  <2>4. CASE (~AtBook(u) /\ \E x \in Workers : Settling(x, u) /\ loc[x].old = h)'
    <3>1. PICK x \in Workers : Settling(x, u)' /\ loc'[x].old = h
      BY <2>4
    <3>2. CASE x = w
      BY <1>1, <1>4, <2>1, <2>4, <3>1, <3>2 DEF Orphan
    <3>3. CASE x # w
      BY <1>4, <2>1, <2>4, <3>1, <3>3 DEF Orphan
    <3> QED BY <3>2, <3>3
  <2> QED BY <1>5, <2>2, <2>3, <2>4 DEF Orphan
<1>6. \A h \in Hosts : /\ Ind(Holds(w, h)') = 0 /\ Ind(Holds(w, h)) = 0
                       /\ avail'[h] = avail[h] /\ avail[h] \in Nat
  BY <1>0, <1>1, AvailType DEF Ind, Holds
<1>7. \A h \in Hosts : /\ avail'[h] + Ind(Holds(w, h)') <= avail[h] + Ind(Holds(w, h))
                       /\ avail'[h] + Ind(Holds(w, h)') = avail[h] + Ind(Holds(w, h))
  BY <1>6
<1> QED BY <1>1, <1>5, <1>7, PlainFrame

(* A stop frees the unit of the booking it settles, or the orphan of a VM  *)
(* whose booking was settled on another host.                              *)
LEMMA CapStopSettle ==
  ASSUME TypeInv, TypeInv', CopyInv, CapInv, NEW w \in Workers, StopSettle(w)
  PROVE  CapInv'
<1>0. TypeOK
  BY DEF TypeInv
<1>1. PICK v, old : v = loc[w].vm /\ old = loc[w].old
  OBVIOUS
<1>2. /\ StepOf(w) /\ UNCHANGED <<avail, vm, count>> /\ pc[w] = "settle" /\ v \in VMs
      /\ \/ /\ Settles(v, booking[v].spec) /\ pc'[w] = "free" /\ loc'[w].old = booking[v].spec
         \/ /\ booking' = booking /\ booking[v].spec # old
            /\ ~booking[v].live /\ pc'[w] = "free" /\ loc'[w] = loc[w]
         \/ /\ booking' = booking /\ pc'[w] = "idle"
  BY <1>1, StopSettleEffect
<1>3. booking[v].spec \in Hosts /\ old \in Hosts
  BY <1>0, <1>1, <1>2, RowType DEF TypeInv, Loaded
<1>4. \A u \in VMs : booking'[u].spec = booking[u].spec
  BY <1>0, <1>2, <1>3, SettlesType
<1>5. \A u \in VMs, h \in Hosts : Orphan(u, h)' => Orphan(u, h)
  BY <1>2, <1>4, OrphanFrame DEF VMLive
<1>6. CASE Settles(v, booking[v].spec) /\ pc'[w] = "free" /\ loc'[w].old = booking[v].spec
  BY <1>2, <1>3, <1>5, <1>6, SettleFrame
<1>7. CASE booking' = booking /\ pc'[w] = "idle"
  <2>1. \A h \in Hosts : /\ Ind(Holds(w, h)') = 0 /\ Ind(Holds(w, h)) = 0
                         /\ avail'[h] = avail[h] /\ avail[h] \in Nat
    BY <1>0, <1>2, <1>7, AvailType DEF Ind, Holds
  <2>2. \A h \in Hosts : /\ avail'[h] + Ind(Holds(w, h)') <= avail[h] + Ind(Holds(w, h))
                         /\ avail'[h] + Ind(Holds(w, h)') = avail[h] + Ind(Holds(w, h))
    BY <2>1
  <2> QED BY <1>2, <1>5, <1>7, <2>2, PlainFrame
<1>8. CASE /\ booking' = booking /\ booking[v].spec # old
           /\ ~booking[v].live /\ pc'[w] = "free" /\ loc'[w] = loc[w]
  <2> SUFFICES ASSUME NEW h \in Hosts
               PROVE  /\ Used(h)' + Cardinality(Orphans(h)') <= Units
                      /\ count'.crashes = 0 => Used(h)' = Units /\ Orphans(h)' = {}
    BY DEF CapInv
  <2>1. ~AtBook(v) /\ ~VMLive(v) /\ \A x \in Workers \ {w} : ~Settling(x, v)
    BY <1>1, <1>2, <1>8 DEF CopyInv, RowsOK, AtBook, Settling
  <2>2. Orphan(v, old)
    BY <1>1, <1>2, <1>8, <2>1 DEF Orphan, Settling
  <2>3. ~Orphan(v, h)'
    <3>1. ~AtBook(v)' /\ ~VMLive(v)' /\ \A x \in Workers : ~Settling(x, v)'
      BY <1>2, <1>8, <2>1 DEF AtBook, VMLive, Settling, StepOf
    <3> QED BY <3>1 DEF Orphan, AtBook
  <2>4. Booked(h)' = Booked(h) /\ Orphans(h)' \subseteq Orphans(h) /\ v \notin Orphans(h)'
    BY <1>5, <1>8, <2>3 DEF Booked, Orphans
  <2>5. ~Holds(w, h) /\ (Holds(w, h)' <=> h = old) /\ (h = old => v \in Orphans(h))
    BY <1>1, <1>2, <1>8, <2>2 DEF Holds, Orphans
  <2>6. /\ Ind((v \in Booked(h))') = Ind(v \in Booked(h)) /\ Ind(v \in Booked(h)) \in Nat
        /\ Ind(Holds(w, h)) = 0 /\ Ind((v \in Orphans(h))') = 0
        /\ Ind(Holds(w, h)') <= Ind(v \in Orphans(h))
        /\ Ind(Holds(w, h)') \in Nat /\ Ind(v \in Orphans(h)) \in Nat
    BY <2>4, <2>5 DEF Ind
  <2>7. count.crashes # 0
    BY <1>2, <1>3, <2>2 DEF CapInv, Orphans
  <2>8. avail'[h] = avail[h] /\ avail[h] \in Nat
    BY <1>0, <1>2, AvailType
  <2>9. avail'[h] + Ind((v \in Booked(h))') + Ind(Holds(w, h)') + Ind((v \in Orphans(h))')
           <= avail[h] + Ind(v \in Booked(h)) + Ind(Holds(w, h)) + Ind(v \in Orphans(h))
    BY <2>6, <2>8
  <2> QED BY <1>2, <2>4, <2>7, <2>9, CapFrame
<1> QED BY <1>2, <1>6, <1>7, <1>8

(* Every unit a worker holds is given back once.                           *)
LEMMA CapFree ==
  ASSUME TypeInv, TypeInv', CapInv, NEW w \in Workers, Frees(w) \/ FreeUnit(w)
  PROVE  CapInv'
<1>1. PICK k : k = IF pc[w] \in {"lost", "orphan"} THEN loc[w].new ELSE loc[w].old
  OBVIOUS
<1>2. /\ StepOf(w) /\ UNCHANGED <<vm, booking, count>> /\ k \in Hosts /\ ReleaseUnit(k)
      /\ pc[w] \in {"lost", "orphan", "free_old", "rf_free", "ex_free", "free"}
      /\ pc'[w] \in {"vms", "orphan_stop", "rf", "ex_stop", "idle"}
  BY <1>1, FreeEffect DEF Frees
<1>3. \A v \in VMs, h \in Hosts : Orphan(v, h)' => Orphan(v, h)
  BY <1>2, OrphanFrame DEF VMLive
<1>4. \A h \in Hosts : (Holds(w, h) <=> h = k) /\ ~Holds(w, h)'
  BY <1>1, <1>2 DEF Holds
<1> QED BY <1>2, <1>3, <1>4, FreeFrame

(* The other steps of the reaper *)
LEMMA CapQuiet ==
  ASSUME TypeInv, TypeInv', CapInv, NEW w \in Workers,
         StepOf(w), UNCHANGED <<avail, booking, count>>,
         \A u \in VMs : vm'[u].spec = vm[u].spec /\ (VMLive(u)' => VMLive(u)),
         pc[w] \notin {"lost", "book", "orphan", "free_old", "rf_free", "ex_free", "free"},
         pc'[w] \notin {"lost", "book", "orphan", "free_old", "rf_free", "ex_free", "free", "settle"}
  PROVE  CapInv'
<1>0. TypeOK
  BY DEF TypeInv
<1>1. \A u \in VMs, h \in Hosts : Orphan(u, h)' => Orphan(u, h)
  BY OrphanFrame
<1>2. \A h \in Hosts : /\ Ind(Holds(w, h)') = 0 /\ Ind(Holds(w, h)) = 0
                       /\ avail'[h] = avail[h] /\ avail[h] \in Nat
  BY <1>0, AvailType DEF Ind, Holds
<1>3. \A h \in Hosts : /\ avail'[h] + Ind(Holds(w, h)') <= avail[h] + Ind(Holds(w, h))
                       /\ avail'[h] + Ind(Holds(w, h)') = avail[h] + Ind(Holds(w, h))
  BY <1>2
<1> QED BY <1>1, <1>3, PlainFrame

LEMMA CapStep ==
  ASSUME OneReaper, StopsOnly, TypeInv, LabelInv, FollowInv, CopyInv, CapInv, [Next]_vars
  PROVE  CapInv'
<1>0. /\ Reapers \subseteq Workers /\ Requests \subseteq Workers /\ TypeOK /\ TypeInv'
      /\ Reapers \cap Requests = {}
  BY TypeStep, WorkerAssumption DEF Workers, TypeInv
<1>e. \A w \in Workers : pc[w] \in {"pick", "orphan_stop", "ex_stop"} => loc[w].vm \in VMs
  BY DEF TypeInv, Loaded
<1>f. \A v \in VMs : booking[v].spec \in Hosts
  BY <1>0, RowType
<1> DEFINE SameVM == \A v \in VMs : vm'[v].spec = vm[v].spec /\ (VMLive(v)' => VMLive(v))
<1>a. ASSUME NEW v \in VMs, vm' = vm \/ SetVM(v, "stopped") \/ SetVM(v, "failed")
      PROVE  SameVM
  <2>1. {"stopped", "failed"} \cap Running = {}
    BY DEF Running
  <2> QED BY <1>0, <1>a, <2>1, SetVMType DEF VMLive
<1>b. vm' = vm => SameVM
  BY DEF VMLive
<1> HIDE DEF SameVM
<1>1. CASE World
  <2>1. /\ UNCHANGED <<avail, vm, booking, pc, loc>> /\ count'.crashes = count.crashes
    BY <1>1, WorldEffect DEF World
  <2>2. ASSUME NEW h \in Hosts
        PROVE  Booked(h)' = Booked(h) /\ Held(h)' = Held(h) /\ Orphans(h)' = Orphans(h)
    BY <2>1 DEF Booked, Held, Orphans, Holds, Orphan, AtBook, Settling, VMLive
  <2> QED BY <2>1, <2>2 DEF CapInv, Used
<1>2. ASSUME NEW w \in Reapers, Reads(w) PROVE CapInv'
  <2>1. /\ StepOf(w) /\ UNCHANGED <<avail, vm, booking, count>> /\ SameVM
        /\ pc[w] \in {"idle", "rf_scan", "ex_scan", "mark", "hosts", "vms", "rf_hosts", "rf", "ex"}
        /\ pc'[w] \in {"mark", "rf_hosts", "ex", "hosts", "rf_scan", "ex_scan", "idle", "vms", "rf"}
    BY <1>0, <1>2, <1>b, ReadsEffect DEF Quiet
  <2> QED BY <1>0, <2>1, CapQuiet DEF SameVM
<1>3. ASSUME NEW w \in Reapers, FailoverPick(w) PROVE CapInv'
  <2>1. /\ StepOf(w) /\ UNCHANGED <<avail, booking, count>> /\ SameVM
        /\ pc[w] = "pick" /\ pc'[w] \in {"vms", "move"}
    BY <1>0, <1>3, <1>a, <1>b, <1>e, FailoverPickEffect
  <2> QED BY <1>0, <2>1, CapQuiet DEF SameVM
<1>4. ASSUME NEW w \in Reapers, Stops(w) PROVE CapInv'
  <2>1. /\ StepOf(w) /\ UNCHANGED <<avail, booking, count>> /\ SameVM
        /\ pc[w] \in {"orphan_stop", "ex_stop"} /\ pc'[w] \in {"vms", "ex"}
    BY <1>0, <1>4, <1>a, <1>e, StopEffect DEF Stops
  <2> QED BY <1>0, <2>1, CapQuiet DEF SameVM
<1>5. ASSUME NEW w \in Reapers, NEW v \in VMs, FailoverBegin(w, v) PROVE CapInv'
  <2>1. /\ StepOf(w) /\ UNCHANGED <<avail, booking, count>> /\ SameVM
        /\ pc[w] = "vms" /\ pc'[w] \in {"pick", "vms"}
    BY <1>0, <1>5, <1>a, <1>b, FailoverBeginEffect
  <2> QED BY <1>0, <2>1, CapQuiet DEF SameVM
<1>6. ASSUME NEW w \in Reapers, NEW v \in VMs, RefundCas(w, v) \/ ExpireRelease(w, v)
      PROVE  CapInv'
  <2>1. /\ StepOf(w) /\ UNCHANGED <<avail, vm, count>> /\ SameVM /\ pc[w] \in {"rf", "ex"}
        /\ \/ /\ pc'[w] \in {"rf", "ex_stop"} /\ booking' = booking
           \/ /\ pc'[w] \in {"rf_free", "ex_free"} /\ loc'[w].old = booking[v].spec
              /\ Settles(v, NoHost) \/ Settles(v, booking[v].spec)
    <3>1. CASE RefundCas(w, v)
      <4>1. v \in loc[w].todo /\ pc[w] = "rf" /\ loc'[w].old = loc[w].old
        BY <1>0, <3>1, RefundCasEffect
      <4>2. loc[w].old = booking[v].spec
        BY <1>0, <4>1 DEF CopyInv, RowsOK
      <4> QED BY <1>0, <1>b, <3>1, <4>1, <4>2, RefundCasEffect
    <3>2. CASE ExpireRelease(w, v)
      BY <1>0, <1>b, <3>2, ExpireReleaseEffect
    <3> QED BY <1>6, <3>1, <3>2
  <2>2. CASE booking' = booking /\ pc'[w] \in {"rf", "ex_stop"}
    BY <1>0, <2>1, <2>2, CapQuiet DEF SameVM
  <2>3. CASE /\ pc'[w] \in {"rf_free", "ex_free"} /\ loc'[w].old = booking[v].spec
             /\ Settles(v, NoHost) \/ Settles(v, booking[v].spec)
    <3>1. \A u \in VMs : booking'[u].spec = booking[u].spec
      BY <1>0, <1>f, <2>3, SettlesType
    <3>2. \A u \in VMs, h \in Hosts : Orphan(u, h)' => Orphan(u, h)
      BY <1>0, <2>1, <2>3, <3>1, OrphanFrame DEF SameVM
    <3> QED BY <1>0, <1>f, <2>1, <2>3, <3>2, SettleFrame
  <2> QED BY <2>1, <2>2, <2>3
<1>7. ASSUME NEW w \in Workers, Frees(w) \/ FreeUnit(w) PROVE CapInv'
  BY <1>0, <1>7, CapFree
<1>8. ASSUME NEW w \in Reapers, FailoverMove(w) PROVE CapInv'
  BY <1>0, <1>8, CapMove
<1>9. ASSUME NEW w \in Reapers, FailoverBook(w) PROVE CapInv'
  BY <1>0, <1>9, CapBook
<1>10. ASSUME NEW w \in Requests, StopSettle(w) PROVE CapInv'
  BY <1>0, <1>10, CapStopSettle
<1>11. ASSUME NEW w \in Requests, NEW v \in VMs, StopCas(w, v) PROVE CapInv'
  BY <1>0, <1>11, CapStopCas
<1>12. ASSUME NEW w \in Workers, Crash(w) PROVE CapInv'
  BY <1>0, <1>12, CapCrash
<1> QED BY <1>0, <1>1, <1>2, <1>3, <1>4, <1>5, <1>6, <1>7, <1>8, <1>9, <1>10, <1>11, <1>12,
           StopCases

LEMMA CapInit == Init => CopyInv /\ CapInv
<1> SUFFICES ASSUME Init PROVE CopyInv /\ CapInv
  OBVIOUS
<1>1. PICK place \in [VMs -> Hosts] :
        /\ \A h \in Hosts : Cardinality({v \in VMs : place[v] = h}) <= Units
        /\ avail = [h \in Hosts |-> Units - Cardinality({v \in VMs : place[v] = h})]
        /\ vm = [v \in VMs |-> [status |-> "starting", spec |-> place[v]]]
        /\ booking = [v \in VMs |-> [live |-> TRUE, spec |-> place[v]]]
        /\ pc = [w \in Workers |-> "idle"]
  BY DEF Init
<1>2. CopyInv
  BY <1>1 DEF CopyInv, RowsOK, Settling
<1>3. ASSUME NEW h \in Hosts
      PROVE  Used(h) = Units /\ Orphans(h) = {}
  <2>1. Booked(h) = {v \in VMs : place[v] = h}
    BY <1>1 DEF Booked
  <2>2. Held(h) = {}
    BY <1>1 DEF Held, Holds
  <2>3. Orphans(h) = {}
    BY <1>1 DEF Orphans, Orphan, Settling
  <2>4. avail[h] = Units - Cardinality(Booked(h))
    BY <1>1, <2>1
  <2>5. Cardinality(Booked(h)) \in Nat /\ Cardinality(Held(h)) = 0 /\ Units \in Nat
    BY <2>2, Counts, FS_EmptySet, BoundAssumption
  <2> QED BY <2>3, <2>4, <2>5 DEF Used
<1>4. CapInv
  <2>1. Units \in Nat /\ Cardinality({}) = 0
    BY FS_EmptySet, BoundAssumption
  <2> QED BY <1>3, <2>1 DEF CapInv
<1> QED BY <1>2, <1>4

(* CopyInv and CapInv are invariant.                                       *)
THEOREM CapInvHolds ==
  ASSUME OneReaper, StopsOnly
  PROVE  Spec => [](CopyInv /\ CapInv)
<1>1. Init => CopyInv /\ CapInv
  BY CapInit
<1>2. TypeInv /\ LabelInv /\ FollowInv /\ (CopyInv /\ CapInv) /\ [Next]_vars
        => (CopyInv /\ CapInv)'
  BY CopyStep, CapStep
<1> QED BY <1>1, <1>2, TypeInvHolds, LabelInvHolds, FollowInvHolds, PTL DEF Spec

LEMMA UsedIsInUse ==
  ASSUME NEW h \in Hosts, TypeOK
  PROVE  Used(h) = avail[h] + InUse(h)
<1>1. avail[h] \in Nat /\ Cardinality(Booked(h)) \in Nat /\ Cardinality(Held(h)) \in Nat
  BY AvailType, Counts
<1> QED BY <1>1 DEF Used, InUse, Booked, Held

(* With one reaper and metered stops, no host has more units free or in    *)
(* use than it has, even when processes die half way through a migration,  *)
(* a refund, an expiry or a stop (failover_vm, settle_dead_specs,          *)
(* meter_and_expire, stop_vm_metered).                                     *)
THEOREM NeverOversoldHolds ==
  ASSUME OneReaper, StopsOnly
  PROVE  Spec => []NeverOversold
<1>1. TypeInv /\ CapInv => NeverOversold
  <2> SUFFICES ASSUME TypeInv, CapInv, NEW h \in Hosts
               PROVE  avail[h] + InUse(h) <= Units
    BY DEF NeverOversold
  <2>1. Used(h) = avail[h] + InUse(h) /\ TypeOK
    BY UsedIsInUse DEF TypeInv
  <2>2. Used(h) + Cardinality(Orphans(h)) <= Units
    BY DEF CapInv
  <2>3. Used(h) \in Nat /\ Cardinality(Orphans(h)) \in Nat /\ Units \in Nat
    BY <2>1, Counts, AvailType DEF Used
  <2> QED BY <2>1, <2>2, <2>3
<1> QED BY <1>1, TypeInvHolds, CapInvHolds, PTL

(* With one reaper and metered stops, and as long as no process dies,      *)
(* every unit of a host is free, booked, or in the hands of a step that is *)
(* about to give it back or book it.                                       *)
THEOREM NoOrphanedCapacityHolds ==
  ASSUME OneReaper, StopsOnly
  PROVE  Spec => []NoOrphanedCapacity
<1>1. TypeInv /\ CapInv => NoOrphanedCapacity
  <2> SUFFICES ASSUME TypeInv, CapInv, count.crashes = 0, NEW h \in Hosts
               PROVE  avail[h] + InUse(h) = Units
    BY DEF NoOrphanedCapacity
  <2>1. Used(h) = avail[h] + InUse(h)
    BY UsedIsInUse DEF TypeInv
  <2> QED BY <2>1 DEF CapInv
<1> QED BY <1>1, TypeInvHolds, CapInvHolds, PTL
=============================================================================
