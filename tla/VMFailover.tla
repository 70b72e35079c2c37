----------------------------- MODULE VMFailover -----------------------------
(***************************************************************************)
(* The placement of VM rentals on hosts: heartbeats and the reaper, the     *)
(* failover of a VM off a dead host, the refund of bookings a dead host     *)
(* strands, the expiry of paid windows, and the requests that settle a      *)
(* rental meanwhile (lumaris_api/db.py, main.py, tools/reaper.py).         *)
(*                                                                         *)
(* Each VM v has one booking, also named v.  A reaper is one process        *)
(* running the maintenance cycle: main.py's (Main) or tools/reaper.py's,    *)
(* which has no refund phase.  Requests are threads that serve one handler  *)
(* at a time.  An action is what one commit makes visible, or one read of   *)
(* rows whose stale copy a later step uses; pc[w] is what w does next.      *)
(* Amounts are the subject of RentalEscrow: here a settlement records only  *)
(* whose seller it paid.  Bookings that settle_dead_specs keeps because a   *)
(* task has a checkpoint are left out.                                     *)
(***************************************************************************)
EXTENDS Integers, FiniteSets

CONSTANTS
  Hosts, VMs,     \* seller_specs; vm_routes with their bookings
  Price,          \* price_per_hour of each host
  Units,          \* total_units of every host
  Reapers, Main,  \* maintenance processes; those running main.py's cycle
  Requests,       \* request threads
  Handlers,       \* requests enabled: subset of AllHandlers
  MaxSilences,    \* bound on the heartbeats lost past the timeout
  MaxRegisters,   \* bound on the tunnel registrations
  MaxCrashes,     \* bound on the processes that die between two commits
  NoHost          \* no host: nobody paid, nothing loaded

AllHandlers == {"stop", "result", "accept", "register"}
Workers == Reapers \cup Requests

ASSUME HostAssumption == Price \in [Hosts -> Nat] /\ NoHost \notin Hosts
ASSUME WorkerAssumption == Reapers \cap Requests = {} /\ Main \subseteq Reapers
ASSUME BoundAssumption == /\ Units \in Nat /\ MaxSilences \in Nat
                          /\ MaxRegisters \in Nat /\ MaxCrashes \in Nat
ASSUME HandlerAssumption == Handlers \subseteq AllHandlers
ASSUME FiniteAssumption == IsFiniteSet(VMs) /\ IsFiniteSet(Workers)

VARIABLES
  online,   \* specs.status = "online"
  fresh,    \* last_seen is within HEARTBEAT_TIMEOUT_S
  avail,    \* specs.available_units
  vm,       \* vm_routes: status and current_spec_id
  booking,  \* bookings: settled or not, and spec_id (seller_id goes with it)
  elapsed,  \* the paid window of each VM has ended
  paid,     \* the host whose seller the settlement paid
  count,    \* silences, registrations and crashes, for their bounds
  pc, loc   \* where each worker is, and its local variables

hostVars == <<online, fresh>>
vars == <<online, fresh, avail, vm, booking, elapsed, paid, count, pc, loc>>

Running == {"starting", "running", "migrating"}
VMRow == [status : Running \cup {"stopped", "failed"}, spec : Hosts]
BookingRow == [live : BOOLEAN, spec : Hosts]

(* vm: the VM in hand; old, new: the spec of the row as loaded and the     *)
(* target; was: the VM status as loaded; dead, todo: what is left of the   *)
(* lists loaded at the start of a loop.                                    *)
Locals == [vm : VMs \cup {NoHost}, old : Hosts \cup {NoHost}, new : Hosts \cup {NoHost},
           was : Running \cup {"failed"}, dead : SUBSET Hosts, todo : SUBSET VMs]
NoLocals == [vm |-> NoHost, old |-> NoHost, new |-> NoHost, was |-> "running",
             dead |-> {}, todo |-> {}]
Labels == {"idle", "mark", "hosts", "vms", "pick", "move", "lost", "book", "orphan",
           "orphan_stop", "free_old", "rf_scan", "rf_hosts", "rf", "rf_free",
           "ex_scan", "ex", "ex_free", "ex_stop", "settle", "release", "free", "register"}

TypeOK ==
  /\ online \in [Hosts -> BOOLEAN] /\ fresh \in [Hosts -> BOOLEAN]
  /\ avail \in [Hosts -> 0 .. Units]
  /\ vm \in [VMs -> VMRow] /\ booking \in [VMs -> BookingRow]
  /\ elapsed \in [VMs -> BOOLEAN] /\ paid \in [VMs -> Hosts \cup {NoHost}]
  /\ count \in [silences : Nat, registers : Nat, crashes : Nat]
  /\ pc \in [Workers -> Labels] /\ loc \in [Workers -> Locals]

(* Every VM has been launched on an online host that had a unit for it. *)
Init ==
  \E place \in [VMs -> Hosts] :
    LET placed(h) == Cardinality({v \in VMs : place[v] = h}) IN
    /\ \A h \in Hosts : placed(h) <= Units
    /\ online = [h \in Hosts |-> TRUE] /\ fresh = [h \in Hosts |-> TRUE]
    /\ avail = [h \in Hosts |-> Units - placed(h)]
    /\ vm = [v \in VMs |-> [status |-> "starting", spec |-> place[v]]]
    /\ booking = [v \in VMs |-> [live |-> TRUE, spec |-> place[v]]]
    /\ elapsed = [v \in VMs |-> FALSE] /\ paid = [v \in VMs |-> NoHost]
    /\ count = [silences |-> 0, registers |-> 0, crashes |-> 0]
    /\ pc = [w \in Workers |-> "idle"] /\ loc = [w \in Workers |-> NoLocals]

-----------------------------------------------------------------------------
(* Helpers *)

VMLive(v) == vm[v].status \in Running
Goto(w, from, to) == pc[w] = from /\ pc' = [pc EXCEPT ![w] = to] /\ UNCHANGED loc
GotoWith(w, from, to, l) ==
  pc[w] = from /\ pc' = [pc EXCEPT ![w] = to] /\ loc' = [loc EXCEPT ![w] = l]
Finish(w, from) == GotoWith(w, from, "idle", NoLocals)
(* the next VM of the list a loop has loaded *)
TakeVM(w, v) == v \in loc[w].todo /\ loc' =
                  [loc EXCEPT ![w].vm = v, ![w].todo = @ \ {v}]
SetVM(v, s) == vm' = [vm EXCEPT ![v].status = s]

(* release_unit never exceeds total_units *)
ReleaseUnit(h) == avail' = [avail EXCEPT ![h] = IF @ < Units THEN @ + 1 ELSE @]

(* Mutant: the guard is lost. *)
SettlesAgain(v, p) ==
  /\ booking' = [booking EXCEPT ![v].live = FALSE]
  /\ paid' = [paid EXCEPT ![v] = p]
(* The status guard of every settlement; p is the host whose seller is paid. *)
Settles(v, p) ==
  /\ booking[v].live
  /\ booking' = [booking EXCEPT ![v].live = FALSE]
  /\ paid' = [paid EXCEPT ![v] = p]
AlreadySettled(v) == ~booking[v].live /\ UNCHANGED <<booking, paid>>

-----------------------------------------------------------------------------
(* Hosts and time *)

(* touch_spec *)
Heartbeat(h) ==
  /\ ~fresh[h]
  /\ fresh' = [fresh EXCEPT ![h] = TRUE] /\ online' = [online EXCEPT ![h] = TRUE]
  /\ UNCHANGED <<avail, vm, booking, elapsed, paid, count, pc, loc>>

GoSilent(h) ==
  /\ fresh[h] /\ count.silences < MaxSilences
  /\ fresh' = [fresh EXCEPT ![h] = FALSE]
  /\ count' = [count EXCEPT !.silences = @ + 1]
  /\ UNCHANGED <<online, avail, vm, booking, elapsed, paid, pc, loc>>

WindowEnds(v) ==
  /\ ~elapsed[v] /\ elapsed' = [elapsed EXCEPT ![v] = TRUE]
  /\ UNCHANGED <<hostVars, avail, vm, booking, paid, count, pc, loc>>

-----------------------------------------------------------------------------
(* reap_and_failover *)

ReapScan(w) ==
  /\ GotoWith(w, "idle", "mark", [NoLocals EXCEPT !.dead = {h \in Hosts : online[h] /\ ~fresh[h]}])
  /\ UNCHANGED <<hostVars, avail, vm, booking, elapsed, paid, count>>

(* reap_stale_specs *)
ReapMark(w) ==
  /\ Goto(w, "mark", "hosts")
  /\ online' = [h \in Hosts |-> online[h] /\ fresh[h]]
  /\ UNCHANGED <<fresh, avail, vm, booking, elapsed, paid, count>>

(* failover_vms_on_spec: the live VMs of the next dead host *)
NextHost(w) ==
  /\ \E d \in loc[w].dead :
       GotoWith(w, "hosts", "vms",
                [NoLocals EXCEPT !.dead = loc[w].dead \ {d}, !.old = d,
                                 !.todo = {v \in VMs : vm[v].spec = d /\ VMLive(v)}])
  /\ UNCHANGED <<hostVars, avail, vm, booking, elapsed, paid, count>>

(* Mutant: the cycle goes straight on to the expiry of windows. *)
HostsDoneNoRefunds(w) ==
  /\ loc[w].dead = {} /\ GotoWith(w, "hosts", "ex_scan", NoLocals)
  /\ UNCHANGED <<hostVars, avail, vm, booking, elapsed, paid, count>>

HostsDone(w) ==
  /\ loc[w].dead = {}
  /\ GotoWith(w, "hosts", IF w \in Main THEN "rf_scan" ELSE "ex_scan", NoLocals)
  /\ UNCHANGED <<hostVars, avail, vm, booking, elapsed, paid, count>>

VMsDone(w) ==
  /\ loc[w].todo = {} /\ Goto(w, "vms", "hosts")
  /\ UNCHANGED <<hostVars, avail, vm, booking, elapsed, paid, count>>

(* failover_vm: with its booking settled there is nothing to migrate for *)
FailoverBegin(w, v) ==
  /\ pc[w] = "vms" /\ TakeVM(w, v)
  /\ \/ booking[v].live /\ pc' = [pc EXCEPT ![w] = "pick"] /\ UNCHANGED vm
     \/ ~booking[v].live /\ SetVM(v, "stopped") /\ UNCHANGED pc
  /\ UNCHANGED <<hostVars, avail, booking, elapsed, paid, count>>

(* _pick_failover_spec: the cheapest live host with a unit *)
Candidates(w) == {h \in Hosts \ {loc[w].old} : online[h] /\ fresh[h] /\ avail[h] >= 1}

FailoverPick(w) ==
  LET v == loc[w].vm IN
  /\ pc[w] = "pick"
  /\ \/ /\ Candidates(w) = {}
        /\ SetVM(v, "failed") /\ Goto(w, "pick", "vms")
     \/ \E h \in Candidates(w) :
          /\ \A k \in Candidates(w) : Price[h] <= Price[k]
          /\ GotoWith(w, "pick", "move", [loc[w] EXCEPT !.new = h])
          /\ UNCHANGED vm
  /\ UNCHANGED <<hostVars, avail, booking, elapsed, paid, count>>

(* Mutant: the pointer moves without checking that the VM is still live. *)
FailoverMoveUnguarded(w) ==
  LET v == loc[w].vm   h == loc[w].new IN
  /\ pc[w] = "move" /\ avail[h] > 0
  /\ avail' = [avail EXCEPT ![h] = @ - 1]
  /\ vm' = [vm EXCEPT ![v] = [status |-> "migrating", spec |-> h]]
  /\ Goto(w, "move", "book")
  /\ UNCHANGED <<hostVars, booking, elapsed, paid, count>>

(* Mutant: the unit is taken from the host the VM leaves. *)
FailoverMoveSwapped(w) ==
  LET v == loc[w].vm   h == loc[w].new IN
  /\ pc[w] = "move" /\ avail[h] > 0
  /\ avail' = [avail EXCEPT ![loc[w].old] = @ - 1]
  /\ vm' = [vm EXCEPT ![v] = [status |-> "migrating", spec |-> h]]
  /\ Goto(w, "move", "book")
  /\ UNCHANGED <<hostVars, booking, elapsed, paid, count>>

(* try_reserve_unit and the CAS on current_spec_id share a commit *)
FailoverMove(w) ==
  LET v == loc[w].vm   h == loc[w].new
      mine == vm[v].spec = loc[w].old /\ VMLive(v)
  IN
  /\ pc[w] = "move"
  /\ \/ avail[h] = 0 /\ SetVM(v, "failed") /\ Goto(w, "move", "vms") /\ UNCHANGED avail
     \/ /\ avail[h] > 0 /\ avail' = [avail EXCEPT ![h] = @ - 1]
        /\ \/ /\ mine /\ vm' = [vm EXCEPT ![v] = [status |-> "migrating", spec |-> h]]
              /\ Goto(w, "move", "book")
           \/ ~mine /\ Goto(w, "move", "lost") /\ UNCHANGED vm
  /\ UNCHANGED <<hostVars, booking, elapsed, paid, count>>

FailoverLost(w) ==
  /\ Goto(w, "lost", "vms") /\ ReleaseUnit(loc[w].new)
  /\ UNCHANGED <<hostVars, vm, booking, elapsed, paid, count>>

(* Mutant: the re-point of the booking is unconditional. *)
FailoverBookUnguarded(w) ==
  /\ Goto(w, "book", "free_old")
  /\ booking' = [booking EXCEPT ![loc[w].vm].spec = loc[w].new]
  /\ UNCHANGED <<hostVars, avail, vm, elapsed, paid, count>>

(* Mutant: the booking stays on the host the VM left. *)
FailoverBookForgotten(w) ==
  /\ Goto(w, "book", "free_old")
  /\ UNCHANGED <<hostVars, avail, vm, booking, elapsed, paid, count>>

(* the booking must follow the VM, if it is still live *)
FailoverBook(w) ==
  LET v == loc[w].vm IN
  /\ pc[w] = "book"
  /\ \/ /\ booking[v].live
        /\ booking' = [booking EXCEPT ![v].spec = loc[w].new]
        /\ Goto(w, "book", "free_old")
     \/ ~booking[v].live /\ Goto(w, "book", "orphan") /\ UNCHANGED booking
  /\ UNCHANGED <<hostVars, avail, vm, elapsed, paid, count>>

FailoverOrphan(w) ==
  /\ Goto(w, "orphan", "orphan_stop") /\ ReleaseUnit(loc[w].new)
  /\ UNCHANGED <<hostVars, vm, booking, elapsed, paid, count>>

FailoverOrphanStop(w) ==
  /\ Goto(w, "orphan_stop", "vms") /\ SetVM(loc[w].vm, "stopped")
  /\ UNCHANGED <<hostVars, avail, booking, elapsed, paid, count>>

(* Mutant: the migration leaves the dead host's unit taken. *)
FailoverFreeForgotten(w) ==
  /\ Goto(w, "free_old", "vms")
  /\ UNCHANGED <<hostVars, avail, vm, booking, elapsed, paid, count>>

FailoverFreeOld(w) ==
  /\ Goto(w, "free_old", "vms") /\ ReleaseUnit(loc[w].old)
  /\ UNCHANGED <<hostVars, vm, booking, elapsed, paid, count>>

-----------------------------------------------------------------------------
(* settle_dead_specs: the bookings of each offline host, as loaded *)

RefundScan(w) ==
  /\ GotoWith(w, "rf_scan", "rf_hosts", [NoLocals EXCEPT !.dead = {h \in Hosts : ~online[h]}])
  /\ UNCHANGED <<hostVars, avail, vm, booking, elapsed, paid, count>>

RefundHost(w) ==
  /\ \E d \in loc[w].dead :
       GotoWith(w, "rf_hosts", "rf",
                [NoLocals EXCEPT !.dead = loc[w].dead \ {d}, !.old = d,
                                 !.todo = {v \in VMs : booking[v].spec = d /\ booking[v].live}])
  /\ UNCHANGED <<hostVars, avail, vm, booking, elapsed, paid, count>>

RefundHostsDone(w) ==
  /\ loc[w].dead = {} /\ Goto(w, "rf_hosts", "ex_scan")
  /\ UNCHANGED <<hostVars, avail, vm, booking, elapsed, paid, count>>

RefundCas(w, v) ==
  /\ pc[w] = "rf" /\ TakeVM(w, v)
  /\ \/ Settles(v, NoHost) /\ pc' = [pc EXCEPT ![w] = "rf_free"]
     \/ AlreadySettled(v) /\ UNCHANGED pc
  /\ UNCHANGED <<hostVars, avail, vm, elapsed, count>>

RefundFree(w) ==
  /\ Goto(w, "rf_free", "rf") /\ ReleaseUnit(loc[w].old)
  /\ UNCHANGED <<hostVars, vm, booking, elapsed, paid, count>>

RefundsDone(w) ==
  /\ loc[w].todo = {} /\ Goto(w, "rf", "rf_hosts")
  /\ UNCHANGED <<hostVars, avail, vm, booking, elapsed, paid, count>>

-----------------------------------------------------------------------------
(* meter_and_expire *)

ExpireScan(w) ==
  /\ GotoWith(w, "ex_scan", "ex", [NoLocals EXCEPT !.todo = {v \in VMs : VMLive(v) /\ elapsed[v]}])
  /\ UNCHANGED <<hostVars, avail, vm, booking, elapsed, paid, count>>

ExpireRelease(w, v) ==
  /\ pc[w] = "ex" /\ v \in loc[w].todo
  /\ loc' = [loc EXCEPT ![w].vm = v, ![w].todo = @ \ {v}, ![w].old = booking[v].spec]
  /\ \/ Settles(v, booking[v].spec) /\ pc' = [pc EXCEPT ![w] = "ex_free"]
     \/ AlreadySettled(v) /\ pc' = [pc EXCEPT ![w] = "ex_stop"]
  /\ UNCHANGED <<hostVars, avail, vm, elapsed, count>>

ExpireFree(w) ==
  /\ Goto(w, "ex_free", "ex_stop") /\ ReleaseUnit(loc[w].old)
  /\ UNCHANGED <<hostVars, vm, booking, elapsed, paid, count>>

(* Mutant: the expired VM is left running. *)
ExpireStopForgotten(w) ==
  /\ Goto(w, "ex_stop", "ex")
  /\ UNCHANGED <<hostVars, avail, vm, booking, elapsed, paid, count>>

ExpireStop(w) ==
  /\ Goto(w, "ex_stop", "ex") /\ SetVM(loc[w].vm, "stopped")
  /\ UNCHANGED <<hostVars, avail, booking, elapsed, paid, count>>

CycleDone(w) ==
  /\ loc[w].todo = {} /\ Finish(w, "ex")
  /\ UNCHANGED <<hostVars, avail, vm, booking, elapsed, paid, count>>

-----------------------------------------------------------------------------
(* Requests *)

(* stop_vm_metered: the CAS elects the stopper; old keeps the VM's host *)
StopCas(w, v) ==
  /\ "stop" \in Handlers /\ VMLive(v) /\ SetVM(v, "stopped")
  /\ GotoWith(w, "idle", "settle", [NoLocals EXCEPT !.vm = v, !.old = vm[v].spec])
  /\ UNCHANGED <<hostVars, avail, booking, elapsed, paid, count>>

(* a lost settlement frees the VM's host if the booking is on another one *)
StopSettle(w) ==
  LET v == loc[w].vm IN
  /\ pc[w] = "settle"
  /\ \/ /\ Settles(v, booking[v].spec)
        /\ GotoWith(w, "settle", "free", [loc[w] EXCEPT !.old = booking[v].spec])
     \/ /\ AlreadySettled(v)
        /\ IF booking[v].spec # loc[w].old THEN Goto(w, "settle", "free") ELSE Finish(w, "settle")
  /\ UNCHANGED <<hostVars, avail, vm, elapsed, count>>

(* jobs_result releases the booking of a completed task, and reads its row *)
(* afterwards; release_endpoint loaded the row before, to check its buyer  *)
ResultRelease(w, v) ==
  /\ "result" \in Handlers /\ Settles(v, booking[v].spec)
  /\ GotoWith(w, "idle", "free", [NoLocals EXCEPT !.vm = v, !.old = booking[v].spec])
  /\ UNCHANGED <<hostVars, avail, vm, elapsed, count>>

AcceptRead(w, v) ==
  /\ "accept" \in Handlers
  /\ GotoWith(w, "idle", "release", [NoLocals EXCEPT !.vm = v, !.old = booking[v].spec])
  /\ UNCHANGED <<hostVars, avail, vm, booking, elapsed, paid, count>>

AcceptRelease(w) ==
  /\ pc[w] = "release"
  /\ \/ Settles(loc[w].vm, loc[w].old) /\ Goto(w, "release", "free")
     \/ AlreadySettled(loc[w].vm) /\ Finish(w, "release")
  /\ UNCHANGED <<hostVars, avail, vm, elapsed, count>>

FreeUnit(w) ==
  /\ Finish(w, "free") /\ ReleaseUnit(loc[w].old)
  /\ UNCHANGED <<hostVars, vm, booking, elapsed, paid, count>>

(* register_vm_tunnel: the status is checked, then written blindly if it    *)
(* was not "running" already                                               *)
RegisterRead(w, v) ==
  /\ "register" \in Handlers /\ vm[v].status # "stopped" /\ count.registers < MaxRegisters
  /\ count' = [count EXCEPT !.registers = @ + 1]
  /\ GotoWith(w, "idle", "register", [NoLocals EXCEPT !.vm = v, !.was = vm[v].status])
  /\ UNCHANGED <<hostVars, avail, vm, booking, elapsed, paid>>

RegisterWrite(w) ==
  /\ Finish(w, "register")
  /\ IF loc[w].was = "running" THEN UNCHANGED vm ELSE SetVM(loc[w].vm, "running")
  /\ UNCHANGED <<hostVars, avail, booking, elapsed, paid, count>>

(* the process dies, or the request times out, between two commits *)
Crash(w) ==
  /\ pc[w] # "idle" /\ count.crashes < MaxCrashes
  /\ count' = [count EXCEPT !.crashes = @ + 1]
  /\ Finish(w, pc[w])
  /\ UNCHANGED <<hostVars, avail, vm, booking, elapsed, paid>>

-----------------------------------------------------------------------------
FailoverStep(w) ==
  \/ ReapScan(w) \/ ReapMark(w) \/ NextHost(w) \/ HostsDone(w) \/ VMsDone(w)
  \/ \E v \in VMs : FailoverBegin(w, v)
  \/ FailoverPick(w) \/ FailoverMove(w) \/ FailoverLost(w) \/ FailoverBook(w)
  \/ FailoverOrphan(w) \/ FailoverOrphanStop(w) \/ FailoverFreeOld(w)
RefundStep(w) == \/ RefundScan(w) \/ RefundHost(w) \/ RefundHostsDone(w) \/ RefundsDone(w)
                 \/ RefundFree(w) \/ \E v \in VMs : RefundCas(w, v)
ExpireStep(w) == \/ ExpireScan(w) \/ ExpireFree(w) \/ ExpireStop(w) \/ CycleDone(w)
                 \/ \E v \in VMs : ExpireRelease(w, v)
Cycle(w) == FailoverStep(w) \/ RefundStep(w) \/ ExpireStep(w)

Arrive(w) == \E v \in VMs : \/ StopCas(w, v) \/ ResultRelease(w, v)
                            \/ AcceptRead(w, v) \/ RegisterRead(w, v)
Serve(w) == StopSettle(w) \/ AcceptRelease(w) \/ FreeUnit(w) \/ RegisterWrite(w)

Next == \/ \E h \in Hosts : Heartbeat(h) \/ GoSilent(h)
        \/ \E v \in VMs : WindowEnds(v)
        \/ \E w \in Reapers : Cycle(w)
        \/ \E w \in Requests : Arrive(w) \/ Serve(w)
        \/ \E w \in Workers : Crash(w)

Spec == Init /\ [][Next]_vars

(* The maintenance loop runs for ever, a handler that began goes on, and    *)
(* paid windows end; hosts owe nobody a heartbeat.                         *)
FairSpec == /\ Spec
            /\ \A w \in Reapers : WF_vars(Cycle(w))
            /\ \A w \in Requests : WF_vars(Serve(w))
            /\ \A v \in VMs : WF_vars(WindowEnds(v))

-----------------------------------------------------------------------------
(* Safety *)

(* A unit of h is in use by a live booking, or by the step that is about to *)
(* give it back or to put a booking on it.                                  *)
Holds(w, h) == \/ pc[w] \in {"lost", "book", "orphan"} /\ loc[w].new = h
               \/ pc[w] \in {"free_old", "rf_free", "ex_free", "free"} /\ loc[w].old = h
InUse(h) == Cardinality({v \in VMs : booking[v].live /\ booking[v].spec = h})
              + Cardinality({w \in Workers : Holds(w, h)})

(* No host has more units free or in use than it has, even when processes   *)
(* die half way through a migration or a settlement.                        *)
NeverOversold == \A h \in Hosts : avail[h] + InUse(h) <= Units

(* And none is lost either, as long as no process dies.                     *)
NoOrphanedCapacity ==
  count.crashes = 0 => \A h \in Hosts : avail[h] + InUse(h) = Units

(* The booking follows the VM: outside a failover, a live booking of a live *)
(* VM is on the host the VM is on.                                          *)
Moving(v) == \E w \in Reapers : pc[w] \in {"book", "orphan"} /\ loc[w].vm = v
BookingFollowsVM ==
  \A v \in VMs : count.crashes = 0 /\ VMLive(v) /\ booking[v].live /\ ~Moving(v)
                   => booking[v].spec = vm[v].spec

(* A settlement pays the seller of the host its booking is on, or nobody.   *)
HostIsPaid == \A v \in VMs : paid[v] # NoHost => paid[v] = booking[v].spec

(* A rental is settled at most once: no step pays for a settled booking.    *)
SettledOnce == [][\A v \in VMs : ~booking[v].live => paid'[v] = paid[v] /\ booking'[v] = booking[v]]_vars

(* A VM that has been stopped never runs again.                             *)
StoppedForGood ==
  [][\A v \in VMs : vm[v].status = "stopped" => vm'[v].status \notin Running]_vars

(* Liveness *)

(* Refund on reap: a booking whose host stays silent is settled in the end, *)
(* or finds itself on a host that is alive.                                 *)
DeadHostsAreSettled ==
  \A v \in VMs : booking[v].live /\ ~fresh[booking[v].spec]
                   ~> (~booking[v].live \/ fresh[booking[v].spec])

(* A VM whose booking is settled does not go on running.                    *)
SettledVMsStop == \A v \in VMs : ~booking[v].live ~> ~VMLive(v)

(* A failed VM does not keep its booking's money in escrow.                 *)
FailedVMsAreSettled ==
  \A v \in VMs : vm[v].status = "failed" ~> (~booking[v].live \/ VMLive(v))
=============================================================================
