------------------------------ MODULE MCCommon ------------------------------
(***************************************************************************)
(* The parts that do not depend on the scheduler, side by side with the    *)
(* mailboxes of the SCC port (SccMailbox): `part' says which of them a     *)
(* behaviour is about, the others stay in their initial states.            *)
(***************************************************************************)
EXTENDS SccMailbox, TLC

CONSTANTS
  MailNodes,                        \* Mailbox
  SetNodes,                         \* StreamSet
  Mons, DIRTY_END,                  \* MonTask
  Wrappers,                         \* HwLoc
  In, Out                           \* HrcPriority

VARIABLES
  part,
  mlist_free, mlist_inbox, mnext, mmsg, mallocated, spc, snode, msent, rpc, rnode, rmsg,
  set, next, cur, prev, iterating, valid,
  clock, is_wrapper, wflags, wstate, wait_current, wait_cnt, wait_time, printed, began,
  waited, waits,
  tstate, assigned, dirty_list, blockon, last_cnt, allocated, open, dirty, mode, state,
  counter, strevt, call, cause, printedCause, pending, unreported,
  build, _lpel_global_config, machine, pu_count, hw_places, trav, offset_others,
  rot_others, proc_others, proc_workers, main, inits, tpc, core, rot, rt,
  func, type, gone, level, wlag, rlag

mailVars ==
  <<mlist_free, mlist_inbox, mnext, mmsg, mallocated, spc, snode, msent, rpc, rnode, rmsg>>
setVars == <<set, next, cur, prev, iterating, valid>>
workerVars ==
  <<clock, is_wrapper, wflags, wstate, wait_current, wait_cnt, wait_time, printed, began,
    waited, waits>>
taskVars ==
  <<tstate, assigned, dirty_list, blockon, last_cnt, allocated, open, dirty, mode, state,
    counter, strevt, call, cause, printedCause, pending, unreported>>
hwVars ==
  <<build, _lpel_global_config, machine, pu_count, hw_places, trav, offset_others,
    rot_others, proc_others, proc_workers, main, inits, tpc, core, rot, rt>>
prioVars == <<func, type, gone, level, wlag, rlag>>
mcvars == <<part, vars, mailVars, setVars, workerVars, taskVars, hwVars, prioVars>>

-----------------------------------------------------------------------------
(* The mailbox of the master, one of a wrapper of node 1, which shares its   *)
(* register, and one of a wrapper of the master, which has a mutex           *)
MCBoxes == {<<0, 0>>, <<1, 1>>, <<0, 1>>}

MCConfigs ==
  [num_workers : 0 .. 3, proc_workers : 0 .. 3, proc_others : 0 .. 2,
   type : {"DECEN", "HRC"}, flags : SUBSET {"PINNED", "EXCLUSIVE"}]
MCTopologies == {<<<<1>>, <<1>>>>, <<<<2, 1>>, <<1>>>>, <<<<1, 1, 1>>>>, <<<<2, 2>>, <<1>>>>}
MCBuilds ==
  {[hwloc |-> TRUE, sysconf |-> TRUE, known |-> TRUE],
   [hwloc |-> FALSE, sysconf |-> TRUE, known |-> TRUE],
   [hwloc |-> FALSE, sysconf |-> TRUE, known |-> FALSE],
   [hwloc |-> FALSE, sysconf |-> FALSE, known |-> FALSE]}

Mail == INSTANCE Mailbox WITH
  Nodes <- MailNodes, list_free <- mlist_free, list_inbox <- mlist_inbox, next <- mnext,
  msg <- mmsg, allocated <- mallocated, sent <- msent
Set == INSTANCE StreamSet WITH Nodes <- SetNodes
Worker == INSTANCE MonWorker WITH
  Billion <- 3, MaxClock <- 3, MaxTicks <- 1, MaxWaits <- 2,
  flags <- wflags, state <- wstate
Task == INSTANCE MonTask WITH Flags <- {"TASK", "STREAM"}, MaxCounter <- 1
Hw == INSTANCE HwLoc WITH
  Builds <- MCBuilds, Configs <- MCConfigs, Topologies <- MCTopologies, Restarts <- 1
Prio == INSTANCE HrcPriority WITH MaxRecords <- 1, Lim <- 1

(* One configuration is enough of a part that does not move *)
MCInit ==
  /\ part \in {"scc", "mailbox", "set", "worker", "task", "hwloc", "priority"}
  /\ Init /\ Mail!Init /\ Set!Init /\ Worker!Init /\ Task!Init /\ Hw!Init /\ Prio!Init
  /\ part # "worker" => ~is_wrapper /\ wflags = {}
  /\ part # "hwloc" => machine = <<<<1>>, <<1>>>> /\ build.hwloc
  /\ part # "priority" => func = 14 /\ type = [s \in In \cup Out |-> "MIDDLE"]

MCNext ==
  \/ /\ part = "scc" /\ Next
     /\ UNCHANGED <<part, mailVars, setVars, workerVars, taskVars, hwVars, prioVars>>
  \/ /\ part = "mailbox" /\ Mail!Next
     /\ UNCHANGED <<part, vars, setVars, workerVars, taskVars, hwVars, prioVars>>
  \/ /\ part = "set" /\ Set!Next
     /\ UNCHANGED <<part, vars, mailVars, workerVars, taskVars, hwVars, prioVars>>
  \/ /\ part = "worker" /\ Worker!Next
     /\ UNCHANGED <<part, vars, mailVars, setVars, taskVars, hwVars, prioVars>>
  \/ /\ part = "task" /\ Task!Next
     /\ UNCHANGED <<part, vars, mailVars, setVars, workerVars, hwVars, prioVars>>
  \/ /\ part = "hwloc" /\ Hw!Next
     /\ UNCHANGED <<part, vars, mailVars, setVars, workerVars, taskVars, prioVars>>
  \/ /\ part = "priority" /\ Prio!Next
     /\ UNCHANGED <<part, vars, mailVars, setVars, workerVars, taskVars, hwVars>>

MCSpec == MCInit /\ [][MCNext]_mcvars

Symmetry == Permutations(Senders)

-----------------------------------------------------------------------------
(* Every node of a mailbox has one owner, and none is leaked                 *)
(* (LpelMailboxSend(), LpelMailboxRecv(), LpelMailboxDestroy())              *)
NodeOwnership == Mail!NodeOwnership

(* A mailbox is a FIFO queue: each message is received once, unchanged, in   *)
(* the order of the insertions                                               *)
ImplementsQueue == Mail!ImplementsQueue

(* Sets of stream descriptors are sequences, and an iteration visits each    *)
(* descriptor once although some are removed and appended on the way         *)
(* (LpelStreamIterNext(), LpelStreamIterRemove())                            *)
ImplementsSeq == Set!ImplementsSeq

(* The waiting times of a worker are added up exactly (MonCbWorkerWaitStop()) *)
StatisticExact == Worker!StatisticExact

(* A task that has stopped has reported all events of its streams, and why   *)
(* it stopped (MonCbTaskStop())                                              *)
NothingUnreported == Task!NothingUnreported

(* Threads run on existing cores of their own kind without hwloc, and with   *)
(* hwloc the workers below pu_count on their own core (LpelThreadAssign())   *)
PlacedWithin == Hw!PlacedWithin

(* Records in an input never lower a priority, records in an output never    *)
(* raise it (LpelTaskCalPriority())                                          *)
DemandDriven == Prio!DemandDriven
=============================================================================
