------------------------------ MODULE MCHrcLive ------------------------------
(***************************************************************************)
(* What must eventually happen in the HRC scheduler: with any tasks, which *)
(* block, yield and exit as they like and are stopped by LpelStop()        *)
(* (part = "sched"), and with the pipeline of HrcDemand, whose tasks are    *)
(* ranked by the streams between them (part = "demand").                   *)
(***************************************************************************)
EXTENDS HrcDemand

CONSTANTS entry, mid, exit

VARIABLE part

MCPipe == <<entry, mid, exit>>
MCTasks == {entry, mid, exit}

(* Any tasks have the same priority, and run on two workers *)
Sched == INSTANCE HrcSched WITH num_workers <- 2, MaxPrior <- 1, NegDemandLim <- FALSE

hrcVars ==
  <<state, wakenup, waiter, mastermb, workermbs, mainpc, ready_tasks, prior, waitworkers,
    terminate, mpc, bcast, wpc, current_task>>
demandVars == <<neg_demand_lim, n_sem, level, rec_cnt, step>>
mcvars == <<part, hrcVars, demandVars>>

MCInit ==
  \/ part = "sched" /\ Sched!Init /\ StreamInit /\ neg_demand_lim = 0
  \/ part = "demand" /\ DemandInit

MCNext ==
  \/ /\ part = "sched" /\ Sched!Next
     /\ state'[exit] = "none"     \* bound: two tasks are created
     /\ UNCHANGED <<part, demandVars>>
  \/ part = "demand" /\ DemandNext /\ UNCHANGED part

(* Threads keep running.  A task that runs on a worker eventually stops    *)
(* after LpelStop(), which is what the program promises by calling it, and *)
(* a thread never stays between the sends of one operation.                *)
SchedFairness ==
  /\ WF_hrcVars(part = "sched" /\ Sched!Master)
  /\ \A w \in Sched!Workers :
       /\ WF_hrcVars(/\ part = "sched"
                     /\ \/ Sched!requestTask(w) \/ Sched!WorkerAssign(w)
                        \/ Sched!WorkerTerminate(w) \/ Sched!LpelTaskBlockStream(w)
                        \/ Sched!returnTask(w))
       /\ WF_hrcVars(part = "sched" /\ mainpc = "stopping" /\ Sched!LpelTaskExit(w))
  /\ WF_hrcVars(part = "sched" /\ (Sched!Join \/ Sched!cleanupMasterMb \/ Sched!CleanupDone))

(* Threads keep running, and so do the tasks on workers *)
DemandFairness ==
  /\ WF_dvars(part = "demand" /\ StartTask)
  /\ WF_dvars(part = "demand" /\ MasterStep)
  /\ \A w \in Workers : WF_dvars(part = "demand" /\ (WorkerStep(w) \/ RunTask(w)))

LiveSpec == MCInit /\ [][MCNext]_mcvars /\ SchedFairness /\ DemandFairness

-----------------------------------------------------------------------------
(* UnblockedIsScheduled, checked with the priorities of HrcDemand too, and   *)
(* StopTerminates are those of HrcSched.                                     *)

(* The records in the pipeline get through, although the master ranks its    *)
(* tasks and refuses the entry task (LpelTaskCalPriority(), MasterLoop())    *)
PipelineFlows == part = "demand" => RecordsFlow
=============================================================================
