-------------------------------- MODULE HwLoc --------------------------------
(***************************************************************************)
(* Start-up and the assignment of threads to cores (lpel_main.c,           *)
(* lpel_hwloc.c): the number of cores is found out, the configuration is   *)
(* checked against it, and then every thread of the runtime calls          *)
(* LpelThreadAssign() for itself, concurrently with the others.  Master    *)
(* and workers pass a number below num_workers, wrappers LPEL_MAP_OTHERS.  *)
(***************************************************************************)
EXTENDS Integers, Sequences, FiniteSets, SequencesExt

CONSTANTS
  Builds,           \* HAVE_HWLOC, HAVE_SYSCONF, and whether sysconf() knows the
                    \* number of cores or returns -1
  Configs,          \* the lpel_config_t of the program
  Topologies,       \* machines: for each socket, for each core, its number of PUs
  Wrappers,         \* threads that are not workers
  Restarts,         \* bound: calls of LpelInit()
  NULL

VARIABLES
  build,
  _lpel_global_config, machine,
  pu_count, hw_places,
  trav,             \* static variables of traverse()
  offset_others, rot_others, proc_others, proc_workers,
  main,             \* what the program did last
  inits,            \* calls of LpelInit()
  tpc, core,        \* of a thread: progress, and the core it was given
  rot,              \* rot_others as the thread has read it
  rt                \* threads with real-time priority

cfg == _lpel_global_config
config == <<build, _lpel_global_config, machine, pu_count, hw_places, trav>>
starting == <<offset_others, proc_others, proc_workers, main, inits>>
vars == <<config, starting, rot_others, tpc, core, rot, rt>>

LPEL_ERR_FAIL == -1
HAVE_HWLOC == build.hwloc
Workers == 0 .. 7   \* bound: numbers of master and workers
Threads == Workers \cup Wrappers

-----------------------------------------------------------------------------
(* The objects of a machine, in the order in which traverse() meets them *)
Objects(m) ==
  FlattenSeq([s \in DOMAIN m |-> <<"SOCKET">> \o
    FlattenSeq([c \in DOMAIN m[s] |-> <<"CORE">> \o [p \in 1 .. m[s][c] |-> "PU"]])])

NumPUs(m) == Len(SelectSeq(Objects(m), LAMBDA o : o = "PU"))

(* One object of traverse(); `places' is what it has entered in hw_places *)
traverse(v, object) ==
  CASE object = "SOCKET" -> [v EXCEPT !.socket = @ + 1, !.core = -1, !.pu = -1]
    [] object = "CORE" -> [v EXCEPT !.core = @ + 1, !.pu = -1]
    [] object = "PU" ->
         [v EXCEPT !.pu = @ + 1, !.index = @ + 1,
                   !.places = Append(@, <<v.socket, v.core, v.pu + 1>>)]

LpelWorkerToHwLoc(wid) == hw_places[wid + 1]

LpelHwLocToWorker(place) ==
  IF \E i \in DOMAIN hw_places : hw_places[i] = place
  THEN (CHOOSE i \in DOMAIN hw_places :
          hw_places[i] = place /\ \A j \in 1 .. i - 1 : hw_places[j] # place) - 1
  ELSE -1

-----------------------------------------------------------------------------
Init ==
  /\ build \in Builds /\ _lpel_global_config = NULL /\ machine \in Topologies
  /\ pu_count = 0 /\ hw_places = <<>>
  /\ trav = [index |-> 0, socket |-> -1, core |-> -1, pu |-> -1, places |-> <<>>]
  /\ offset_others = 0 /\ rot_others = 0 /\ proc_others = 0 /\ proc_workers = 0
  /\ main = "new" /\ inits = 0
  /\ tpc = [t \in Threads |-> "none"]
  /\ core = [t \in Threads |-> NULL]
  /\ rot = [t \in Threads |-> 0]
  /\ rt = {}

(* What sysconf() returns, or LPEL_NUM_WORKERS if it is set correctly *)
LpelGetNumCores == NumPUs(machine)

(* LpelHwLocInit(); without sysconf pu_count becomes the result 0 of the     *)
(* call of LpelGetNumCores(), which is not the number of cores               *)
LpelHwLocInit ==
  IF HAVE_HWLOC
  THEN /\ pu_count' = NumPUs(machine)
       /\ LET v == FoldLeft(traverse, [trav EXCEPT !.places = <<>>], Objects(machine))
          IN trav' = v /\ hw_places' = v.places
  ELSE /\ pu_count' = IF ~build.sysconf THEN 0
                      ELSE IF build.known THEN LpelGetNumCores ELSE LPEL_ERR_FAIL
       /\ UNCHANGED <<hw_places, trav>>

LpelInit ==
  /\ main = "new" /\ inits < Restarts
  /\ _lpel_global_config' \in Configs
  /\ LpelHwLocInit
  /\ main' = "inited" /\ inits' = inits + 1
  /\ UNCHANGED <<build, machine, offset_others, proc_others, proc_workers,
                 rot_others, tpc, core, rot, rt>>

(* LpelHwLocCheckConfig() returns 0 *)
LpelHwLocCheckConfig(c) ==
  /\ c.num_workers > (IF c.type = "HRC" THEN 1 ELSE 0) /\ c.proc_workers > 0
  /\ c.proc_others >= 0
  /\ pu_count # LPEL_ERR_FAIL =>
       /\ c.proc_workers + c.proc_others <= pu_count
       /\ "EXCLUSIVE" \in c.flags => c.proc_others # 0 /\ c.num_workers <= c.proc_workers
  /\ "EXCLUSIVE" \in c.flags => "PINNED" \in c.flags

(* LpelHwLocStart(); the cpu sets follow from the three numbers *)
LpelHwLocStart ==
  IF HAVE_HWLOC THEN UNCHANGED <<offset_others, proc_others, proc_workers>>
  ELSE /\ proc_workers' = cfg.proc_workers
       /\ offset_others' = IF cfg.proc_others = 0 THEN 0 ELSE cfg.proc_workers
       /\ proc_others' = IF cfg.proc_others = 0 THEN cfg.proc_workers ELSE cfg.proc_others

LpelStart ==
  /\ main = "inited"
  /\ IF LpelHwLocCheckConfig(cfg)
     THEN /\ LpelHwLocStart
          /\ main' = "started"
          /\ tpc' = [t \in Threads |->
               IF t \in 0 .. cfg.num_workers - 1 \cup Wrappers THEN "spawned" ELSE "none"]
     ELSE /\ main' = "refused"
          /\ UNCHANGED <<offset_others, proc_others, proc_workers, tpc>>
  /\ UNCHANGED <<config, inits, rot_others, core, rot, rt>>

-----------------------------------------------------------------------------
(* LpelThreadAssign() *)

Online == 0 .. NumPUs(machine) - 1

(* pthread_setaffinity_np(): fails if no core of the set exists *)
SetAffinity(t, set) ==
  core' = [core EXCEPT ![t] = IF set \cap Online = {} THEN NULL ELSE set \cap Online]

(* hwloc_set_cpubind(); wrappers are not bound, and for a worker numbered    *)
(* pu_count or more what follows cpu_sets in memory is taken for a set: the  *)
(* call fails or binds the thread to any core                                *)
BindHwloc(t) ==
  /\ HAVE_HWLOC /\ tpc[t] = "spawned"
  /\ \E c \in CASE t \in Wrappers -> {NULL}
              [] t \in 0 .. pu_count - 1 -> {{t}}
              [] OTHER -> {NULL} \cup {{o} : o \in Online} :
       core' = [core EXCEPT ![t] = c]
  /\ tpc' = [tpc EXCEPT ![t] = "placed"]
  /\ UNCHANGED <<config, starting, rot_others, rot, rt>>

CpusetWorkers == 0 .. proc_workers - 1
CpusetOthers == offset_others .. offset_others + proc_others - 1

(* A worker: its core if pinned, and best effort to get real-time priority *)
AssignWorker(t) ==
  /\ ~HAVE_HWLOC /\ t \in Workers /\ tpc[t] = "spawned"
  /\ SetAffinity(t, IF "PINNED" \in cfg.flags THEN {t % proc_workers} ELSE CpusetWorkers)
  /\ \/ UNCHANGED rt
     \/ "EXCLUSIVE" \in cfg.flags /\ core'[t] # NULL /\ rt' = rt \cup {t}
  /\ tpc' = [tpc EXCEPT ![t] = "placed"]
  /\ UNCHANGED <<config, starting, rot_others, rot>>

AssignOther(t) ==
  /\ ~HAVE_HWLOC /\ t \in Wrappers /\ tpc[t] = "spawned" /\ "PINNED" \notin cfg.flags
  /\ SetAffinity(t, CpusetOthers)
  /\ tpc' = [tpc EXCEPT ![t] = "placed"]
  /\ UNCHANGED <<config, starting, rot_others, rot, rt>>

(* A pinned wrapper takes the core that rot_others stands for; rot_others is *)
(* then read again and written, and no lock is held meanwhile                *)
AssignOtherPinned(t) ==
  /\ ~HAVE_HWLOC /\ t \in Wrappers /\ tpc[t] = "spawned" /\ "PINNED" \in cfg.flags
  /\ SetAffinity(t, {rot_others + offset_others})
  /\ tpc' = [tpc EXCEPT ![t] = "rotate"]
  /\ UNCHANGED <<config, starting, rot_others, rot, rt>>

ReadRot(t) ==
  /\ tpc[t] = "rotate"
  /\ rot' = [rot EXCEPT ![t] = rot_others]
  /\ tpc' = [tpc EXCEPT ![t] = "write"]
  /\ UNCHANGED <<config, starting, rot_others, core, rt>>

(* fault: the remainder is taken before the increment *)
WriteRotUnbounded(t) ==
  /\ tpc[t] = "write"
  /\ rot_others' = (rot[t] % proc_others) + 1
  /\ tpc' = [tpc EXCEPT ![t] = "placed"]
  /\ UNCHANGED <<config, starting, core, rot, rt>>
WriteRot(t) ==
  /\ tpc[t] = "write"
  /\ rot_others' = (rot[t] + 1) % proc_others
  /\ tpc' = [tpc EXCEPT ![t] = "placed"]
  /\ UNCHANGED <<config, starting, core, rot, rt>>

LpelThreadAssign(t) ==
  \/ BindHwloc(t) \/ AssignWorker(t) \/ AssignOther(t) \/ AssignOtherPinned(t)
  \/ ReadRot(t) \/ WriteRot(t)

(* LpelStop() and LpelCleanup(), after which the program may call LpelInit() *)
LpelCleanup ==
  /\ main = "started" /\ \A t \in Threads : tpc[t] \in {"none", "placed"}
  /\ main' = "new"
  /\ tpc' = [t \in Threads |-> "none"]
  /\ core' = [t \in Threads |-> NULL]
  /\ rt' = {} /\ rot' = [t \in Threads |-> 0]
  /\ UNCHANGED <<config, offset_others, proc_others, proc_workers, inits, rot_others>>

Next ==
  \/ LpelInit \/ LpelStart \/ LpelCleanup
  \/ \E t \in Threads : LpelThreadAssign(t)

Spec == Init /\ [][Next]_vars

-----------------------------------------------------------------------------
(* Without hwloc, and if the number of cores is known, every thread that has *)
(* called LpelThreadAssign() runs on existing cores of its own kind, although *)
(* wrappers race for rot_others: pinned and other threads on the cores after *)
(* those of the workers, if there are any.  hwloc knows no kinds of cores    *)
(* (the FIXMEs of LpelHwLocStart() and LpelThreadAssign()): a worker with a  *)
(* number below pu_count has the core of this number, whose place            *)
(* (LpelWorkerToHwLoc()) is that of no other core, so that                   *)
(* LpelHwLocToWorker() undoes it.  Nothing is said of the workers beyond:    *)
(* lpel_hwloc.c:218 reads past cpu_sets for them, and LpelHwLocCheckConfig() *)
(* compares num_workers with the cores only if EXCLUSIVE is set.             *)
PlacedWithin ==
  \A t \in Threads :
    (main = "started" /\ tpc[t] = "placed" /\ pu_count > 0) =>
      IF HAVE_HWLOC
      THEN t \in 0 .. pu_count - 1 =>
             core[t] = {t} /\ LpelHwLocToWorker(LpelWorkerToHwLoc(t)) = t
      ELSE /\ core[t] # NULL
           /\ core[t] \subseteq IF t \in Wrappers THEN CpusetOthers ELSE CpusetWorkers
           /\ "PINNED" \in cfg.flags => Cardinality(core[t]) = 1

=============================================================================
