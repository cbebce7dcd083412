------------------------------ MODULE SwapRoot ------------------------------
(***************************************************************************)
(* The swap root of one container: an Azure file share that the vcontainer *)
(* process mounts under /tmp and the container mounts at /swaproot.  It is *)
(* the only channel between the two.  The host drops task scripts into     *)
(* one_off_tasks/{stream_in,run,stream_out}; the daemon of the container   *)
(* executes them and leaves <task>.pid and <task>.exit in out/tasks.       *)
(*                                                                         *)
(* This module holds the share, the tasks that the RPCs being served will  *)
(* write to it, and the state of the container group as ACI holds it.      *)
(* Dispatcher.tla (host side) and Daemon.tla (container side) act on it.   *)
(***************************************************************************)
EXTENDS Naturals

CONSTANTS
  Session,     \* the RPCs being served, each one handler invocation
  Rpc,         \* Rpc[s]: the kind of RPC that s is
  Target,      \* Target[s]: the Run whose process a Signal s is sent to
  BindMounts,  \* number of bind mounts in the ContainerSpec of a Create
  MaxTries,    \* bound on the executions of one task (1 + failed mv's)
  Faults,      \* the failures that may happen, see FaultKind
  NoTask       \* no task: the empty $current_file of the daemon

RpcKind == {"create", "stream_in", "run", "signal", "stream_out"}

(* dispatch: an I/O error, or the end of the server process, inside a      *)
(*   handler; su: su refuses the user of the task; slow_fork: a background *)
(*   bash needs more than the daemon's `sleep 1' to open its script;       *)
(*   mv: the daemon's mv fails; container: the container group goes away;  *)
(*   write_back: the mount holds writes back until the file is closed, and *)
(*   a write or a close whose error the code does not look at may lose     *)
(*   them, so that what such a file holds is not certain.                  *)
FaultKind == {"dispatch", "su", "slow_fork", "mv", "container", "write_back"}

(* One container group is created at most once: a second Create of the     *)
(* same handle is outside this module.                                     *)
ASSUME SwapRootAssumption ==
  /\ Rpc \in [Session -> RpcKind]
  /\ Target \in [Session -> Session]
  /\ BindMounts \in Nat
  /\ MaxTries \in Nat \ {0}
  /\ Faults \subseteq FaultKind
  /\ \A s \in Session : Rpc[s] = "signal" => Rpc[Target[s]] = "run"
  /\ \A s, r \in Session : Rpc[s] = "create" /\ Rpc[r] = "create" => s = r

-----------------------------------------------------------------------------
(* Tasks.  A task id is a fresh uuid: <<s, i>> is the i-th task that RPC s *)
(* schedules.                                                              *)

(* The number of tasks an RPC schedules: mkdir, chmod, rsync for each bind *)
(* mount; mkdir, chmod, tar; mkdir, tar-cf; one script; one kill.          *)
Size(s) ==
  CASE Rpc[s] = "create"     -> 3 * BindMounts
    [] Rpc[s] = "stream_in"  -> 3
    [] Rpc[s] = "stream_out" -> 2
    [] OTHER                 -> 1

Task == UNION {{<<s, i>> : i \in 1 .. Size(s)} : s \in Session}

ASSUME NoTaskAssumption == NoTask \notin Task

(* The one_off_tasks subfolder a task is written to.                       *)
Step(t) ==
  CASE Rpc[t[1]] \in {"create", "stream_in"} -> "stream_in"
    [] Rpc[t[1]] \in {"run", "signal"}       -> "run"
    [] OTHER                                 -> "stream_out"

-----------------------------------------------------------------------------
VARIABLES
  dirs,       \* what else is on the share: "tasks" for the directories that
              \* Prepare makes (one_off_tasks/*, out/tasks), "daemon" for the
              \* whole entry script, "in" for the in folder
  script,     \* under which name the script of a task exists
  body,       \* the tasks whose script has its whole text
  env,        \* the tasks whose env file is certain to be whole
  staged,     \* staged[s]: tasks of s up to this one are certain to have their
              \* payload (copied folder, file to extract) in the in folder
  ctime,      \* change time of the *.sh name, set by the rename
  now,        \* the clock of the file server
  pidFile,    \* out/tasks/<task>.pid
  exitFile,   \* out/tasks/<task>.exit
  container   \* the container group

hostFiles == <<dirs, body, env, staged, ctime, now>>
taskFiles == <<pidFile, exitFile>>
swapVars  == <<hostFiles, script, taskFiles, container>>

Names    == {"none", "temp", "sh", "executed"}
Contents == {"absent", "empty", "written"}

(* The handler renamed the script to *.sh: the daemon may see it.          *)
Published(t) == script[t] \in {"sh", "executed"}

(* $1/*.sh of the daemon.                                                  *)
Visible(f) == {t \in Task : script[t] = "sh" /\ Step(t) = f}

(* A Create prepares the share and starts the container.  A behaviour with *)
(* no Create among its RPCs starts after one; whether that one had bind    *)
(* mounts decides whether the in folder exists.                            *)
SwapInit ==
  /\ IF \E s \in Session : Rpc[s] = "create"
     THEN dirs = {} /\ container = "none"
     ELSE /\ dirs \in {{"tasks", "daemon"}, {"tasks", "daemon", "in"}}
          /\ container = "running"
  /\ script = [t \in Task |-> "none"]
  /\ body = {} /\ env = {}
  /\ staged = [s \in Session |-> 0]
  /\ ctime = [t \in Task |-> 0] /\ now = 0
  /\ pidFile = [t \in Task |-> "absent"]
  /\ exitFile = [t \in Task |-> "absent"]

SwapTypeOK ==
  /\ dirs \subseteq {"tasks", "daemon", "in"}
  /\ script \in [Task -> Names]
  /\ body \subseteq Task /\ env \subseteq Task
  /\ staged \in [Session -> Nat]
  /\ ctime \in [Task -> Nat] /\ now \in Nat
  /\ pidFile \in [Task -> Contents]
  /\ exitFile \in [Task -> Contents]
  /\ container \in {"none", "running", "gone"}
=============================================================================
