------------------------------ MODULE NodeInit ------------------------------
(***************************************************************************)
(* Cilium's node initialisation on a GKE node with containerd (Kubernetes  *)
(* 1.24 or later), with reconfigureKubelet and revertReconfigureKubelet.   *)
(* startup.bash replaces the kubelet by a wrapper, which takes the node's  *)
(* CNI configuration away from containerd each time the kubelet starts;    *)
(* prestop.bash undoes that.  Around them: systemd, the kubelet, the agent *)
(* that waits for the bootstrap file, nodes that reboot, and a release     *)
(* that is installed and uninstalled.                                      *)
(***************************************************************************)
EXTENDS Naturals

CONSTANTS
    MaxReboots, MaxInstalls,
    Torn    \* a node may also die between the removal of its release and the
            \* end of prestop.bash

ASSUME NodeAssumption ==
    MaxReboots \in Nat /\ MaxInstalls \in Nat /\ Torn \in BOOLEAN

VARIABLES
    kubelet,    \* what is in the kubelet's place
    theKubelet, \* the real kubelet is there under its other name
    template,   \* containerd's configuration has an active conf_template
    cni,        \* whose CNI configurations exist
    containerd, enabled,    \* containerd is running; is started at boot
    running,    \* the kubelet: which one runs, or where its wrapper is
    bootstrap, initDone, deinit,    \* the bootstrap file and the two markers
    pod, spc,   \* the node-init pod and its startup script
    ppc,        \* its prestop script
    agent,      \* the Cilium agent
    wanted, installs, reboots

disk == <<kubelet, theKubelet>>
etc == <<template, cni>>
services == <<containerd, enabled, running>>
tmp == <<bootstrap, initDone, deinit>>
pods == <<pod, spc, ppc, agent>>
world == <<wanted, installs, reboots>>
vars == <<disk, etc, services, tmp, pods, world>>

TypeOK ==
    /\ kubelet \in {"real", "absent", "empty", "wrapper"}
    /\ cni \subseteq {"gke", "cilium"}
    /\ theKubelet \in BOOLEAN /\ template \in BOOLEAN
    /\ containerd \in BOOLEAN /\ enabled \in BOOLEAN
    /\ initDone \in BOOLEAN /\ deinit \in BOOLEAN /\ wanted \in BOOLEAN
    /\ running \in {"none", "real", "handed", "check", "stop", "remove", "fix",
                    "write", "start", "exec"}
    /\ bootstrap \in {"missing", "empty", "written"}
    /\ pod \in {"none", "running", "terminating"}
    /\ spc \in {"idle", "test", "mv", "touch", "tee", "restart", "create",
                "date", "rm", "done"}
    /\ ppc \in {"idle", "test", "wait", "clear", "mark", "fix", "mv", "restart",
                "again"}
    /\ agent \in {"none", "waiting", "running"}
    /\ installs \in 0 .. MaxInstalls /\ reboots \in 0 .. MaxReboots

Init ==
    /\ kubelet = "real" /\ theKubelet = FALSE
    /\ template = TRUE /\ cni = {}
    /\ containerd = FALSE /\ enabled = TRUE /\ running = "none"
    /\ bootstrap = "missing" /\ initDone = FALSE /\ deinit = FALSE
    /\ pod = "none" /\ spc = "idle" /\ ppc = "idle" /\ agent = "none"
    /\ wanted = FALSE /\ installs = 0 /\ reboots = 0

-----------------------------------------------------------------------------
(***************************************************************************)
(* systemd.  The kubelet's unit restarts what is in the kubelet's place;   *)
(* containerd is started at boot, next to it.                              *)
(***************************************************************************)
Launched ==
    CASE kubelet = "real" -> "real" [] kubelet = "wrapper" -> "check"
      [] OTHER -> "none"

StartKubelet ==
    /\ running = "none" /\ Launched # "none"
    /\ running' = Launched
    /\ UNCHANGED <<disk, etc, containerd, enabled, tmp, pods, world>>

\* containerd starts by creating a CNI configuration from its template.
ContainerdUp ==
    /\ containerd' = TRUE /\ enabled' = TRUE
    /\ cni' = IF template THEN cni \cup {"gke"} ELSE cni

StartContainerd ==
    /\ enabled /\ ~containerd
    /\ ContainerdUp
    /\ UNCHANGED <<disk, template, running, tmp, pods, world>>

-----------------------------------------------------------------------------
(***************************************************************************)
(* The kubelet wrapper.                                                    *)
(***************************************************************************)
Wrapper(from, to) ==
    /\ running = from /\ running' = to
    /\ UNCHANGED <<disk, tmp, pods, world>>

CheckConfiguration ==
    /\ Wrapper("check", IF "cilium" \notin cni \/ template THEN "stop" ELSE "exec")
    /\ UNCHANGED <<etc, containerd, enabled>>

\* "systemctl disable --now".
StopContainerd ==
    /\ Wrapper("stop", "remove")
    /\ containerd' = FALSE /\ enabled' = FALSE
    /\ UNCHANGED etc

\* Faulty: nothing is removed.
RemoveNothing ==
    /\ Wrapper("remove", "fix")
    /\ UNCHANGED <<etc, containerd, enabled>>

RemoveOthers ==
    /\ Wrapper("remove", "fix")
    /\ cni' = cni \cap {"cilium"}
    /\ UNCHANGED <<template, containerd, enabled>>

FixTemplate ==
    /\ Wrapper("fix", "write")
    /\ template' = FALSE
    /\ UNCHANGED <<cni, containerd, enabled>>

\* Faulty: no temporary configuration.
WriteNothing ==
    /\ Wrapper("write", "start")
    /\ UNCHANGED <<etc, containerd, enabled>>

WriteConfiguration ==
    /\ Wrapper("write", "start")
    /\ cni' = cni \cup {"cilium"}
    /\ UNCHANGED <<template, containerd, enabled>>

\* "systemctl enable --now".
EnableContainerd ==
    /\ Wrapper("start", "exec")
    /\ ContainerdUp
    /\ UNCHANGED template

BecomeKubelet ==
    /\ Wrapper("exec", IF theKubelet THEN "handed" ELSE "none")
    /\ UNCHANGED <<etc, containerd, enabled>>

WrapperStep ==
    \/ CheckConfiguration \/ StopContainerd \/ RemoveOthers \/ FixTemplate
    \/ WriteConfiguration \/ EnableContainerd \/ BecomeKubelet

-----------------------------------------------------------------------------
\* The kubelet can start containers: containerd needs some CNI configuration,
\* also for pods in the host network.
CanStart == running \in {"real", "handed"} /\ containerd /\ cni # {}

\* The node-init container runs startup.bash until it has ended well once.
StartPod ==
    /\ wanted /\ pod = "none" /\ CanStart
    /\ pod' = "running"
    /\ spc' = IF initDone THEN "idle" ELSE "test"
    /\ UNCHANGED <<disk, etc, services, tmp, ppc, agent, world>>

Startup(from, to) ==
    /\ spc = from /\ spc' = to
    /\ UNCHANGED <<etc, pod, ppc, agent, world, containerd, enabled>>

\* Faulty: the kubelet is renamed on each run.
RenameAlways ==
    /\ Startup("test", "mv")
    /\ UNCHANGED <<disk, running, tmp>>

\* "Only create the kubelet wrapper if we haven't previously done so."
TestWrapper ==
    /\ Startup("test", IF theKubelet THEN "restart" ELSE "mv")
    /\ UNCHANGED <<disk, running, tmp>>

\* "mv" puts whatever is in the kubelet's place over the-kubelet.
RenameKubelet ==
    /\ Startup("mv", "touch")
    /\ kubelet' = "absent" /\ theKubelet' = (kubelet = "real")
    /\ UNCHANGED <<running, tmp>>

TouchWrapper ==
    /\ Startup("touch", "tee")
    /\ kubelet' = "empty"
    /\ UNCHANGED <<theKubelet, running, tmp>>

PopulateWrapper ==
    /\ Startup("tee", "restart")
    /\ kubelet' = "wrapper"
    /\ UNCHANGED <<theKubelet, running, tmp>>

RestartKubelet ==
    /\ Startup("restart", "create")
    /\ running' = Launched
    /\ UNCHANGED <<disk, tmp>>

\* "date > file": the shell creates the file, then date writes to it.
CreateBootstrap ==
    /\ Startup("create", "date")
    /\ bootstrap' = "empty"
    /\ UNCHANGED <<disk, running, initDone, deinit>>

WriteBootstrap ==
    /\ Startup("date", "rm")
    /\ bootstrap' = "written"
    /\ UNCHANGED <<disk, running, initDone, deinit>>

\* The marker of prestop.bash is removed.
FinishStartup ==
    /\ Startup("rm", "done")
    /\ deinit' = FALSE
    /\ UNCHANGED <<disk, running, bootstrap, initDone>>

\* The container remembers that the script ended well.
RememberStartup ==
    /\ Startup("done", "idle")
    /\ initDone' = TRUE
    /\ UNCHANGED <<disk, running, bootstrap, deinit>>

StartupStep ==
    \/ TestWrapper \/ RenameKubelet \/ TouchWrapper \/ PopulateWrapper
    \/ RestartKubelet \/ CreateBootstrap \/ WriteBootstrap \/ FinishStartup
    \/ RememberStartup

-----------------------------------------------------------------------------
(***************************************************************************)
(* prestop.bash, which the kubelet runs before it kills the container.     *)
(* The script restarts the kubelet, and the new kubelet runs it again.     *)
(***************************************************************************)
TerminatePod ==
    /\ ~wanted /\ pod = "running" /\ running \in {"real", "handed"}
    /\ pod' = "terminating" /\ ppc' = "test"
    /\ UNCHANGED <<disk, etc, services, tmp, spc, agent, world>>

Prestop(from, to) ==
    /\ ppc = from /\ ppc' = to
    /\ UNCHANGED <<spc, agent, world, cni, containerd, enabled>>

\* Faulty: the marker is not looked at.
TestNothing ==
    /\ Prestop("test", "wait")
    /\ UNCHANGED <<disk, template, running, tmp, pod>>

\* "exit 0" if the script has run before; the pod is gone then.
TestMarker ==
    \/ /\ deinit
       /\ Prestop("test", "idle") /\ pod' = "none"
       /\ UNCHANGED <<disk, template, running, tmp>>
    \/ /\ ~deinit
       /\ Prestop("test", "wait")
       /\ UNCHANGED <<disk, template, running, tmp, pod>>

\* "Waiting on pods to stop...".
WaitForPods ==
    /\ agent = "none"
    /\ Prestop("wait", "clear")
    /\ UNCHANGED <<disk, template, running, tmp, pod>>

ClearMarkers ==
    /\ Prestop("clear", "mark")
    /\ bootstrap' = "missing" /\ initDone' = FALSE
    /\ UNCHANGED <<disk, template, running, deinit, pod>>

MarkDeinit ==
    /\ Prestop("mark", "fix")
    /\ deinit' = TRUE
    /\ UNCHANGED <<disk, template, running, bootstrap, initDone, pod>>

RevertTemplate ==
    /\ Prestop("fix", "mv")
    /\ template' = TRUE
    /\ UNCHANGED <<disk, running, tmp, pod>>

RevertKubelet ==
    /\ Prestop("mv", "restart")
    /\ kubelet' = IF theKubelet THEN "real" ELSE kubelet
    /\ theKubelet' = FALSE
    /\ UNCHANGED <<template, running, tmp, pod>>

RestartAgain ==
    /\ Prestop("restart", "again")
    /\ running' = Launched
    /\ UNCHANGED <<disk, template, tmp, pod>>

RunHookAgain ==
    /\ running \in {"real", "handed"}
    /\ Prestop("again", "test")
    /\ UNCHANGED <<disk, template, running, tmp, pod>>

PrestopStep ==
    \/ TestMarker \/ WaitForPods \/ ClearMarkers \/ MarkDeinit
    \/ RevertTemplate \/ RevertKubelet \/ RestartAgain \/ RunHookAgain

-----------------------------------------------------------------------------
(***************************************************************************)
(* The agent.  It brings a CNI configuration of its own.                   *)
(***************************************************************************)
StartAgent ==
    /\ wanted /\ agent = "none" /\ CanStart
    /\ agent' = "waiting"
    /\ UNCHANGED <<disk, etc, services, tmp, pod, spc, ppc, world>>

\* wait-for-node-init: "until test -s".
WaitForNodeInit ==
    /\ agent = "waiting" /\ bootstrap = "written"
    /\ agent' = "running" /\ cni' = cni \cup {"cilium"}
    /\ UNCHANGED <<disk, template, services, tmp, pod, spc, ppc, world>>

StopAgent ==
    /\ ~wanted /\ agent # "none" /\ running \in {"real", "handed"}
    /\ agent' = "none"
    /\ UNCHANGED <<disk, etc, services, tmp, pod, spc, ppc, world>>

-----------------------------------------------------------------------------
\* The release is uninstalled when the node is initialised, and installed again
\* when the old pod is gone.
Install ==
    /\ ~wanted /\ pod = "none" /\ agent = "none" /\ installs < MaxInstalls
    /\ wanted' = TRUE /\ installs' = installs + 1
    /\ UNCHANGED <<disk, etc, services, tmp, pods, reboots>>

Uninstall ==
    /\ wanted /\ pod = "running" /\ spc = "idle"
    /\ wanted' = FALSE
    /\ UNCHANGED <<disk, etc, services, tmp, pods, installs, reboots>>

\* "Upon node restarts, GKE's containerd images seem to reset the /etc
\* directory"; /tmp may be emptied or not.
Reboot ==
    /\ reboots < MaxReboots /\ reboots' = reboots + 1
    /\ Torn \/ wanted \/ pod = "none"
    /\ template' = TRUE /\ cni' = {}
    /\ containerd' = FALSE /\ enabled' = TRUE /\ running' = "none"
    /\ \/ bootstrap' = "missing" /\ initDone' = FALSE /\ deinit' = FALSE
       \/ UNCHANGED tmp
    /\ pod' = "none" /\ spc' = "idle" /\ ppc' = "idle" /\ agent' = "none"
    /\ UNCHANGED <<disk, wanted, installs>>

Step ==
    \/ StartKubelet \/ StartContainerd \/ WrapperStep
    \/ StartPod \/ StartupStep \/ TerminatePod \/ PrestopStep
    \/ StartAgent \/ WaitForNodeInit \/ StopAgent

Next == Step \/ Install \/ Uninstall \/ Reboot

\* systemd, the kubelet and the scripts go on.
Spec ==
    /\ Init /\ [][Next]_vars
    /\ WF_vars(StartKubelet) /\ WF_vars(StartContainerd) /\ WF_vars(WrapperStep)
    /\ WF_vars(StartPod) /\ WF_vars(StartupStep)
    /\ WF_vars(TerminatePod) /\ WF_vars(PrestopStep)
    /\ WF_vars(StartAgent) /\ WF_vars(WaitForNodeInit) /\ WF_vars(StopAgent)

-----------------------------------------------------------------------------
\* Wherever a node dies, and however often the scripts are repeated, the real
\* kubelet is in its place or under its other name: it is never lost (a wrapper
\* renamed over it), and never stands in both places.
KubeletKept == theKubelet <=> kubelet # "real"

\* "This leaves room for containerd and its CNI to take over pods previously
\* managed by Cilium": once the wrapper has handed over to the real kubelet,
\* containerd runs, and Cilium's CNI configuration is the only one.
NoForeignCni == running = "handed" => containerd /\ cni = {"cilium"}

\* On a node where the release stays installed the agent gets to run, under the
\* kubelet that the wrapper hands over to.  The only node of which this is not
\* true is one that died between "mv" and "tee": nobody fills its wrapper, since
\* the next start of the script finds the-kubelet.
AgentReady ==
    <>[]wanted => \/ <>[](agent = "running" /\ running = "handed")
                  \/ <>[](theKubelet /\ kubelet \in {"absent", "empty"})

\* On a node where the release stays uninstalled, prestop.bash comes to an end,
\* and the real kubelet is back in its place.
DeinitReverts ==
    <>[](~wanted) => <>[](pod = "none" /\ kubelet = "real" /\ running = "real")

=============================================================================
