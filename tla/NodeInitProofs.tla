--------------------------- MODULE NodeInitProofs ---------------------------
(***************************************************************************)
(* Safety of NodeInit for any number of reboots and installations, also    *)
(* for nodes that die while the kubelet is replaced.  The invariant says   *)
(* what each stage of the wrapper can rely on, and that the two scripts    *)
(* restart the kubelet only when no wrapper is at work; a second one says  *)
(* where the real kubelet is.                                              *)
(***************************************************************************)
EXTENDS NodeInit, TLAPS

\* The wrapper has stopped containerd.
Stopped == {"remove", "fix", "write", "start"}
KubeletUp == {"real", "handed"}

WrapperInv ==
    /\ ~template => "gke" \notin cni
    /\ ~template => containerd \/ running \in Stopped
    /\ running \in Stopped => ~containerd /\ ~enabled
    /\ running \in {"fix", "write", "start"} => "gke" \notin cni
    /\ running \in {"write", "start"} => ~template
    /\ running = "start" => "cilium" \in cni
    /\ running \in {"exec", "handed"} => containerd /\ cni = {"cilium"}

ScriptInv ==
    /\ spc \in {"test", "mv", "touch", "tee", "restart"} => running \in KubeletUp
    /\ ppc \in {"test", "wait", "clear", "mark", "fix", "mv", "restart"} =>
          running \in KubeletUp
    /\ spc # "idle" => wanted
    /\ ppc # "idle" => ~wanted /\ pod = "terminating"

IInv == TypeOK /\ WrapperInv /\ ScriptInv

Booleans ==
    /\ theKubelet \in BOOLEAN /\ template \in BOOLEAN
    /\ containerd \in BOOLEAN /\ enabled \in BOOLEAN
    /\ initDone \in BOOLEAN /\ deinit \in BOOLEAN /\ wanted \in BOOLEAN

LEMMA InitInv == Init => IInv
<1> SUFFICES ASSUME Init PROVE IInv
  OBVIOUS
<1>1. TypeOK
  <2>1. installs \in 0 .. MaxInstalls /\ reboots \in 0 .. MaxReboots
    BY NodeAssumption DEF Init
  <2> QED
    BY <2>1 DEF Init, TypeOK
<1>2. WrapperInv
  BY DEF Init, WrapperInv, Stopped
<1>3. ScriptInv
  BY DEF Init, ScriptInv
<1> QED
  BY <1>1, <1>2, <1>3 DEF IInv

LEMMA LaunchedType == Launched \in {"real", "check", "none"}
BY DEF Launched

-----------------------------------------------------------------------------
\* systemd and the wrapper, which change neither the scripts nor the pods.
LEMMA SystemInv ==
    ASSUME IInv, StartKubelet \/ StartContainerd \/ WrapperStep
    PROVE  IInv'
<1>1. CASE StartKubelet
  <2>1. TypeOK'
    BY <1>1, LaunchedType
       DEF StartKubelet, disk, etc, tmp, pods, world, IInv, TypeOK
  <2>2. WrapperInv'
    BY <1>1, LaunchedType
       DEF StartKubelet, disk, etc, tmp, pods, world, IInv, TypeOK, WrapperInv,
           ScriptInv, Stopped, KubeletUp
  <2>3. ScriptInv'
    BY <1>1, LaunchedType
       DEF StartKubelet, disk, etc, tmp, pods, world, IInv, TypeOK, ScriptInv,
           KubeletUp
  <2> QED
    BY <2>1, <2>2, <2>3 DEF IInv
<1>2. CASE StartContainerd
  <2>1. TypeOK'
    <3>1. Booleans'
      BY <1>2, Zenon
         DEF StartContainerd, ContainerdUp, disk, tmp, pods, world, IInv, TypeOK,
             Booleans
    <3> QED
      BY <1>2, <3>1
         DEF StartContainerd, ContainerdUp, disk, tmp, pods, world, IInv, TypeOK,
             Booleans
  <2>2. WrapperInv'
    BY <1>2
       DEF StartContainerd, ContainerdUp, disk, tmp, pods, world, IInv, TypeOK,
           WrapperInv, ScriptInv, Stopped, KubeletUp
  <2>3. ScriptInv'
    BY <1>2
       DEF StartContainerd, ContainerdUp, disk, tmp, pods, world, IInv, TypeOK,
           ScriptInv, KubeletUp
  <2> QED
    BY <2>1, <2>2, <2>3 DEF IInv
<1>3. CASE CheckConfiguration
  <2>1. TypeOK'
    BY <1>3
       DEF CheckConfiguration, Wrapper, disk, etc, tmp, pods, world, IInv, TypeOK
  <2>2. WrapperInv'
    BY <1>3
       DEF CheckConfiguration, Wrapper, disk, etc, tmp, pods, world, IInv, TypeOK,
           WrapperInv, ScriptInv, Stopped, KubeletUp
  <2>3. ScriptInv'
    BY <1>3
       DEF CheckConfiguration, Wrapper, disk, etc, tmp, pods, world, IInv, TypeOK,
           ScriptInv, KubeletUp
  <2> QED
    BY <2>1, <2>2, <2>3 DEF IInv
<1>4. CASE StopContainerd
  <2>1. TypeOK'
    <3>1. Booleans'
      BY <1>4, Zenon
         DEF StopContainerd, Wrapper, disk, etc, tmp, pods, world, IInv, TypeOK,
             Booleans
    <3> QED
      BY <1>4, <3>1
         DEF StopContainerd, Wrapper, disk, etc, tmp, pods, world, IInv, TypeOK,
             Booleans
  <2>2. WrapperInv'
    BY <1>4
       DEF StopContainerd, Wrapper, disk, etc, tmp, pods, world, IInv, TypeOK,
           WrapperInv, ScriptInv, Stopped, KubeletUp
  <2>3. ScriptInv'
    BY <1>4
       DEF StopContainerd, Wrapper, disk, etc, tmp, pods, world, IInv, TypeOK,
           ScriptInv, KubeletUp
  <2> QED
    BY <2>1, <2>2, <2>3 DEF IInv
<1>5. CASE RemoveOthers
  <2>1. TypeOK'
    BY <1>5 DEF RemoveOthers, Wrapper, disk, etc, tmp, pods, world, IInv, TypeOK
  <2>2. WrapperInv'
    BY <1>5
       DEF RemoveOthers, Wrapper, disk, etc, tmp, pods, world, IInv, TypeOK,
           WrapperInv, ScriptInv, Stopped, KubeletUp
  <2>3. ScriptInv'
    BY <1>5
       DEF RemoveOthers, Wrapper, disk, etc, tmp, pods, world, IInv, TypeOK,
           ScriptInv, KubeletUp
  <2> QED
    BY <2>1, <2>2, <2>3 DEF IInv
<1>6. CASE FixTemplate
  <2>1. TypeOK'
    <3>1. Booleans'
      BY <1>6, Zenon
         DEF FixTemplate, Wrapper, disk, etc, tmp, pods, world, IInv, TypeOK,
             Booleans
    <3> QED
      BY <1>6, <3>1
         DEF FixTemplate, Wrapper, disk, etc, tmp, pods, world, IInv, TypeOK,
             Booleans
  <2>2. WrapperInv'
    BY <1>6
       DEF FixTemplate, Wrapper, disk, etc, tmp, pods, world, IInv, TypeOK,
           WrapperInv, ScriptInv, Stopped, KubeletUp
  <2>3. ScriptInv'
    BY <1>6
       DEF FixTemplate, Wrapper, disk, etc, tmp, pods, world, IInv, TypeOK,
           ScriptInv, KubeletUp
  <2> QED
    BY <2>1, <2>2, <2>3 DEF IInv
<1>7. CASE WriteConfiguration
  <2>1. TypeOK'
    BY <1>7
       DEF WriteConfiguration, Wrapper, disk, etc, tmp, pods, world, IInv, TypeOK
  <2>2. WrapperInv'
    BY <1>7
       DEF WriteConfiguration, Wrapper, disk, etc, tmp, pods, world, IInv, TypeOK,
           WrapperInv, ScriptInv, Stopped, KubeletUp
  <2>3. ScriptInv'
    BY <1>7
       DEF WriteConfiguration, Wrapper, disk, etc, tmp, pods, world, IInv, TypeOK,
           ScriptInv, KubeletUp
  <2> QED
    BY <2>1, <2>2, <2>3 DEF IInv
<1>8. CASE EnableContainerd
  <2>1. TypeOK'
    <3>1. Booleans'
      BY <1>8, Zenon
         DEF EnableContainerd, Wrapper, ContainerdUp, disk, etc, tmp, pods, world,
             IInv, TypeOK, Booleans
    <3> QED
      BY <1>8, <3>1
         DEF EnableContainerd, Wrapper, ContainerdUp, disk, etc, tmp, pods, world,
             IInv, TypeOK, Booleans
  <2>2. WrapperInv'
    BY <1>8
       DEF EnableContainerd, Wrapper, ContainerdUp, disk, etc, tmp, pods, world,
           IInv, TypeOK, WrapperInv, ScriptInv, Stopped, KubeletUp
  <2>3. ScriptInv'
    BY <1>8
       DEF EnableContainerd, Wrapper, ContainerdUp, disk, etc, tmp, pods, world,
           IInv, TypeOK, ScriptInv, KubeletUp
  <2> QED
    BY <2>1, <2>2, <2>3 DEF IInv
<1>9. CASE BecomeKubelet
  <2>1. TypeOK'
    BY <1>9 DEF BecomeKubelet, Wrapper, disk, etc, tmp, pods, world, IInv, TypeOK
  <2>2. WrapperInv'
    BY <1>9
       DEF BecomeKubelet, Wrapper, disk, etc, tmp, pods, world, IInv, TypeOK,
           WrapperInv, ScriptInv, Stopped, KubeletUp
  <2>3. ScriptInv'
    BY <1>9
       DEF BecomeKubelet, Wrapper, disk, etc, tmp, pods, world, IInv, TypeOK,
           ScriptInv, KubeletUp
  <2> QED
    BY <2>1, <2>2, <2>3 DEF IInv
<1> QED
  BY <1>1, <1>2, <1>3, <1>4, <1>5, <1>6, <1>7, <1>8, <1>9 DEF WrapperStep

-----------------------------------------------------------------------------
\* The startup script.
LEMMA StartupInv ==
    ASSUME IInv, StartPod \/ StartupStep
    PROVE  IInv'
<1>1. CASE StartPod
  <2>1. TypeOK'
    BY <1>1 DEF StartPod, CanStart, disk, etc, services, tmp, world, IInv, TypeOK
  <2>2. WrapperInv'
    BY <1>1
       DEF StartPod, CanStart, disk, etc, services, tmp, world, IInv, TypeOK,
           WrapperInv, ScriptInv, Stopped, KubeletUp
  <2>3. ScriptInv'
    BY <1>1
       DEF StartPod, CanStart, disk, etc, services, tmp, world, IInv, TypeOK,
           ScriptInv, KubeletUp
  <2> QED
    BY <2>1, <2>2, <2>3 DEF IInv
<1>2. CASE TestWrapper
  <2>1. TypeOK'
    BY <1>2 DEF TestWrapper, Startup, disk, etc, tmp, world, IInv, TypeOK
  <2>2. WrapperInv'
    BY <1>2
       DEF TestWrapper, Startup, disk, etc, tmp, world, IInv, TypeOK, WrapperInv,
           ScriptInv, Stopped, KubeletUp
  <2>3. ScriptInv'
    BY <1>2
       DEF TestWrapper, Startup, disk, etc, tmp, world, IInv, TypeOK, ScriptInv,
           KubeletUp
  <2> QED
    BY <2>1, <2>2, <2>3 DEF IInv
<1>3. CASE RenameKubelet
  <2>1. TypeOK'
    <3>1. Booleans'
      BY <1>3, Zenon
         DEF RenameKubelet, Startup, etc, tmp, world, IInv, TypeOK, Booleans
    <3> QED
      BY <1>3, <3>1
         DEF RenameKubelet, Startup, etc, tmp, world, IInv, TypeOK, Booleans
  <2>2. WrapperInv'
    BY <1>3
       DEF RenameKubelet, Startup, disk, etc, tmp, world, IInv, TypeOK, WrapperInv,
           ScriptInv, Stopped, KubeletUp
  <2>3. ScriptInv'
    BY <1>3
       DEF RenameKubelet, Startup, disk, etc, tmp, world, IInv, TypeOK, ScriptInv,
           KubeletUp
  <2> QED
    BY <2>1, <2>2, <2>3 DEF IInv
<1>4. CASE TouchWrapper
  <2>1. TypeOK'
    BY <1>4 DEF TouchWrapper, Startup, disk, etc, tmp, world, IInv, TypeOK
  <2>2. WrapperInv'
    BY <1>4
       DEF TouchWrapper, Startup, disk, etc, tmp, world, IInv, TypeOK, WrapperInv,
           ScriptInv, Stopped, KubeletUp
  <2>3. ScriptInv'
    BY <1>4
       DEF TouchWrapper, Startup, disk, etc, tmp, world, IInv, TypeOK, ScriptInv,
           KubeletUp
  <2> QED
    BY <2>1, <2>2, <2>3 DEF IInv
<1>5. CASE PopulateWrapper
  <2>1. TypeOK'
    BY <1>5 DEF PopulateWrapper, Startup, disk, etc, tmp, world, IInv, TypeOK
  <2>2. WrapperInv'
    BY <1>5
       DEF PopulateWrapper, Startup, disk, etc, tmp, world, IInv, TypeOK,
           WrapperInv, ScriptInv, Stopped, KubeletUp
  <2>3. ScriptInv'
    BY <1>5
       DEF PopulateWrapper, Startup, disk, etc, tmp, world, IInv, TypeOK, ScriptInv,
           KubeletUp
  <2> QED
    BY <2>1, <2>2, <2>3 DEF IInv
<1>6. CASE RestartKubelet
  <2>1. TypeOK'
    BY <1>6, LaunchedType
       DEF RestartKubelet, Startup, disk, etc, tmp, world, IInv, TypeOK
  <2>2. WrapperInv'
    BY <1>6, LaunchedType
       DEF RestartKubelet, Startup, disk, etc, tmp, world, IInv, TypeOK, WrapperInv,
           ScriptInv, Stopped, KubeletUp
  <2>3. ScriptInv'
    BY <1>6, LaunchedType
       DEF RestartKubelet, Startup, disk, etc, tmp, world, IInv, TypeOK, ScriptInv,
           KubeletUp
  <2> QED
    BY <2>1, <2>2, <2>3 DEF IInv
<1>7. CASE CreateBootstrap
  <2>1. TypeOK'
    BY <1>7 DEF CreateBootstrap, Startup, disk, etc, tmp, world, IInv, TypeOK
  <2>2. WrapperInv'
    BY <1>7
       DEF CreateBootstrap, Startup, disk, etc, tmp, world, IInv, TypeOK,
           WrapperInv, ScriptInv, Stopped, KubeletUp
  <2>3. ScriptInv'
    BY <1>7
       DEF CreateBootstrap, Startup, disk, etc, tmp, world, IInv, TypeOK, ScriptInv,
           KubeletUp
  <2> QED
    BY <2>1, <2>2, <2>3 DEF IInv
<1>8. CASE WriteBootstrap
  <2>1. TypeOK'
    BY <1>8 DEF WriteBootstrap, Startup, disk, etc, tmp, world, IInv, TypeOK
  <2>2. WrapperInv'
    BY <1>8
       DEF WriteBootstrap, Startup, disk, etc, tmp, world, IInv, TypeOK, WrapperInv,
           ScriptInv, Stopped, KubeletUp
  <2>3. ScriptInv'
    BY <1>8
       DEF WriteBootstrap, Startup, disk, etc, tmp, world, IInv, TypeOK, ScriptInv,
           KubeletUp
  <2> QED
    BY <2>1, <2>2, <2>3 DEF IInv
<1>9. CASE FinishStartup
  <2>1. TypeOK'
    <3>1. Booleans'
      BY <1>9, Zenon
         DEF FinishStartup, Startup, disk, etc, tmp, world, IInv, TypeOK, Booleans
    <3> QED
      BY <1>9, <3>1
         DEF FinishStartup, Startup, disk, etc, tmp, world, IInv, TypeOK, Booleans
  <2>2. WrapperInv'
    BY <1>9
       DEF FinishStartup, Startup, disk, etc, tmp, world, IInv, TypeOK, WrapperInv,
           ScriptInv, Stopped, KubeletUp
  <2>3. ScriptInv'
    BY <1>9
       DEF FinishStartup, Startup, disk, etc, tmp, world, IInv, TypeOK, ScriptInv,
           KubeletUp
  <2> QED
    BY <2>1, <2>2, <2>3 DEF IInv
<1>10. CASE RememberStartup
  <2>1. TypeOK'
    <3>1. Booleans'
      BY <1>10, Zenon
         DEF RememberStartup, Startup, disk, etc, tmp, world, IInv, TypeOK, Booleans
    <3> QED
      BY <1>10, <3>1
         DEF RememberStartup, Startup, disk, etc, tmp, world, IInv, TypeOK, Booleans
  <2>2. WrapperInv'
    BY <1>10
       DEF RememberStartup, Startup, disk, etc, tmp, world, IInv, TypeOK, WrapperInv,
           ScriptInv, Stopped, KubeletUp
  <2>3. ScriptInv'
    BY <1>10
       DEF RememberStartup, Startup, disk, etc, tmp, world, IInv, TypeOK, ScriptInv,
           KubeletUp
  <2> QED
    BY <2>1, <2>2, <2>3 DEF IInv
<1> QED
  BY <1>1, <1>2, <1>3, <1>4, <1>5, <1>6, <1>7, <1>8, <1>9, <1>10
     DEF StartupStep

\* The prestop script.
LEMMA PrestopInv ==
    ASSUME IInv, TerminatePod \/ PrestopStep
    PROVE  IInv'
<1>1. CASE TerminatePod
  <2>1. TypeOK'
    BY <1>1 DEF TerminatePod, disk, etc, services, tmp, world, IInv, TypeOK
  <2>2. WrapperInv'
    BY <1>1
       DEF TerminatePod, disk, etc, services, tmp, world, IInv, TypeOK, WrapperInv,
           ScriptInv, Stopped, KubeletUp
  <2>3. ScriptInv'
    BY <1>1
       DEF TerminatePod, disk, etc, services, tmp, world, IInv, TypeOK, ScriptInv,
           KubeletUp
  <2> QED
    BY <2>1, <2>2, <2>3 DEF IInv
<1>2. CASE TestMarker
  <2>1. /\ ppc' \in {"idle", "wait"} /\ pod' \in {pod, "none"}
        /\ ppc' = "wait" => pod' = pod
        /\ UNCHANGED <<disk, etc, services, tmp, spc, agent, world>>
    BY <1>2, Zenon DEF TestMarker, Prestop, etc, services
  <2>2. TypeOK'
    BY <2>1 DEF disk, etc, services, tmp, world, IInv, TypeOK
  <2>3. WrapperInv'
    BY <2>1 DEF etc, services, IInv, WrapperInv
  <2>4. ScriptInv'
    BY <1>2, <2>1 DEF TestMarker, Prestop, services, world, IInv, ScriptInv
  <2> QED
    BY <2>2, <2>3, <2>4 DEF IInv
<1>3. CASE WaitForPods
  <2>1. TypeOK'
    BY <1>3 DEF WaitForPods, Prestop, disk, tmp, world, IInv, TypeOK
  <2>2. WrapperInv'
    BY <1>3
       DEF WaitForPods, Prestop, disk, tmp, world, IInv, TypeOK, WrapperInv,
           ScriptInv, Stopped, KubeletUp
  <2>3. ScriptInv'
    BY <1>3
       DEF WaitForPods, Prestop, disk, tmp, world, IInv, TypeOK, ScriptInv,
           KubeletUp
  <2> QED
    BY <2>1, <2>2, <2>3 DEF IInv
<1>4. CASE ClearMarkers
  <2>1. TypeOK'
    <3>1. Booleans'
      BY <1>4, Zenon
         DEF ClearMarkers, Prestop, disk, tmp, world, IInv, TypeOK, Booleans
    <3> QED
      BY <1>4, <3>1
         DEF ClearMarkers, Prestop, disk, tmp, world, IInv, TypeOK, Booleans
  <2>2. WrapperInv'
    BY <1>4
       DEF ClearMarkers, Prestop, disk, tmp, world, IInv, TypeOK, WrapperInv,
           ScriptInv, Stopped, KubeletUp
  <2>3. ScriptInv'
    BY <1>4
       DEF ClearMarkers, Prestop, disk, tmp, world, IInv, TypeOK, ScriptInv,
           KubeletUp
  <2> QED
    BY <2>1, <2>2, <2>3 DEF IInv
<1>5. CASE MarkDeinit
  <2>1. TypeOK'
    <3>1. Booleans'
      BY <1>5, Zenon
         DEF MarkDeinit, Prestop, disk, tmp, world, IInv, TypeOK, Booleans
    <3> QED
      BY <1>5, <3>1
         DEF MarkDeinit, Prestop, disk, tmp, world, IInv, TypeOK, Booleans
  <2>2. WrapperInv'
    BY <1>5
       DEF MarkDeinit, Prestop, disk, tmp, world, IInv, TypeOK, WrapperInv,
           ScriptInv, Stopped, KubeletUp
  <2>3. ScriptInv'
    BY <1>5
       DEF MarkDeinit, Prestop, disk, tmp, world, IInv, TypeOK, ScriptInv, KubeletUp
  <2> QED
    BY <2>1, <2>2, <2>3 DEF IInv
<1>6. CASE RevertTemplate
  <2>1. TypeOK'
    <3>1. Booleans'
      BY <1>6, Zenon
         DEF RevertTemplate, Prestop, disk, tmp, world, IInv, TypeOK, Booleans
    <3> QED
      BY <1>6, <3>1
         DEF RevertTemplate, Prestop, disk, tmp, world, IInv, TypeOK, Booleans
  <2>2. WrapperInv'
    BY <1>6
       DEF RevertTemplate, Prestop, disk, tmp, world, IInv, TypeOK, WrapperInv,
           ScriptInv, Stopped, KubeletUp
  <2>3. ScriptInv'
    BY <1>6
       DEF RevertTemplate, Prestop, disk, tmp, world, IInv, TypeOK, ScriptInv,
           KubeletUp
  <2> QED
    BY <2>1, <2>2, <2>3 DEF IInv
<1>7. CASE RevertKubelet
  <2>1. TypeOK'
    <3>1. Booleans'
      BY <1>7, Zenon
         DEF RevertKubelet, Prestop, disk, tmp, world, IInv, TypeOK, Booleans
    <3> QED
      BY <1>7, <3>1
         DEF RevertKubelet, Prestop, disk, tmp, world, IInv, TypeOK, Booleans
  <2>2. WrapperInv'
    BY <1>7
       DEF RevertKubelet, Prestop, disk, tmp, world, IInv, TypeOK, WrapperInv,
           ScriptInv, Stopped, KubeletUp
  <2>3. ScriptInv'
    BY <1>7
       DEF RevertKubelet, Prestop, disk, tmp, world, IInv, TypeOK, ScriptInv,
           KubeletUp
  <2> QED
    BY <2>1, <2>2, <2>3 DEF IInv
<1>8. CASE RestartAgain
  <2>1. TypeOK'
    BY <1>8, LaunchedType DEF RestartAgain, Prestop, disk, tmp, world, IInv, TypeOK
  <2>2. WrapperInv'
    BY <1>8, LaunchedType
       DEF RestartAgain, Prestop, disk, tmp, world, IInv, TypeOK, WrapperInv,
           ScriptInv, Stopped, KubeletUp
  <2>3. ScriptInv'
    BY <1>8, LaunchedType
       DEF RestartAgain, Prestop, disk, tmp, world, IInv, TypeOK, ScriptInv,
           KubeletUp
  <2> QED
    BY <2>1, <2>2, <2>3 DEF IInv
<1>9. CASE RunHookAgain
  <2>1. TypeOK'
    BY <1>9 DEF RunHookAgain, Prestop, disk, tmp, world, IInv, TypeOK
  <2>2. WrapperInv'
    BY <1>9
       DEF RunHookAgain, Prestop, disk, tmp, world, IInv, TypeOK, WrapperInv,
           ScriptInv, Stopped, KubeletUp
  <2>3. ScriptInv'
    BY <1>9
       DEF RunHookAgain, Prestop, disk, tmp, world, IInv, TypeOK, ScriptInv,
           KubeletUp
  <2> QED
    BY <2>1, <2>2, <2>3 DEF IInv
<1> QED
  BY <1>1, <1>2, <1>3, <1>4, <1>5, <1>6, <1>7, <1>8, <1>9 DEF PrestopStep

\* The agent, the operator and the machine.
LEMMA OthersInv ==
    ASSUME IInv, \/ StartAgent \/ WaitForNodeInit \/ StopAgent
                 \/ Install \/ Uninstall \/ Reboot
    PROVE  IInv'
<1>1. CASE StartAgent
  <2>1. TypeOK'
    <3>1. Booleans'
      BY <1>1, Zenon
         DEF StartAgent, disk, etc, services, tmp, world, IInv, TypeOK, Booleans
    <3> QED
      BY <1>1, <3>1
         DEF StartAgent, disk, etc, services, tmp, world, IInv, TypeOK, Booleans
  <2>2. WrapperInv'
    BY <1>1
       DEF StartAgent, disk, etc, services, tmp, world, IInv, TypeOK, WrapperInv,
           ScriptInv, Stopped, KubeletUp
  <2>3. ScriptInv'
    BY <1>1
       DEF StartAgent, disk, etc, services, tmp, world, IInv, TypeOK, ScriptInv,
           KubeletUp
  <2> QED
    BY <2>1, <2>2, <2>3 DEF IInv
<1>2. CASE WaitForNodeInit
  <2>1. TypeOK'
    <3>1. Booleans'
      BY <1>2, Zenon
         DEF WaitForNodeInit, disk, services, tmp, world, IInv, TypeOK, Booleans
    <3> QED
      BY <1>2, <3>1
         DEF WaitForNodeInit, disk, services, tmp, world, IInv, TypeOK, Booleans
  <2>2. WrapperInv'
    BY <1>2
       DEF WaitForNodeInit, disk, services, tmp, world, IInv, TypeOK, WrapperInv,
           ScriptInv, Stopped, KubeletUp
  <2>3. ScriptInv'
    BY <1>2
       DEF WaitForNodeInit, disk, services, tmp, world, IInv, TypeOK, ScriptInv,
           KubeletUp
  <2> QED
    BY <2>1, <2>2, <2>3 DEF IInv
<1>3. CASE StopAgent
  <2>1. TypeOK'
    <3>1. Booleans'
      BY <1>3, Zenon
         DEF StopAgent, disk, etc, services, tmp, world, IInv, TypeOK, Booleans
    <3> QED
      BY <1>3, <3>1
         DEF StopAgent, disk, etc, services, tmp, world, IInv, TypeOK, Booleans
  <2>2. WrapperInv'
    BY <1>3
       DEF StopAgent, disk, etc, services, tmp, world, IInv, TypeOK, WrapperInv,
           ScriptInv, Stopped, KubeletUp
  <2>3. ScriptInv'
    BY <1>3
       DEF StopAgent, disk, etc, services, tmp, world, IInv, TypeOK, ScriptInv,
           KubeletUp
  <2> QED
    BY <2>1, <2>2, <2>3 DEF IInv
<1>4. CASE Install
  <2>1. TypeOK'
    <3>1. Booleans'
      BY <1>4, Zenon
         DEF Install, disk, etc, services, tmp, pods, IInv, TypeOK, Booleans
    <3> QED
      BY <1>4, <3>1, NodeAssumption
         DEF Install, disk, etc, services, tmp, pods, IInv, TypeOK, Booleans
  <2>2. WrapperInv'
    BY <1>4
       DEF Install, disk, etc, services, tmp, pods, IInv, TypeOK, WrapperInv,
           ScriptInv, Stopped, KubeletUp
  <2>3. ScriptInv'
    BY <1>4
       DEF Install, disk, etc, services, tmp, pods, IInv, TypeOK, ScriptInv,
           KubeletUp
  <2> QED
    BY <2>1, <2>2, <2>3 DEF IInv
<1>5. CASE Uninstall
  <2>1. TypeOK'
    <3>1. Booleans'
      BY <1>5, Zenon
         DEF Uninstall, disk, etc, services, tmp, pods, IInv, TypeOK, Booleans
    <3> QED
      BY <1>5, <3>1, NodeAssumption
         DEF Uninstall, disk, etc, services, tmp, pods, IInv, TypeOK, Booleans
  <2>2. WrapperInv'
    BY <1>5
       DEF Uninstall, disk, etc, services, tmp, pods, IInv, TypeOK, WrapperInv,
           ScriptInv, Stopped, KubeletUp
  <2>3. ScriptInv'
    BY <1>5
       DEF Uninstall, disk, etc, services, tmp, pods, IInv, TypeOK, ScriptInv,
           KubeletUp
  <2> QED
    BY <2>1, <2>2, <2>3 DEF IInv
<1>6. CASE Reboot
  <2>1. TypeOK'
    <3>1. Booleans'
      BY <1>6, Zenon DEF Reboot, disk, tmp, IInv, TypeOK, Booleans
    <3> QED
      BY <1>6, <3>1, NodeAssumption DEF Reboot, disk, tmp, IInv, TypeOK, Booleans
  <2>2. WrapperInv'
    BY <1>6
       DEF Reboot, disk, tmp, IInv, TypeOK, WrapperInv, ScriptInv, Stopped,
           KubeletUp
  <2>3. ScriptInv'
    BY <1>6 DEF Reboot, disk, tmp, IInv, TypeOK, ScriptInv, KubeletUp
  <2> QED
    BY <2>1, <2>2, <2>3 DEF IInv
<1> QED
  BY <1>1, <1>2, <1>3, <1>4, <1>5, <1>6

LEMMA NextInv == IInv /\ [Next]_vars => IInv'
<1> SUFFICES ASSUME IInv, [Next]_vars PROVE IInv'
  OBVIOUS
<1>1. CASE Next
  BY <1>1, SystemInv, StartupInv, PrestopInv, OthersInv DEF Next, Step
<1>2. CASE UNCHANGED vars
  BY <1>2 DEF vars, disk, etc, services, tmp, pods, world, IInv, TypeOK, WrapperInv,
       ScriptInv
<1> QED
  BY <1>1, <1>2

THEOREM InvariantHolds == Spec => []IInv
BY InitInv, NextInv, PTL DEF Spec

-----------------------------------------------------------------------------
(***************************************************************************)
(* The real kubelet.  startup.bash renames it only after it has not found  *)
(* the-kubelet, and nobody else renames anything before it does: the two   *)
(* scripts never run together.                                             *)
(***************************************************************************)
KubeletInv ==
    /\ KubeletKept
    /\ spc = "mv" => ~theKubelet
    /\ spc \in {"touch", "tee"} => theKubelet

LEMMA KubeletSteps ==
    ASSUME IInv, KubeletInv, [Next]_vars
    PROVE  KubeletInv'
<1>1. CASE UNCHANGED <<disk, spc>>
  BY <1>1 DEF KubeletInv, KubeletKept, disk
<1>2. CASE UNCHANGED disk /\ spc' \in {"idle", "test", "restart"}
  BY <1>2 DEF KubeletInv, KubeletKept, disk
<1>3. CASE WrapperStep \/ StartKubelet \/ StartContainerd
  <2>1. UNCHANGED <<disk, spc>>
    BY <1>3 DEF WrapperStep, CheckConfiguration, StopContainerd, RemoveOthers,
         FixTemplate, WriteConfiguration, EnableContainerd, BecomeKubelet, Wrapper,
         StartKubelet, StartContainerd, pods
  <2> QED
    BY <1>1, <2>1
<1>4. CASE StartupStep
  <2>1. CASE TestWrapper
    BY <2>1 DEF TestWrapper, Startup, KubeletInv, KubeletKept, disk
  <2>2. CASE RenameKubelet
    <3>1. kubelet = "real" /\ spc' = "touch" /\ kubelet' = "absent"
          /\ theKubelet' = (kubelet = "real")
      BY <2>2, Zenon DEF RenameKubelet, Startup, KubeletInv, KubeletKept
    <3> QED
      BY <3>1 DEF KubeletInv, KubeletKept
  <2>3. CASE TouchWrapper
    BY <2>3 DEF TouchWrapper, Startup, KubeletInv, KubeletKept
  <2>4. CASE PopulateWrapper
    BY <2>4 DEF PopulateWrapper, Startup, KubeletInv, KubeletKept
  <2>5. CASE \/ RestartKubelet \/ CreateBootstrap \/ WriteBootstrap
             \/ FinishStartup \/ RememberStartup
    <3>1. UNCHANGED disk /\ spc' \in {"create", "date", "rm", "done", "idle"}
      BY <2>5 DEF RestartKubelet, CreateBootstrap, WriteBootstrap, FinishStartup,
           RememberStartup, Startup
    <3> QED
      BY <3>1 DEF KubeletInv, KubeletKept, disk
  <2> QED
    BY <1>4, <2>1, <2>2, <2>3, <2>4, <2>5 DEF StartupStep
<1>5. CASE PrestopStep
  <2>1. spc = "idle" /\ spc' = "idle"
    <3>1. ppc # "idle" /\ spc' = spc
      BY <1>5 DEF PrestopStep, TestMarker, WaitForPods, ClearMarkers, MarkDeinit,
           RevertTemplate, RevertKubelet, RestartAgain, RunHookAgain, Prestop
    <3> QED
      BY <3>1 DEF IInv, ScriptInv
  <2>2. CASE RevertKubelet
    <3>1. kubelet' = "real" /\ ~theKubelet'
      BY <2>2 DEF RevertKubelet, KubeletInv, KubeletKept
    <3> QED
      BY <2>1, <3>1 DEF KubeletInv, KubeletKept
  <2>3. CASE \/ TestMarker \/ WaitForPods \/ ClearMarkers \/ MarkDeinit
             \/ RevertTemplate \/ RestartAgain \/ RunHookAgain
    <3>1. UNCHANGED disk
      BY <2>3 DEF TestMarker, WaitForPods, ClearMarkers, MarkDeinit, RevertTemplate,
           RestartAgain, RunHookAgain
    <3> QED
      BY <1>2, <2>1, <3>1
  <2> QED
    BY <1>5, <2>2, <2>3 DEF PrestopStep
<1>6. CASE StartPod \/ Reboot
  <2>1. UNCHANGED disk /\ spc' \in {"idle", "test"}
    BY <1>6 DEF StartPod, Reboot
  <2> QED
    BY <1>2, <2>1
<1>7. CASE TerminatePod \/ StartAgent \/ WaitForNodeInit \/ StopAgent \/ Install
           \/ Uninstall
  <2>1. UNCHANGED <<disk, spc>>
    BY <1>7 DEF TerminatePod, StartAgent, WaitForNodeInit, StopAgent, Install,
         Uninstall, pods
  <2> QED
    BY <1>1, <2>1
<1>8. CASE UNCHANGED vars
  BY <1>1, <1>8 DEF vars, pods
<1> QED
  BY <1>3, <1>4, <1>5, <1>6, <1>7, <1>8 DEF Next, Step

\* The real kubelet survives every death of the node and every repetition of the
\* scripts (startup.bash:44-49, prestop.bash:42).
THEOREM KubeletSurvives == Spec => []KubeletKept
<1>1. Init => KubeletInv
  BY DEF Init, KubeletInv, KubeletKept
<1>2. IInv /\ KubeletInv /\ [Next]_vars => KubeletInv'
  BY KubeletSteps
<1>3. KubeletInv => KubeletKept
  BY DEF KubeletInv
<1> QED
  BY <1>1, <1>2, <1>3, InvariantHolds, PTL DEF Spec

\* Type correctness (NodeInit's variables), for any number of reboots.
THEOREM TypesHold == Spec => []TypeOK
<1>1. IInv => TypeOK
  BY DEF IInv
<1> QED
  BY <1>1, InvariantHolds, PTL

\* No pod is started under GKE's CNI once the wrapper has handed over to the
\* real kubelet (startup.bash:74-109), whatever a node dies in the middle of.
THEOREM PodsStayCilium == Spec => []NoForeignCni
<1>1. IInv => NoForeignCni
  BY DEF IInv, WrapperInv, NoForeignCni
<1> QED
  BY <1>1, InvariantHolds, PTL

=============================================================================
