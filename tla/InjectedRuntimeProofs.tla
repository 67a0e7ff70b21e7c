------------------------ MODULE InjectedRuntimeProofs ------------------------
(***************************************************************************)
(* The safety properties of InjectedRuntime, for any copies of the library *)
(* and any injectors.                                                      *)
(***************************************************************************)
EXTENDS InjectedRuntime, TLAPS

-----------------------------------------------------------------------------
(* The inductive invariant                                                  *)

Up == {"running", "await", "stopping", "shutdown"}

\* The types of the runtimes' variables, and of the injectors': one at work has
\* a library.
ModuleType ==
    /\ refs \in [Dlls -> Nat] /\ thread \in [Dlls -> Steps] /\ file \in [Dlls -> Contents]
    /\ event \in [Dlls -> BOOLEAN] /\ writing \in [Dlls -> BOOLEAN]
    /\ service \in [Dlls -> BOOLEAN]
    /\ leaked \in BOOLEAN /\ signaled \in BOOLEAN /\ stale \in [Dlls -> BOOLEAN]
    /\ failures \in 0..MaxFailures /\ lost \in 0..MaxLost
    /\ caller \in Dlls \cup {None}
ToolType ==
    /\ at \in [Tools -> Places] /\ dll \in [Tools -> Dlls \cup {None}]
    /\ last \in [Tools -> BOOLEAN] /\ calls \in 0..MaxCalls
    /\ \A k \in Tools : at[k] # "idle" => dll[k] \in Dlls

\* The stop event belongs to one context at most.
EventInv ==
    \A d, e \in Dlls : event[d] /\ event[e] => d = e

\* What the status file may hold while the thread is at a step, when it is this
\* process's.
FileAt(step) ==
    CASE step = "none"       -> {"absent", "failed", "uninitialized"}
      [] step = "starting"   -> {"absent", "failed", "uninitialized", ""}
      [] step = "initialize" -> {"absent", "starting"}
      [] step = "failed"     -> {"absent", "starting", ""}
      [] step = "running"    -> {"absent", "starting", ""}
      [] step = "await"      -> {"absent", "running"}
      [] step = "stopping"   -> {"absent", "running", ""}
      [] step = "shutdown"   -> {"absent", "stopping"}
      [] step = "stopped"    -> {"absent", "stopping", ""}
      [] step = "close"      -> {"absent", "uninitialized"}
      [] step = "unload"     -> {"absent", "failed", "uninitialized"}

\* What holds of each module by itself.
PointInv(d) ==
    /\ thread[d] # "none" => refs[d] > 0
    /\ Active(d) => event[d]
    /\ writing[d] => thread[d] \in Reporting
    /\ ~stale[d] => file[d] \in FileAt(thread[d])
    /\ service[d] <=> thread[d] \in Up

\* Only a failed initialization lets a module go with its event open.
LeakInv ==
    failures = 0 =>
        /\ ~leaked
        /\ \A d \in Dlls : thread[d] # "failed" /\ (event[d] => Active(d))

IInv ==
    /\ ModuleType /\ ToolType
    /\ \A d \in Dlls : PointInv(d)
    /\ EventInv /\ LeakInv

-----------------------------------------------------------------------------
(* It holds initially and every step preserves it                           *)

LEMMA BoundsFromZero == 0 \in 0..MaxFailures /\ 0 \in 0..MaxCalls /\ 0 \in 0..MaxLost
BY RuntimeAssumption

LEMMA InitiallyInv == Init => IInv
<1> SUFFICES ASSUME Init PROVE IInv
  OBVIOUS
<1> USE DEF Init
<1>1. ModuleType
  <2>1. refs \in [Dlls -> Nat] /\ thread \in [Dlls -> Steps] /\ file \in [Dlls -> Contents]
    BY RuntimeAssumption DEF Steps
  <2>2. event \in [Dlls -> BOOLEAN] /\ writing \in [Dlls -> BOOLEAN] /\ service \in [Dlls -> BOOLEAN]
    BY Zenon
  <2>4. stale \in [Dlls -> BOOLEAN]
    BY Zenon
  <2>3. /\ failures = 0 /\ leaked \in BOOLEAN /\ signaled \in BOOLEAN
        /\ lost = 0 /\ caller = None
    OBVIOUS
  <2> HIDE DEF Init
  <2> QED BY <2>1, <2>2, <2>3, <2>4, BoundsFromZero DEF ModuleType
<1>2. ToolType
  <2>1. at \in [Tools -> Places] /\ \A k \in Tools : at[k] = "idle"
    BY DEF Places
  <2>2. dll \in [Tools -> Dlls \cup {None}] /\ calls = 0
    OBVIOUS
  <2>3. last \in [Tools -> BOOLEAN]
    BY Zenon
  <2> HIDE DEF Init
  <2> QED BY <2>1, <2>2, <2>3, BoundsFromZero DEF ToolType
<1>3. ASSUME NEW d \in Dlls PROVE PointInv(d)
  BY <1>3 DEF PointInv, Active, FileAt, Up
<1>4. EventInv
  BY DEF EventInv
<1>5. LeakInv
  BY DEF LeakInv, Active
<1> QED BY <1>1, <1>2, <1>3, <1>4, <1>5 DEF IInv

\* What the injectors do among themselves leaves the runtimes as they are.
LEMMA RuntimesUntouched ==
    ASSUME IInv, ToolType', signaled' \in BOOLEAN, caller' \in Dlls \cup {None},
           UNCHANGED <<refs, event, leaked, thread, writing, service, failures, file, stale, lost>>
    PROVE  IInv'
<1>1. ModuleType'
  BY DEF IInv, ModuleType
<1>2. ASSUME NEW d \in Dlls PROVE PointInv(d)'
  BY <1>2 DEF IInv, PointInv, Active
<1>3. EventInv'
  BY DEF IInv, EventInv
<1>4. LeakInv'
  BY DEF IInv, LeakInv, Active
<1> QED BY <1>1, <1>2, <1>3, <1>4 DEF IInv

\* A runtime's step leaves the injectors and the other modules as they are.
LEMMA OthersUntouched ==
    ASSUME IInv, NEW d \in Dlls, ModuleType', PointInv(d)', EventInv', LeakInv', ToolType',
           \A x \in Dlls \ {d} :
               /\ refs'[x] = refs[x] /\ thread'[x] = thread[x] /\ event'[x] = event[x]
               /\ writing'[x] = writing[x] /\ service'[x] = service[x]
               /\ file'[x] = file[x] /\ stale'[x] = stale[x]
    PROVE  IInv'
<1>1. ASSUME NEW x \in Dlls PROVE PointInv(x)'
  <2>1. CASE x = d
    BY <2>1
  <2>2. CASE x # d
    BY <2>2 DEF IInv, PointInv, Active
  <2> QED BY <2>1, <2>2
<1> QED BY <1>1 DEF IInv

\* FileAt, by cases.
LEMMA FileAtStep ==
    /\ "starting" \in FileAt("initialize") /\ "failed" \in FileAt("unload")
    /\ "running" \in FileAt("await") /\ "stopping" \in FileAt("shutdown")
    /\ "uninitialized" \in FileAt("close")
BY DEF FileAt

LEMMA ToolsUntouched == ASSUME ToolType, UNCHANGED tools PROVE ToolType'
BY DEF ToolType, tools

-----------------------------------------------------------------------------
(* The bootstrap thread                                                     *)

LEMMA OpenStatusInv == ASSUME IInv, NEW d \in Dlls, OpenStatus(d) PROVE IInv'
<1> USE DEF OpenStatus, tools
<1>0. ModuleType /\ PointInv(d) /\ EventInv /\ LeakInv
  BY DEF IInv
<1>1. ModuleType'
  BY <1>0 DEF ModuleType, Contents
<1>2. PointInv(d)'
  BY <1>0 DEF ModuleType, PointInv, Active, FileAt, Reporting, Up
<1>3. EventInv'
  BY <1>0 DEF EventInv
<1>4. LeakInv'
  BY <1>0 DEF LeakInv, Active
<1>5. ToolType'
  BY ToolsUntouched DEF IInv
<1>6. \A x \in Dlls \ {d} :
          /\ refs'[x] = refs[x] /\ thread'[x] = thread[x] /\ event'[x] = event[x]
          /\ writing'[x] = writing[x] /\ service'[x] = service[x]
          /\ file'[x] = file[x] /\ stale'[x] = stale[x]
  BY <1>0 DEF ModuleType
<1> QED BY <1>1, <1>2, <1>3, <1>4, <1>5, <1>6, OthersUntouched

LEMMA DropStatusInv == ASSUME IInv, NEW d \in Dlls, DropStatus(d) PROVE IInv'
<1> USE DEF DropStatus, tools
<1>0. ModuleType /\ PointInv(d) /\ EventInv /\ LeakInv
  BY DEF IInv
<1>1. After(thread[d]) \in Steps
  BY DEF Steps, Reporting, After
<1>2. /\ refs'[d] = refs[d] /\ event'[d] = event[d] /\ service'[d] = service[d]
      /\ file'[d] = file[d] /\ writing'[d] = writing[d] /\ ~writing[d]
      /\ thread'[d] = After(thread[d]) /\ stale'[d] = (file[d] # "absent")
  BY <1>0 DEF ModuleType
<1>3. ModuleType'
  <2>1. lost' \in 0..MaxLost
    BY <1>0, RuntimeAssumption DEF ModuleType
  <2>2. thread' \in [Dlls -> Steps] /\ stale' \in [Dlls -> BOOLEAN]
    BY <1>0, <1>1 DEF ModuleType
  <2> QED BY <1>0, <2>1, <2>2 DEF ModuleType
<1>4. PointInv(d)'
  <2>1. After(thread[d]) \in {"initialize", "unload", "await", "shutdown", "close"}
    BY DEF Reporting, After
  <2>2. "absent" \in FileAt(After(thread[d]))
    BY <2>1 DEF FileAt
  <2>3. After(thread[d]) \in Up <=> thread[d] \in Up
    BY DEF Reporting, After, Up
  <2>4. thread[d] # "none" /\ (Active(d)' => Active(d))
    BY <1>2 DEF Active, Reporting, After
  <2> QED BY <1>0, <1>2, <2>2, <2>3, <2>4 DEF PointInv
<1>5. EventInv'
  BY <1>0 DEF EventInv
<1>6. LeakInv'
  <2>1. \A x \in Dlls : thread'[x] # "failed" \/ thread[x] = "failed"
    BY <1>0 DEF ModuleType, Reporting, After
  <2>2. thread[d] = "failed" \/ Active(d)'
    BY <1>0 DEF ModuleType, Active, Reporting, After
  <2>3. ASSUME NEW x \in Dlls, x # d PROVE Active(x)' = Active(x)
    BY <1>0, <2>3 DEF ModuleType, Active
  <2> QED BY <1>0, <2>1, <2>2, <2>3 DEF LeakInv
<1>7. ToolType'
  BY ToolsUntouched DEF IInv
<1>8. \A x \in Dlls \ {d} :
          /\ refs'[x] = refs[x] /\ thread'[x] = thread[x] /\ event'[x] = event[x]
          /\ writing'[x] = writing[x] /\ service'[x] = service[x]
          /\ file'[x] = file[x] /\ stale'[x] = stale[x]
  BY <1>0 DEF ModuleType
<1> QED BY <1>3, <1>4, <1>5, <1>6, <1>7, <1>8, OthersUntouched

LEMMA CloseStatusInv == ASSUME IInv, NEW d \in Dlls, CloseStatus(d) PROVE IInv'
<1> USE DEF CloseStatus, tools
<1>0. ModuleType /\ PointInv(d) /\ EventInv /\ LeakInv
  BY DEF IInv
<1>1. ModuleType'
  BY <1>0 DEF ModuleType, Contents, Steps, Reporting, StatusOf, After
<1>2. PointInv(d)'
  <2>0. refs'[d] = refs[d] /\ event'[d] = event[d] /\ service'[d] = service[d]
    OBVIOUS
  <2>1. CASE thread[d] = "starting"
    <3>1. thread'[d] = "initialize" /\ file'[d] = "starting" /\ ~writing'[d]
      BY <1>0, <2>1 DEF ModuleType, StatusOf, After
    <3> QED BY <1>0, <2>0, <2>1, <3>1, FileAtStep DEF PointInv, Active, Up
  <2>2. CASE thread[d] = "failed"
    <3>1. thread'[d] = "unload" /\ file'[d] = "failed" /\ ~writing'[d]
      BY <1>0, <2>2 DEF ModuleType, StatusOf, After
    <3> QED BY <1>0, <2>0, <2>2, <3>1, FileAtStep DEF PointInv, Active, Up
  <2>3. CASE thread[d] = "running"
    <3>1. thread'[d] = "await" /\ file'[d] = "running" /\ ~writing'[d]
      BY <1>0, <2>3 DEF ModuleType, StatusOf, After
    <3> QED BY <1>0, <2>0, <2>3, <3>1, FileAtStep DEF PointInv, Active, Up
  <2>4. CASE thread[d] = "stopping"
    <3>1. thread'[d] = "shutdown" /\ file'[d] = "stopping" /\ ~writing'[d]
      BY <1>0, <2>4 DEF ModuleType, StatusOf, After
    <3> QED BY <1>0, <2>0, <2>4, <3>1, FileAtStep DEF PointInv, Active, Up
  <2>5. CASE thread[d] = "stopped"
    <3>1. thread'[d] = "close" /\ file'[d] = "uninitialized" /\ ~writing'[d]
      BY <1>0, <2>5 DEF ModuleType, StatusOf, After
    <3> QED BY <1>0, <2>0, <2>5, <3>1, FileAtStep DEF PointInv, Active, Up
  <2> QED BY <2>1, <2>2, <2>3, <2>4, <2>5 DEF Reporting
<1>3. EventInv'
  BY <1>0 DEF EventInv
<1>4. LeakInv'
  <2>1. \A x \in Dlls : thread'[x] # "failed" \/ thread[x] = "failed"
    BY <1>0 DEF ModuleType, Reporting, After
  <2>2. thread[d] = "failed" \/ Active(d)'
    BY <1>0 DEF ModuleType, Active, Reporting, After
  <2>3. ASSUME NEW x \in Dlls, x # d PROVE Active(x)' = Active(x)
    BY <1>0, <2>3 DEF ModuleType, Active
  <2> QED BY <1>0, <2>1, <2>2, <2>3 DEF LeakInv
<1>5. ToolType'
  BY ToolsUntouched DEF IInv
<1>6. \A x \in Dlls \ {d} :
          /\ refs'[x] = refs[x] /\ thread'[x] = thread[x] /\ event'[x] = event[x]
          /\ writing'[x] = writing[x] /\ service'[x] = service[x]
          /\ file'[x] = file[x] /\ stale'[x] = stale[x]
  BY <1>0 DEF ModuleType
<1> QED BY <1>1, <1>2, <1>3, <1>4, <1>5, <1>6, OthersUntouched

LEMMA InitializeInv == ASSUME IInv, NEW d \in Dlls, Initialize(d) PROVE IInv'
<1> USE DEF Initialize, tools, status
<1>0. ModuleType /\ PointInv(d) /\ EventInv /\ LeakInv
  BY DEF IInv
<1>1. ModuleType'
  <2>1. thread' \in [Dlls -> Steps]
    BY <1>0 DEF ModuleType, Steps, Reporting
  <2>2. service' \in [Dlls -> BOOLEAN]
    BY <1>0 DEF ModuleType
  <2>3. failures' \in 0..MaxFailures
    BY <1>0, RuntimeAssumption DEF ModuleType
  <2> QED BY <1>0, <2>1, <2>2, <2>3 DEF ModuleType
<1>2. PointInv(d)'
  BY <1>0 DEF ModuleType, PointInv, Active, FileAt, Reporting, Up
<1>3. EventInv'
  BY <1>0 DEF EventInv
<1>4. LeakInv'
  BY <1>0 DEF LeakInv, Active, ModuleType
<1>5. ToolType'
  BY ToolsUntouched DEF IInv
<1>6. \A x \in Dlls \ {d} :
          /\ refs'[x] = refs[x] /\ thread'[x] = thread[x] /\ event'[x] = event[x]
          /\ writing'[x] = writing[x] /\ service'[x] = service[x]
          /\ file'[x] = file[x] /\ stale'[x] = stale[x]
  BY <1>0 DEF ModuleType
<1> QED BY <1>1, <1>2, <1>3, <1>4, <1>5, <1>6, OthersUntouched

LEMMA StopStepInv == ASSUME IInv, NEW d \in Dlls, AwaitStop(d) \/ ShutDown(d) \/ CloseEvent(d) PROVE IInv'
<1> USE DEF AwaitStop, ShutDown, CloseEvent, tools, status
<1>0. ModuleType /\ PointInv(d) /\ EventInv /\ LeakInv
  BY DEF IInv
<1>1. ModuleType'
  BY <1>0 DEF ModuleType, Steps, Reporting
<1>2. PointInv(d)'
  <2>1. CASE AwaitStop(d)
    BY <1>0, <2>1 DEF ModuleType, PointInv, Active, FileAt, Reporting, Up
  <2>2. CASE ShutDown(d)
    BY <1>0, <2>2 DEF ModuleType, PointInv, Active, FileAt, Reporting, Up
  <2>3. CASE CloseEvent(d)
    BY <1>0, <2>3 DEF ModuleType, PointInv, Active, FileAt, Reporting, Up
  <2> QED BY <2>1, <2>2, <2>3
<1>3. EventInv'
  BY <1>0 DEF EventInv, ModuleType
<1>4. LeakInv'
  BY <1>0 DEF LeakInv, Active, ModuleType
<1>5. ToolType'
  BY ToolsUntouched DEF IInv
<1>6. \A x \in Dlls \ {d} :
          /\ refs'[x] = refs[x] /\ thread'[x] = thread[x] /\ event'[x] = event[x]
          /\ writing'[x] = writing[x] /\ service'[x] = service[x]
          /\ file'[x] = file[x] /\ stale'[x] = stale[x]
  BY <1>0 DEF ModuleType
<1> QED BY <1>1, <1>2, <1>3, <1>4, <1>5, <1>6, OthersUntouched

LEMMA UnloadInv == ASSUME IInv, NEW d \in Dlls, Unload(d) PROVE IInv'
<1> USE DEF Unload, tools, status
<1>0. ModuleType /\ PointInv(d) /\ EventInv /\ LeakInv
  BY DEF IInv
<1>1. ModuleType'
  <2>1. thread' \in [Dlls -> Steps]
    BY <1>0 DEF ModuleType, Steps
  <2>2. refs' \in [Dlls -> Nat]
    BY <1>0 DEF ModuleType, PointInv
  <2>3. event' \in [Dlls -> BOOLEAN] /\ leaked' \in BOOLEAN /\ signaled' \in BOOLEAN
    BY <1>0 DEF ModuleType
  <2> QED BY <1>0, <2>1, <2>2, <2>3 DEF ModuleType
<1>2. PointInv(d)'
  BY <1>0 DEF ModuleType, PointInv, Active, FileAt, Reporting, Up
<1>3. EventInv'
  BY <1>0 DEF EventInv, ModuleType
<1>4. LeakInv'
  BY <1>0 DEF LeakInv, Active, ModuleType
<1>5. ToolType'
  BY ToolsUntouched DEF IInv
<1>6. \A x \in Dlls \ {d} :
          /\ refs'[x] = refs[x] /\ thread'[x] = thread[x] /\ event'[x] = event[x]
          /\ writing'[x] = writing[x] /\ service'[x] = service[x]
          /\ file'[x] = file[x] /\ stale'[x] = stale[x]
  BY <1>0 DEF ModuleType
<1> QED BY <1>1, <1>2, <1>3, <1>4, <1>5, <1>6, OthersUntouched

-----------------------------------------------------------------------------
(* The injectors                                                            *)

LEMMA FinishInv == ASSUME IInv, NEW k \in Tools, Finish(k) PROVE IInv'
<1>1. ToolType'
  BY DEF Finish, IInv, ToolType, Places, Contents
<1>2. UNCHANGED <<refs, event, signaled, leaked, thread, writing, service, failures, file,
                  stale, lost, caller>>
  BY DEF Finish, runtime, status
<1> QED BY <1>1, <1>2, RuntimesUntouched DEF Finish, IInv, ModuleType

LEMMA LoadInv ==
    ASSUME IInv, NEW d \in Dlls, Load(d), UNCHANGED <<status, caller>>, ToolType'
    PROVE  IInv'
<1> USE DEF Load, status
<1>1. ModuleType /\ PointInv(d) /\ EventInv /\ LeakInv
  BY DEF IInv
<1>2. refs' \in [Dlls -> Nat] /\ refs'[d] = refs[d] + 1
  BY <1>1 DEF ModuleType
<1>3. CASE refs[d] = 0
  <2>1. thread[d] = "none" /\ ~EventExists /\ Attach(d)
    BY <1>1, <1>3 DEF PointInv, ModuleType, Attach
  <2>2. ModuleType'
    <3>1. thread' \in [Dlls -> Steps]
      BY <1>1, <2>1 DEF ModuleType, Attach, Steps, Reporting
    <3>2. event' \in [Dlls -> BOOLEAN] /\ signaled' \in BOOLEAN
      BY <1>1, <2>1 DEF ModuleType, Attach
    <3> QED BY <1>1, <1>2, <3>1, <3>2 DEF ModuleType
  <2>3. PointInv(d)'
    <3>1. thread'[d] = "starting" /\ event'[d]
      BY <1>1, <2>1 DEF ModuleType, Attach
    <3>2. (~stale[d] => file[d] \in FileAt("starting")) /\ ~writing[d] /\ ~service[d]
      BY <1>1, <2>1 DEF PointInv, FileAt, Up, Reporting
    <3> QED BY <1>1, <1>2, <3>1, <3>2 DEF PointInv, ModuleType, Up
  <2>4. EventInv'
    BY <1>1, <2>1 DEF ModuleType, EventInv, EventExists, Attach
  <2>5. LeakInv'
    BY <1>1, <2>1 DEF ModuleType, LeakInv, Active, Attach
  <2>6. \A x \in Dlls \ {d} :
            /\ refs'[x] = refs[x] /\ thread'[x] = thread[x] /\ event'[x] = event[x]
            /\ writing'[x] = writing[x] /\ service'[x] = service[x]
            /\ file'[x] = file[x] /\ stale'[x] = stale[x]
    BY <1>1, <2>1 DEF ModuleType, Attach
  <2> QED BY <2>2, <2>3, <2>4, <2>5, <2>6, OthersUntouched
<1>4. CASE refs[d] # 0
  <2>1. ModuleType'
    BY <1>1, <1>2, <1>4 DEF ModuleType
  <2>2. PointInv(d)'
    BY <1>1, <1>2, <1>4 DEF ModuleType, PointInv, Active
  <2>3. EventInv' /\ LeakInv'
    BY <1>1, <1>4 DEF EventInv, LeakInv, Active
  <2>4. \A x \in Dlls \ {d} :
            /\ refs'[x] = refs[x] /\ thread'[x] = thread[x] /\ event'[x] = event[x]
            /\ writing'[x] = writing[x] /\ service'[x] = service[x]
            /\ file'[x] = file[x] /\ stale'[x] = stale[x]
    BY <1>1, <1>4 DEF ModuleType
  <2> QED BY <2>1, <2>2, <2>3, <2>4, OthersUntouched
<1> QED BY <1>3, <1>4

LEMMA InjectInv == ASSUME IInv, NEW k \in Tools, InjectLibrary(k) PROVE IInv'
<1>1. dll[k] \in Dlls
  BY DEF InjectLibrary, Tool, IInv, ToolType
<1>2. ToolType'
  BY DEF InjectLibrary, Tool, IInv, ToolType, Places
<1>3. Load(dll[k]) /\ UNCHANGED <<status, caller>>
  BY DEF InjectLibrary
<1> QED BY <1>1, <1>2, <1>3, LoadInv

LEMMA RemoveFileInv ==
    ASSUME IInv, NEW d \in Dlls, ToolType',
           \/ /\ file' = [file EXCEPT ![d] = "absent"]
              /\ stale' = [stale EXCEPT ![d] = FALSE]
           \/ UNCHANGED <<file, stale>>,
           UNCHANGED <<refs, event, signaled, leaked, thread, writing, service, failures,
                       lost, caller>>
    PROVE  IInv'
<1>1. ModuleType /\ PointInv(d) /\ EventInv /\ LeakInv
  BY DEF IInv
<1>2. ModuleType'
  BY <1>1 DEF ModuleType, Contents
<1>3. PointInv(d)'
  <2>1. "absent" \in FileAt(thread[d])
    BY <1>1 DEF ModuleType, Steps, Reporting, FileAt
  <2>2. \/ file'[d] = "absent" /\ ~stale'[d]
        \/ file'[d] = file[d] /\ stale'[d] = stale[d]
    BY <1>1 DEF ModuleType
  <2> QED BY <1>1, <2>1, <2>2 DEF PointInv, Active
<1>4. EventInv' /\ LeakInv'
  BY <1>1 DEF EventInv, LeakInv, Active
<1>5. \A x \in Dlls \ {d} :
          /\ refs'[x] = refs[x] /\ thread'[x] = thread[x] /\ event'[x] = event[x]
          /\ writing'[x] = writing[x] /\ service'[x] = service[x]
          /\ file'[x] = file[x] /\ stale'[x] = stale[x]
  BY <1>1 DEF ModuleType
<1> QED BY <1>2, <1>3, <1>4, <1>5, OthersUntouched

LEMMA RemoveStatusInv == ASSUME IInv, NEW k \in Tools, RemoveStatus(k) PROVE IInv'
<1>1. dll[k] \in Dlls
  BY DEF RemoveStatus, Tool, IInv, ToolType
<1>2. ToolType'
  BY DEF RemoveStatus, Tool, IInv, ToolType, Places
<1>3. /\ \/ /\ file' = [file EXCEPT ![dll[k]] = "absent"]
            /\ stale' = [stale EXCEPT ![dll[k]] = FALSE]
         \/ UNCHANGED <<file, stale>>
      /\ UNCHANGED <<refs, event, signaled, leaked, thread, writing, service, failures,
                     lost, caller>>
  BY DEF RemoveStatus, runtime
<1> QED BY <1>1, <1>2, <1>3, RemoveFileInv

\* An injector opens the event, sets it, polls, or begins another run.
LEMMA OtherToolStepsInv ==
    ASSUME IInv, NEW k \in Tools,
           \/ OpenEvent(k) \/ Signal(k) \/ Poll(k) \/ PollGone(k) \/ PollTimeout(k)
           \/ \E d \in Dlls : Begin(k, d)
    PROVE  IInv'
<1> USE DEF Tool, IInv, runtime, status
<1>1. CASE Finish(k)
  BY <1>1, FinishInv
<1>2. CASE OpenEvent(k) /\ ~Finish(k)
  <2>1. ToolType'
    BY <1>2 DEF OpenEvent, ToolType, Places
  <2> QED BY <1>2, <2>1, RuntimesUntouched DEF OpenEvent, ModuleType
<1>3. CASE Signal(k)
  <2>1. ToolType'
    BY <1>3 DEF Signal, ToolType, Places
  <2> QED BY <1>3, <2>1, RuntimesUntouched DEF Signal, ModuleType
<1>4. CASE Poll(k) /\ ~Finish(k)
  <2>1. dll[k] \in Dlls
    BY <1>4 DEF Poll, ToolType
  <2>2. ToolType'
    BY <1>4, <2>1 DEF Poll, ToolType, ModuleType
  <2> QED BY <1>4, <2>2, RuntimesUntouched DEF Poll, ModuleType
<1>5. ASSUME NEW d \in Dlls, Begin(k, d) PROVE IInv'
  <2>1. at' \in [Tools -> Places] /\ dll' \in [Tools -> Dlls \cup {None}]
    BY <1>5 DEF Begin, ToolType, Places
  <2>2. \A j \in Tools : at'[j] # "idle" => dll'[j] \in Dlls
    BY <1>5 DEF Begin, ToolType
  <2>3. calls' \in 0..MaxCalls /\ last' \in [Tools -> BOOLEAN]
    BY <1>5, RuntimeAssumption DEF Begin, ToolType
  <2> QED BY <1>5, <2>1, <2>2, <2>3, RuntimesUntouched DEF Begin, ModuleType, ToolType
<1> QED BY <1>1, <1>2, <1>3, <1>4, <1>5 DEF PollGone, PollTimeout

\* From outside: a call of FrameWatchRequestShutdown, and another process.
LEMMA OutsideInv ==
    ASSUME IInv, \/ \E d \in Dlls : RequestShutdown(d) \/ OthersWrite(d)
                 \/ SetStopEvent
    PROVE  IInv'
<1>0. ModuleType /\ EventInv /\ LeakInv /\ ToolType
  BY DEF IInv
<1>1. CASE SetStopEvent \/ \E d \in Dlls : RequestShutdown(d)
  <2>1. /\ signaled' \in BOOLEAN /\ caller' \in Dlls \cup {None} /\ UNCHANGED tools
        /\ UNCHANGED <<refs, event, leaked, thread, writing, service, failures, file, stale, lost>>
    BY <1>0, <1>1 DEF RequestShutdown, SetStopEvent, runtime, status, ModuleType
  <2> QED BY <1>0, <2>1, ToolsUntouched, RuntimesUntouched
<1>2. ASSUME NEW d \in Dlls, OthersWrite(d) PROVE IInv'
  <2>1. /\ UNCHANGED <<refs, event, signaled, leaked, thread, writing, service, failures, caller>>
        /\ UNCHANGED tools
    BY <1>2 DEF OthersWrite, runtime
  <2>2. ModuleType'
    <3>1. file' \in [Dlls -> Contents] /\ stale' \in [Dlls -> BOOLEAN]
      BY <1>0, <1>2, RuntimeAssumption DEF OthersWrite, ModuleType
    <3>2. lost' \in 0..MaxLost
      BY <1>0, <1>2, RuntimeAssumption DEF OthersWrite, ModuleType
    <3> QED BY <1>0, <2>1, <3>1, <3>2 DEF ModuleType
  <2>3. PointInv(d)'
    <3>1. stale'[d]
      BY <1>0, <1>2 DEF OthersWrite, ModuleType
    <3> QED BY <2>1, <3>1 DEF IInv, PointInv, Active
  <2>4. EventInv' /\ LeakInv'
    BY <1>0, <2>1 DEF EventInv, LeakInv, Active
  <2>5. \A x \in Dlls \ {d} :
            /\ refs'[x] = refs[x] /\ thread'[x] = thread[x] /\ event'[x] = event[x]
            /\ writing'[x] = writing[x] /\ service'[x] = service[x]
            /\ file'[x] = file[x] /\ stale'[x] = stale[x]
    BY <1>0, <1>2, <2>1 DEF OthersWrite, ModuleType
  <2> QED BY <1>0, <2>1, <2>2, <2>3, <2>4, <2>5, ToolsUntouched, OthersUntouched
<1> QED BY <1>1, <1>2

LEMMA StepInv == IInv /\ [Next]_vars => IInv'
<1> SUFFICES ASSUME IInv, [Next]_vars PROVE IInv'
  OBVIOUS
<1>1. ASSUME NEW d \in Dlls, BootstrapStep(d) PROVE IInv'
  BY <1>1, OpenStatusInv, DropStatusInv, CloseStatusInv, InitializeInv, StopStepInv, UnloadInv DEF BootstrapStep
<1>2. CASE SetStopEvent \/ \E d \in Dlls : RequestShutdown(d) \/ OthersWrite(d)
  BY <1>2, OutsideInv
<1>3. ASSUME NEW k \in Tools, ToolStep(k) PROVE IInv'
  <2>1. CASE InjectFails(k)
    BY <2>1, FinishInv DEF InjectFails
  <2> QED BY <1>3, <2>1, RemoveStatusInv, InjectInv, OtherToolStepsInv DEF ToolStep
<1>4. CASE UNCHANGED vars
  BY <1>4, ToolsUntouched, RuntimesUntouched DEF vars, runtime, status, IInv, ModuleType
<1> QED BY <1>1, <1>2, <1>3, <1>4 DEF Next

LEMMA Inductive == Spec => []IInv
<1> QED BY InitiallyInv, StepInv, PTL DEF Spec

-----------------------------------------------------------------------------
(* The properties                                                           *)

\* Every reachable state is well typed; a module with a thread is loaded.
THEOREM TypeCorrect == Spec => []TypeOK
<1>1. IInv => TypeOK
  BY DEF IInv, ModuleType, ToolType, PointInv, Active, TypeOK
<1> QED BY <1>1, Inductive, PTL

\* At most one runtime is active in the process, whatever copies are injected.
THEOREM OneAtATime == Spec => []OneRuntime
<1>1. IInv => OneRuntime
  BY DEF IInv, PointInv, EventInv, OneRuntime
<1> QED BY <1>1, Inductive, PTL

\* The stop event is free once nothing runs, unless an initialization failed.
THEOREM EventFreed == Spec => []EventOutlivesOnlyFailures
<1>1. IInv => EventOutlivesOnlyFailures
  BY DEF IInv, LeakInv, EventOutlivesOnlyFailures, EventExists, Active
<1> QED BY <1>1, Inductive, PTL

\* The injector's two good answers are true when it gives them, if the status
\* it reads is the latest of this process's copy.
THEOREM AnswersTrue == Spec => StatusTellsTheTruth
<1> DEFINE Answer(k) ==
      Poll(k) /\ ~stale[dll[k]] =>
          /\ at[k] = "starting" /\ file[dll[k]] = "running" => service[dll[k]]
          /\ at[k] = "ending" /\ file[dll[k]] = "uninitialized" => ~service[dll[k]]
<1>1. IInv => [\A k \in Tools : Answer(k)]_vars
  <2> SUFFICES ASSUME IInv, NEW k \in Tools, Poll(k), ~stale[dll[k]] PROVE Answer(k)
    OBVIOUS
  <2>1. dll[k] \in Dlls
    BY DEF Poll, IInv, ToolType
  <2>2. /\ file[dll[k]] = "running" => thread[dll[k]] \in {"await", "stopping"}
        /\ file[dll[k]] = "uninitialized" => thread[dll[k]] \notin Up
    BY <2>1 DEF IInv, ModuleType, PointInv, FileAt, Up, Steps, Reporting
  <2>3. service[dll[k]] <=> thread[dll[k]] \in Up
    BY <2>1 DEF IInv, PointInv
  <2> QED BY <2>2, <2>3 DEF Up
<1> QED BY <1>1, Inductive, PTL DEF StatusTellsTheTruth
=============================================================================
