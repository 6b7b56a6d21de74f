------------------------------ MODULE HostProofs ------------------------------
(***************************************************************************)
(* Theorems about what a magmux hosts: its panes (PaneTree) and its        *)
(* plugins (PluginHost).                                                   *)
(*                                                                         *)
(* Panes.  ScreenIsThePlan speaks of three recursive functions, Plan,      *)
(* Leaves and Shape.  The tree is a forest (Forest), so nodes have ranks;  *)
(* a recursion by rank has one solution (Recursion, OneRecursion), so each *)
(* of the three is the only function with its equation, and to be the plan *)
(* is to give the root its box and every split's halves their parts        *)
(* (PlanIs, OnlyPlan).  That is what Placed says, node by node, and what a *)
(* splice or a removal keeps where it does not draw anew.  The invariant   *)
(* ScreenKept is Rooted and Placed for the panes on screen, with types and *)
(* focus.  NobodyJoinsTheWait needs besides that what an open publishes is *)
(* counted from then on (Owed), LastOneQuits that a close which saw no     *)
(* session left has yet to tell (LastIsTold), PanelComesBack that putting  *)
(* the panel back beside its anchor restores the shape (Remembers).        *)
(*                                                                         *)
(* Plugins.  NoOpOutlivesItsPlugin is not inductive: it needs that no end  *)
(* starts its withdrawal twice (EndsOnce), or the step "ops" that accounts *)
(* for an op could be overwritten, and that an op has its plugin's name,   *)
(* or a withdrawal that goes by the name could spare some.  TypeOK needs   *)
(* that an exit is told before its plug is buried (ToldThenBuried).        *)
(***************************************************************************)
EXTENDS PluginHost, PaneTree, FiniteSetTheorems, WellFoundedInduction, TLAPS

-----------------------------------------------------------------------------
(* Plugins.                                                                *)
\* An op is qualified with the name of the plugin it came from.
OpsHaveTheirName == \A o \in ops : o.name = NameOf[o.from]

\* An end has done nothing while it has nothing to do it for.
EndsOnce ==
    \A c \in Conns :
        /\ conn[c] # "closed" => gone[c]["reader"] = "no"
        /\ c \in process => gone[c]["reap"] = "no"

\* A plug is buried only when its exit has been told (TypeOK's dead \subseteq exited).
ToldThenBuried == \A c \in Conns, e \in Enders : gone[c][e] = "dead" => c \in exited

Inv == /\ TypeOK /\ OpsHaveTheirName /\ EndsOnce /\ ToldThenBuried
       /\ NoOpOutlivesItsPlugin /\ ChangesAreAnnounced

\* The invariant holds at the start.
LEMMA InitInv == Init => Inv
<1> SUFFICES ASSUME Init PROVE Inv
  OBVIOUS
<1>1. TypeOK
  BY HostConstants DEF Init, TypeOK, OpRec, Enders, Steps
<1>2. OpsHaveTheirName /\ NoOpOutlivesItsPlugin /\ ChangesAreAnnounced
  BY DEF Init, OpsHaveTheirName, NoOpOutlivesItsPlugin, ChangesAreAnnounced
<1>3. EndsOnce /\ ToldThenBuried
  BY DEF Init, EndsOnce, ToldThenBuried, Enders
<1> QED BY <1>1, <1>2, <1>3 DEF Inv

\* An end of c's connection or process goes on to step v, and no other does.
GoneType == gone \in [Conns -> [Enders -> Steps \cup {"no"}]]
Stays == gone' = gone
Moves(c, e, v) ==
    /\ GoneType'
    /\ gone'[c][e] = v
    /\ \A d \in Conns, f \in Enders : d # c \/ f # e => gone'[d][f] = gone[d][f]

\* The nested update of gone, said once.
LEMMA GoneMoves ==
  ASSUME gone \in [Conns -> [Enders -> Steps \cup {"no"}]],
         NEW c \in Conns, NEW e \in Enders, NEW v \in Steps,
         gone' = [gone EXCEPT ![c][e] = v]
  PROVE  Moves(c, e, v)
<1> DEFINE r == [gone[c] EXCEPT ![e] = v]
<1>1. gone' = [gone EXCEPT ![c] = r]
  OBVIOUS
<1>2. r \in [Enders -> Steps \cup {"no"}]
  OBVIOUS
<1>3. r[e] = v /\ \A f \in Enders : f # e => r[f] = gone[c][f]
  OBVIOUS
<1> HIDE DEF r
<1>4. gone' \in [Conns -> [Enders -> Steps \cup {"no"}]]
  BY <1>1, <1>2
<1>5. gone'[c] = r /\ \A d \in Conns : d # c => gone'[d] = gone[d]
  BY <1>1
<1> QED BY <1>3, <1>4, <1>5 DEF Moves, GoneType

\* register: the name was free, so every op of that name is being withdrawn.
LEMMA RegisterInv ==
  ASSUME Inv, NEW c \in Conns, Register(c)
  PROVE  Inv'
<1> DEFINE new == [name : {NameOf[c]}, op : OpsOf[c], from : {c}]
<1>1. \/ conn' = [conn EXCEPT ![c] = "refused"] /\ UNCHANGED <<plugins, ops, stale>>
      \/ /\ conn' = [conn EXCEPT ![c] = "registered"] /\ stale' = TRUE
         /\ plugins' = [plugins EXCEPT ![NameOf[c]] = c] /\ ops' = ops \cup new
         /\ plugins[NameOf[c]] = NoConn
  BY DEF Register
<1>2. conn[c] \in {"open", "refused"}
  BY DEF Register
<1>3. UNCHANGED <<closing, plug, gone, process, exited, dead, calls>>
  BY DEF Register
<1>4. new \subseteq OpRec /\ \A o \in new : o.name = NameOf[c] /\ o.from = c
  BY HostConstants DEF OpRec
<1> HIDE DEF new
<1>5. TypeOK'
  <2>1. plugins' \in [Names -> Conns \cup {NoConn}]
    BY <1>1, HostConstants DEF Inv, TypeOK
  <2>2. \A n \in Names : plugins'[n] # NoConn => NameOf[plugins'[n]] = n
    BY <1>1, HostConstants DEF Inv, TypeOK
  <2>3. stale' \in BOOLEAN
    BY <1>1 DEF Inv, TypeOK
  <2>4. ops' \subseteq OpRec
    BY <1>1, <1>4 DEF Inv, TypeOK
  <2>5. conn' \in [Conns -> {"open", "registered", "set", "serving", "refused", "closed"}]
    BY <1>1 DEF Inv, TypeOK
  <2> QED BY <1>3, <2>1, <2>2, <2>3, <2>4, <2>5 DEF Inv, TypeOK, calls
<1>6. OpsHaveTheirName'
  BY <1>1, <1>4 DEF Inv, OpsHaveTheirName
<1>7. EndsOnce'
  BY <1>1, <1>2, <1>3 DEF Inv, TypeOK, EndsOnce
<1>8. NoOpOutlivesItsPlugin'
  BY <1>1, <1>3, <1>4, HostConstants DEF Inv, TypeOK, NoOpOutlivesItsPlugin, OpRec
<1>9. ChangesAreAnnounced'
  <2>1. CASE conn' = [conn EXCEPT ![c] = "refused"] /\ UNCHANGED stale
    BY <2>1, <1>2, <1>3 DEF Inv, TypeOK, ChangesAreAnnounced
  <2>2. CASE conn' = [conn EXCEPT ![c] = "registered"]
    BY <2>2 DEF Inv, TypeOK, ChangesAreAnnounced
  <2> QED BY <1>1, <2>1, <2>2
<1>10. ToldThenBuried'
  BY <1>3 DEF Inv, ToldThenBuried
<1> QED BY <1>5, <1>6, <1>7, <1>8, <1>9, <1>10 DEF Inv

\* What the reader does after register only moves its place.
LEMMA SetPlugInv ==
  ASSUME Inv, NEW c \in Conns, SetPlug(c)
  PROVE  Inv'
<1> USE DEF SetPlug, registry, calls
<1>1. TypeOK'
  BY HostConstants DEF Inv, TypeOK, ToldThenBuried, OpRec, Enders, Steps
<1>2. OpsHaveTheirName'
  BY HostConstants DEF Inv, TypeOK, OpsHaveTheirName
<1>3. EndsOnce'
  BY SMT DEF Inv, TypeOK, EndsOnce, Enders
<1>4. NoOpOutlivesItsPlugin'
  BY HostConstants DEF Inv, TypeOK, OpsHaveTheirName, EndsOnce,
       NoOpOutlivesItsPlugin, Enders, OpRec
<1>5. ChangesAreAnnounced'
  BY SMT DEF Inv, TypeOK, EndsOnce, ChangesAreAnnounced, Enders
<1>6. ToldThenBuried'
  BY SMT DEF Inv, TypeOK, ToldThenBuried, Enders
<1> QED BY <1>1, <1>2, <1>3, <1>4, <1>5, <1>6 DEF Inv

\* ops_changed is published.
LEMMA AnnounceInv ==
  ASSUME Inv, NEW c \in Conns, Announce(c)
  PROVE  Inv'
<1> USE DEF Announce, registry, calls
<1>1. TypeOK'
  BY HostConstants DEF Inv, TypeOK, ToldThenBuried, OpRec, Enders, Steps
<1>2. OpsHaveTheirName'
  BY HostConstants DEF Inv, TypeOK, OpsHaveTheirName
<1>3. EndsOnce'
  BY SMT DEF Inv, TypeOK, EndsOnce, Enders
<1>4. NoOpOutlivesItsPlugin'
  BY HostConstants DEF Inv, TypeOK, OpsHaveTheirName, EndsOnce,
       NoOpOutlivesItsPlugin, Enders, OpRec
<1>5. ChangesAreAnnounced'
  BY SMT DEF Inv, TypeOK, EndsOnce, ChangesAreAnnounced, Enders
<1>6. ToldThenBuried'
  BY SMT DEF Inv, TypeOK, ToldThenBuried, Enders
<1> QED BY <1>1, <1>2, <1>3, <1>4, <1>5, <1>6 DEF Inv

\* The reader's end starts its withdrawal, for the first time.
LEMMA CloseInv ==
  ASSUME Inv, NEW c \in Conns, Close(c)
  PROVE  Inv'
<1> USE DEF Close, registry, calls
<1>0. Stays \/ (Moves(c, "reader", "idle") /\ gone[c]["reader"] = "no")
  BY GoneMoves DEF Inv, TypeOK, EndsOnce, Enders, Steps, Stays
<1>1. TypeOK'
  BY <1>0, HostConstants DEF Moves, GoneType, Stays, Inv, TypeOK, ToldThenBuried,
       OpRec, Enders, Steps
<1>2. OpsHaveTheirName'
  BY HostConstants DEF Inv, TypeOK, OpsHaveTheirName
<1>3. EndsOnce'
  BY <1>0, SMT DEF Moves, GoneType, Stays, Inv, TypeOK, EndsOnce, Enders
<1>4. NoOpOutlivesItsPlugin'
  BY <1>0, HostConstants DEF Moves, GoneType, Stays, Inv, TypeOK, OpsHaveTheirName,
       EndsOnce, NoOpOutlivesItsPlugin, Enders, OpRec
<1>5. ChangesAreAnnounced'
  BY <1>0, SMT DEF Moves, GoneType, Stays, Inv, TypeOK, EndsOnce,
       ChangesAreAnnounced, Enders
<1>6. ToldThenBuried'
  BY <1>0, SMT DEF Moves, GoneType, Stays, Inv, TypeOK, ToldThenBuried, Enders
<1> QED BY <1>1, <1>2, <1>3, <1>4, <1>5, <1>6 DEF Inv

\* reap starts the other withdrawal, for the first time.
LEMMA ExitInv ==
  ASSUME Inv, NEW c \in Conns, Exit(c)
  PROVE  Inv'
<1> USE DEF Exit, registry, calls
<1>0. Stays \/ (Moves(c, "reap", "idle") /\ gone[c]["reap"] = "no")
  BY GoneMoves DEF Inv, TypeOK, EndsOnce, Enders, Steps, Stays
<1>1. TypeOK'
  BY <1>0, HostConstants DEF Moves, GoneType, Stays, Inv, TypeOK, ToldThenBuried,
       OpRec, Enders, Steps
<1>2. OpsHaveTheirName'
  BY HostConstants DEF Inv, TypeOK, OpsHaveTheirName
<1>3. EndsOnce'
  BY <1>0, SMT DEF Moves, GoneType, Stays, Inv, TypeOK, EndsOnce, Enders
<1>4. NoOpOutlivesItsPlugin'
  BY <1>0, HostConstants DEF Moves, GoneType, Stays, Inv, TypeOK, OpsHaveTheirName,
       EndsOnce, NoOpOutlivesItsPlugin, Enders, OpRec
<1>5. ChangesAreAnnounced'
  BY <1>0, SMT DEF Moves, GoneType, Stays, Inv, TypeOK, EndsOnce,
       ChangesAreAnnounced, Enders
<1>6. ToldThenBuried'
  BY <1>0, SMT DEF Moves, GoneType, Stays, Inv, TypeOK, ToldThenBuried, Enders
<1> QED BY <1>1, <1>2, <1>3, <1>4, <1>5, <1>6 DEF Inv

\* unregister's first section: the name goes free, and its ops are accounted for.
LEMMA WithdrawInv ==
  ASSUME Inv, NEW c \in Conns, NEW e \in Enders, Withdraw(c, e)
  PROVE  Inv'
<1> USE DEF Withdraw, InPlace, registry, calls
<1>0. \/ Moves(c, e, "ops") /\ InPlace(c)
      \/ Moves(c, e, "done") /\ ~InPlace(c)
  BY GoneMoves DEF Inv, TypeOK, Steps
<1>1. TypeOK'
  BY <1>0, HostConstants DEF Moves, GoneType, Stays, Inv, TypeOK, ToldThenBuried,
       OpRec, Enders, Steps
<1>2. OpsHaveTheirName'
  BY HostConstants DEF Inv, TypeOK, OpsHaveTheirName
<1>3. EndsOnce'
  BY <1>0, SMT DEF Moves, GoneType, Stays, Inv, TypeOK, EndsOnce, Enders
<1>4. NoOpOutlivesItsPlugin'
  BY <1>0, HostConstants DEF Moves, GoneType, Stays, Inv, TypeOK, OpsHaveTheirName,
       EndsOnce, NoOpOutlivesItsPlugin, Enders, OpRec
<1>5. ChangesAreAnnounced'
  BY <1>0, SMT DEF Moves, GoneType, Stays, Inv, TypeOK, EndsOnce,
       ChangesAreAnnounced, Enders
<1>6. ToldThenBuried'
  BY <1>0, SMT DEF Moves, GoneType, Stays, Inv, TypeOK, ToldThenBuried, Enders
<1> QED BY <1>1, <1>2, <1>3, <1>4, <1>5, <1>6 DEF Inv

\* The ops go by the name, which is that of everything this plug registered.
LEMMA WithdrawOpsInv ==
  ASSUME Inv, NEW c \in Conns, NEW e \in Enders, WithdrawOps(c, e)
  PROVE  Inv'
<1> USE DEF WithdrawOps, Without, ThenNews, registry, calls
<1>0. Moves(c, e, "changed")
  BY GoneMoves DEF Inv, TypeOK, Steps
<1>1. TypeOK'
  BY <1>0, HostConstants DEF Moves, GoneType, Stays, Inv, TypeOK, ToldThenBuried,
       OpRec, Enders, Steps
<1>2. OpsHaveTheirName'
  BY HostConstants DEF Inv, TypeOK, OpsHaveTheirName
<1>3. EndsOnce'
  BY <1>0, SMT DEF Moves, GoneType, Stays, Inv, TypeOK, EndsOnce, Enders
<1>4. NoOpOutlivesItsPlugin'
  BY <1>0, HostConstants DEF Moves, GoneType, Stays, Inv, TypeOK, OpsHaveTheirName,
       EndsOnce, NoOpOutlivesItsPlugin, Enders, OpRec
<1>5. ChangesAreAnnounced'
  BY <1>0, SMT DEF Moves, GoneType, Stays, Inv, TypeOK, EndsOnce,
       ChangesAreAnnounced, Enders
<1>6. ToldThenBuried'
  BY <1>0, SMT DEF Moves, GoneType, Stays, Inv, TypeOK, ToldThenBuried, Enders
<1> QED BY <1>1, <1>2, <1>3, <1>4, <1>5, <1>6 DEF Inv

\* The rest of unregister.
LEMMA PublishChangedInv ==
  ASSUME Inv, NEW c \in Conns, NEW e \in Enders, PublishChanged(c, e)
  PROVE  Inv'
<1> USE DEF PublishChanged, registry, calls
<1>0. Moves(c, e, "exited")
  BY GoneMoves DEF Inv, TypeOK, Steps
<1>1. TypeOK'
  BY <1>0, HostConstants DEF Moves, GoneType, Stays, Inv, TypeOK, ToldThenBuried,
       OpRec, Enders, Steps
<1>2. OpsHaveTheirName'
  BY HostConstants DEF Inv, TypeOK, OpsHaveTheirName
<1>3. EndsOnce'
  BY <1>0, SMT DEF Moves, GoneType, Stays, Inv, TypeOK, EndsOnce, Enders
<1>4. NoOpOutlivesItsPlugin'
  BY <1>0, HostConstants DEF Moves, GoneType, Stays, Inv, TypeOK, OpsHaveTheirName,
       EndsOnce, NoOpOutlivesItsPlugin, Enders, OpRec
<1>5. ChangesAreAnnounced'
  BY <1>0, SMT DEF Moves, GoneType, Stays, Inv, TypeOK, EndsOnce,
       ChangesAreAnnounced, Enders
<1>6. ToldThenBuried'
  BY <1>0, SMT DEF Moves, GoneType, Stays, Inv, TypeOK, ToldThenBuried, Enders
<1> QED BY <1>1, <1>2, <1>3, <1>4, <1>5, <1>6 DEF Inv

LEMMA PublishExitedInv ==
  ASSUME Inv, NEW c \in Conns, NEW e \in Enders, PublishExited(c, e)
  PROVE  Inv'
<1> USE DEF PublishExited, registry, calls
<1>0. Moves(c, e, "dead")
  BY GoneMoves DEF Inv, TypeOK, Steps
<1>1. TypeOK'
  BY <1>0, HostConstants DEF Moves, GoneType, Stays, Inv, TypeOK, ToldThenBuried,
       OpRec, Enders, Steps
<1>2. OpsHaveTheirName'
  BY HostConstants DEF Inv, TypeOK, OpsHaveTheirName
<1>3. EndsOnce'
  BY <1>0, SMT DEF Moves, GoneType, Stays, Inv, TypeOK, EndsOnce, Enders
<1>4. NoOpOutlivesItsPlugin'
  BY <1>0, HostConstants DEF Moves, GoneType, Stays, Inv, TypeOK, OpsHaveTheirName,
       EndsOnce, NoOpOutlivesItsPlugin, Enders, OpRec
<1>5. ChangesAreAnnounced'
  BY <1>0, SMT DEF Moves, GoneType, Stays, Inv, TypeOK, EndsOnce,
       ChangesAreAnnounced, Enders
<1>6. ToldThenBuried'
  BY <1>0, SMT DEF Moves, GoneType, Stays, Inv, TypeOK, ToldThenBuried, Enders
<1> QED BY <1>1, <1>2, <1>3, <1>4, <1>5, <1>6 DEF Inv

LEMMA BuryInv ==
  ASSUME Inv, NEW c \in Conns, NEW e \in Enders, Bury(c, e)
  PROVE  Inv'
<1> USE DEF Bury, registry, calls
<1>0. Moves(c, e, "done")
  BY GoneMoves DEF Inv, TypeOK, Steps
<1>1. TypeOK'
  BY <1>0, HostConstants DEF Moves, GoneType, Stays, Inv, TypeOK, ToldThenBuried,
       OpRec, Enders, Steps
<1>2. OpsHaveTheirName'
  BY HostConstants DEF Inv, TypeOK, OpsHaveTheirName
<1>3. EndsOnce'
  BY <1>0, SMT DEF Moves, GoneType, Stays, Inv, TypeOK, EndsOnce, Enders
<1>4. NoOpOutlivesItsPlugin'
  BY <1>0, HostConstants DEF Moves, GoneType, Stays, Inv, TypeOK, OpsHaveTheirName,
       EndsOnce, NoOpOutlivesItsPlugin, Enders, OpRec
<1>5. ChangesAreAnnounced'
  BY <1>0, SMT DEF Moves, GoneType, Stays, Inv, TypeOK, EndsOnce,
       ChangesAreAnnounced, Enders
<1>6. ToldThenBuried'
  BY <1>0, SMT DEF Moves, GoneType, Stays, Inv, TypeOK, ToldThenBuried, Enders
<1> QED BY <1>1, <1>2, <1>3, <1>4, <1>5, <1>6 DEF Inv

\* What an invocation does touches neither the registry nor the connections.
LEMMA CallsInv ==
  ASSUME Inv, TypeOK', UNCHANGED <<registry, serving>>
  PROVE  Inv'
BY DEF Inv, registry, serving, OpsHaveTheirName, EndsOnce, ToldThenBuried,
       NoOpOutlivesItsPlugin, ChangesAreAnnounced

\* The six steps of an invocation.
LEMMA InvokeInv ==
  ASSUME Inv, NEW i \in Calls,
         Invoke(i) \/ Deliver(i) \/ Run(i) \/ TimesOut(i)
  PROVE  Inv'
<1>1. CASE Invoke(i)
  <2>1. UNCHANGED <<registry, serving>>
    BY <1>1 DEF Invoke
  <2>2. PICK o \in ops :
          LET c == plugins[o.name]
          IN IF c = NoConn \/ closing
             THEN /\ call' = [call EXCEPT ![i] = "done"]
                  /\ outcome' = [outcome EXCEPT ![i] = IF c = NoConn THEN "plugin_gone"
                                                                     ELSE "not_ready"]
                  /\ UNCHANGED target
             ELSE /\ call' = [call EXCEPT ![i] = "begin"]
                  /\ target' = [target EXCEPT ![i] = c]
                  /\ UNCHANGED outcome
    BY <1>1 DEF Invoke
  <2>3. plugins[o.name] \in Conns \cup {NoConn}
    BY DEF Inv, TypeOK, OpRec
  <2>4. call[i] = "idle" /\ UNCHANGED <<slot, answer>>
    BY <1>1 DEF Invoke
  <2>5. target' \in [Calls -> Conns \cup {NoConn}]
    BY <2>2, <2>3 DEF Inv, TypeOK
  <2>6. call' \in [Calls -> {"idle", "begin", "waiting", "done"}]
    BY <2>2 DEF Inv, TypeOK
  <2>7. outcome' \in [Calls -> {"none", "answered", "plugin_gone", "timeout",
                                 "not_ready", "busy"}]
    BY <2>2 DEF Inv, TypeOK
  <2>8. slot' \subseteq {j \in Calls : call'[j] = "waiting"}
    BY <2>2, <2>4 DEF Inv, TypeOK
  <2>9. TypeOK'
    BY <2>1, <2>4, <2>5, <2>6, <2>7, <2>8 DEF Inv, TypeOK, registry, serving
  <2> QED BY <2>1, <2>9, CallsInv
<1>2. CASE Begin(i)
  <2>1. UNCHANGED <<registry, serving>>
    BY <1>2 DEF Begin
  <2>2. TypeOK'
    BY <1>2 DEF Inv, TypeOK, OpRec, Begin, registry, serving
  <2> QED BY <2>1, <2>2, CallsInv
<1>3. CASE Deliver(i)
  <2>1. UNCHANGED <<registry, serving>>
    BY <1>3 DEF Deliver
  <2>2. TypeOK'
    BY <1>3 DEF Inv, TypeOK, OpRec, Deliver, registry, serving
  <2> QED BY <2>1, <2>2, CallsInv
<1>4. CASE Answered(i)
  <2>1. UNCHANGED <<registry, serving>>
    BY <1>4 DEF Answered, Returns
  <2>2. TypeOK'
    BY <1>4 DEF Inv, TypeOK, OpRec, Answered, Returns, Freed, registry, serving
  <2> QED BY <2>1, <2>2, CallsInv
<1>5. CASE Woken(i)
  <2>1. UNCHANGED <<registry, serving>>
    BY <1>5 DEF Woken, Returns
  <2>2. TypeOK'
    BY <1>5 DEF Inv, TypeOK, OpRec, Woken, Returns, Freed, HeardOf, registry,
         serving
  <2> QED BY <2>1, <2>2, CallsInv
<1>6. CASE TimesOut(i)
  <2>1. UNCHANGED <<registry, serving>>
    BY <1>6 DEF TimesOut, Returns
  <2>2. TypeOK'
    BY <1>6 DEF Inv, TypeOK, OpRec, TimesOut, Returns, Freed, registry, serving
  <2> QED BY <2>1, <2>2, CallsInv
<1> QED BY <1>1, <1>2, <1>3, <1>4, <1>5, <1>6 DEF Run

\* Shutdown, and a step that changes nothing.
LEMMA ShutdownInv ==
  ASSUME Inv, Shutdown
  PROVE  Inv'
BY DEF Inv, Shutdown, TypeOK, serving, calls, OpsHaveTheirName, EndsOnce,
     ToldThenBuried,
       NoOpOutlivesItsPlugin, ChangesAreAnnounced

LEMMA StutterInv ==
  ASSUME Inv, UNCHANGED vars
  PROVE  Inv'
<1>1. UNCHANGED <<registry, serving>>
  BY DEF vars
<1>2. TypeOK'
  BY DEF Inv, TypeOK, vars, registry, serving, calls
<1> QED BY <1>1, <1>2, CallsInv

\* The conjunction is inductive: by the actions of Next, one lemma each.
THEOREM InductiveInvariant == Spec => []Inv
<1>1. Inv /\ [Next]_vars => Inv'
  <2> SUFFICES ASSUME Inv, [Next]_vars PROVE Inv'
    OBVIOUS
  <2>1. ASSUME NEW c \in Conns,
               Register(c) \/ SetPlug(c) \/ Announce(c) \/ Close(c) \/ Exit(c)
        PROVE  Inv'
    BY <2>1, RegisterInv, SetPlugInv, AnnounceInv, CloseInv, ExitInv
  <2>2. ASSUME NEW c \in Conns, NEW e \in Enders, Unregister(c, e) PROVE Inv'
    BY <2>2, WithdrawInv, WithdrawOpsInv, PublishChangedInv, PublishExitedInv,
         BuryInv
       DEF Unregister
  <2>3. ASSUME NEW i \in Calls, Invoke(i) \/ Deliver(i) \/ Run(i) \/ TimesOut(i) PROVE Inv'
    BY <2>3, InvokeInv
  <2>4. CASE Shutdown
    BY <2>4, ShutdownInv
  <2>5. CASE UNCHANGED vars
    BY <2>5, StutterInv
  <2> QED BY <2>1, <2>2, <2>3, <2>4, <2>5 DEF Next
<1> QED BY <1>1, InitInv, PTL DEF Spec

\* For any connections, names, ops and calls, every variable of the host keeps its
\* type: a name is its own plug's, a call that has returned holds no slot.
THEOREM TypeCorrect == Spec => []TypeOK
BY InductiveInvariant, PTL DEF Inv

\* No op outlives its plugin (Host.unregister, Hub.Register): for any number of
\* connections after one name, whichever of the two ends notices first.
THEOREM OpsGoWithTheirPlugin == Spec => []NoOpOutlivesItsPlugin
BY InductiveInvariant, PTL DEF Inv

\* Whoever changed the op table last has still to announce it (Host.register,
\* Host.unregister), or nobody's copy is out of date.
THEOREM NewsIsOnItsWay == Spec => []ChangesAreAnnounced
BY InductiveInvariant, PTL DEF Inv

-----------------------------------------------------------------------------
(* Panes: recursion by rank.                                               *)
\* A set of natural numbers has a least one.
LEMMA LeastOf ==
    ASSUME NEW T, T \subseteq Nat, T # {}
    PROVE  \E x \in T : \A y \in T : x <= y
<1> DEFINE Tops == {0..x : x \in T}
<1>1. Tops \subseteq FiniteSubsetsOf(Nat) /\ Tops # {}
  <2>1. \A x \in T : IsFiniteSet(0..x) /\ (0..x) \subseteq Nat BY FS_Interval
  <2> QED BY <2>1 DEF FiniteSubsetsOf
<1>2. IsWellFoundedOn(StrictSubsetOrdering(Nat), FiniteSubsetsOf(Nat))
  BY FS_StrictSubsetOrderingWellFounded
<1>3. PICK X \in Tops : \A Y \in Tops : ~ (<<Y, X>> \in StrictSubsetOrdering(Nat))
  <2> HIDE DEF Tops
  <2> QED BY <1>1, <1>2, WFMin
<1>4. PICK x \in T : X = 0..x OBVIOUS
<1>5. ASSUME NEW y \in T, y < x PROVE FALSE
  <2>1. (0..y) \in Tops /\ (0..y) \subseteq X /\ (0..y) # X BY <1>4, <1>5
  <2>2. <<0..y, X>> \in StrictSubsetOrdering(Nat) BY <2>1, <1>4 DEF StrictSubsetOrdering
  <2> QED BY <1>3, <2>1, <2>2
<1> QED BY <1>5

\* Of things that are ranked one has the lowest rank.
LEMMA Lowest ==
    ASSUME NEW C, NEW h \in [C -> Nat], NEW B \in SUBSET C, B # {}
    PROVE  \E m \in B : \A x \in B : h[m] <= h[x]
<1> DEFINE T == {h[x] : x \in B}
<1>1. T \subseteq Nat /\ T # {} OBVIOUS
<1>2. PICK k \in T : \A y \in T : k <= y
  <2> HIDE DEF T
  <2> QED BY <1>1, LeastOf
<1> QED BY <1>2

\* F defines each value by those of lower rank.
ByRank(C, V, H, h, F) ==
    /\ V # {} /\ H \in Nat /\ h \in [C -> 0 .. H] /\ F \in [[C -> V] -> [C -> V]]
    /\ \A f, g \in [C -> V] : \A m \in C :
         (\A d \in C : h[d] < h[m] => f[d] = g[d]) => F[f][m] = F[g][m]

\* It defines a function ...
LEMMA Recursion ==
    ASSUME NEW C, NEW V, NEW H, NEW h, NEW F, ByRank(C, V, H, h, F)
    PROVE  \E f \in [C -> V] : f = F[f]
<1>0. /\ H \in Nat /\ h \in [C -> 0 .. H] /\ F \in [[C -> V] -> [C -> V]]
      /\ \A f, g \in [C -> V] : \A m \in C :
           (\A d \in C : h[d] < h[m] => f[d] = g[d]) => F[f][m] = F[g][m]
  BY DEF ByRank
<1>00. PICK v \in V : TRUE BY DEF ByRank
<1> DEFINE Upto(f, k) == \A m \in C : h[m] < k => f[m] = F[f][m]
           T == {k \in Nat : ~ \E f \in [C -> V] : Upto(f, k)}
<1>1. ASSUME NEW k \in T, \A y \in T : k <= y PROVE FALSE
  <2>1. [m \in C |-> v] \in [C -> V] BY <1>00
  <2>2. \A m \in C : ~ (h[m] < 0) BY <1>0
  <2>3. Upto([m \in C |-> v], 0) BY <2>2
  <2>4. k # 0
    <3> HIDE DEF Upto
    <3> QED BY <2>1, <2>3
  <2>5. k \in Nat /\ k - 1 \in Nat /\ k - 1 \notin T
    <3> HIDE DEF Upto
    <3> QED BY <1>1, <2>4
  <2>6. PICK f \in [C -> V] : Upto(f, k - 1)
    <3> HIDE DEF Upto
    <3> QED BY <2>5
  <2>7. F[f] \in [C -> V] BY <1>0, <2>6
  <2>8. ASSUME NEW m \in C, h[m] < k PROVE F[f][m] = F[F[f]][m]
    <3>1. \A d \in C : h[d] < h[m] => f[d] = F[f][d]
      <4>1. \A d \in C : h[d] \in Int /\ h[m] \in Int BY <1>0
      <4>2. \A d \in C : h[d] < h[m] => h[d] < k - 1 BY <2>5, <2>8, <4>1
      <4> QED BY <2>6, <4>2
    <3> QED BY <1>0, <2>6, <2>7, <3>1
  <2>9. Upto(F[f], k) BY <2>8
  <2> HIDE DEF Upto
  <2> QED BY <2>7, <2>9
<1>2. T \subseteq Nat
  <2> HIDE DEF Upto
  <2> QED OBVIOUS
<1>3. T = {}
  <2> HIDE DEF T
  <2> QED BY <1>1, <1>2, LeastOf
<1>4. PICK f \in [C -> V] : Upto(f, H + 1)
  <2> HIDE DEF Upto
  <2>1. H + 1 \in Nat BY <1>0
  <2>2. H + 1 \notin T
    <3> HIDE DEF T
    <3> QED BY <1>3
  <2> QED BY <2>1, <2>2
<1>5. \A m \in C : h[m] < H + 1 BY <1>0
<1>6. \A m \in C : f[m] = F[f][m] BY <1>4, <1>5
<1>7. F[f] \in [C -> V] BY <1>0, <1>4
<1> QED BY <1>6, <1>7

\* ... and one only.
LEMMA OneRecursion ==
    ASSUME NEW C, NEW V, NEW H, NEW h, NEW F, ByRank(C, V, H, h, F),
           NEW f \in [C -> V], f = F[f], NEW g \in [C -> V], g = F[g]
    PROVE  f = g
<1> DEFINE B == {m \in C : f[m] # g[m]}
<1>1. h \in [C -> Nat] BY DEF ByRank
<1>2. ASSUME B # {} PROVE FALSE
  <2>1. PICK m \in B : \A x \in B : h[m] <= h[x]
    <3> HIDE DEF B
    <3> QED BY <1>1, <1>2, Lowest, B \in SUBSET C DEF B
  <2>2. \A d \in C : h[d] < h[m] => f[d] = g[d] BY <2>1, <1>1
  <2>3. F[f][m] = F[g][m] BY <2>1, <2>2 DEF ByRank
  <2> QED BY <2>1, <2>3
<1> QED BY <1>2

-----------------------------------------------------------------------------
(* The tree. *)
\* The nodes there may be, and what a split may be.
Nodes(kids) == Panes \cup DOMAIN kids
Percents == 1 .. 99
Boxes == [y : Int, x : Int, h : Int, w : Int]
Halves(N) == [type : Types, percent : Percents, first : N, second : N]

\* A node has one parent at most, and comes lower than it in some order.
Lower(kids, H, h) ==
    /\ h \in [Nodes(kids) -> 0 .. H]
    /\ \A s \in DOMAIN kids : h[kids[s].first] < h[s] /\ h[kids[s].second] < h[s]
\* Every split has two halves, every node one parent, and nobody is above himself.
Forest(kids) ==
    /\ DOMAIN kids \subseteq Splits
    /\ kids \in [DOMAIN kids -> Halves(Nodes(kids))]
    /\ \A s \in DOMAIN kids : kids[s].first # kids[s].second
    /\ \A n \in Nodes(kids) : \A r, s \in Above(kids, n) : r = s
    /\ \E H \in Nat : \E h \in [Nodes(kids) -> 0 .. H] : Lower(kids, H, h)

\* Panes, splits and Nil are different things.
LEMMA NamesApart == Panes \cap Splits = {} /\ Nil \notin Panes /\ Nil \notin Splits /\ Session \in Panes
                    /\ Panel \in Panes /\ Session # Panel
BY PaneTreeBounds DEF Panes, Session, Panel, Nil

\* A node has one parent, a split of which it is a half.
LEMMA AboveIs ==
    ASSUME NEW kids, Forest(kids), NEW n, NEW p \in Above(kids, n)
    PROVE  /\ p \in DOMAIN kids /\ p \in Nodes(kids) /\ n \in Nodes(kids)
           /\ n = kids[p].first \/ n = kids[p].second
           /\ (CHOOSE q \in Above(kids, n) : TRUE) = p
<1>1. p \in DOMAIN kids /\ (n = kids[p].first \/ n = kids[p].second) BY DEF Above
<1>2. kids[p] \in Halves(Nodes(kids)) BY <1>1 DEF Forest
<1>3. n \in Nodes(kids) BY <1>1, <1>2 DEF Halves
<1>4. (CHOOSE q \in Above(kids, n) : TRUE) \in Above(kids, n) OBVIOUS
<1> QED BY <1>1, <1>3, <1>4 DEF Forest, Nodes

\* The halves of a split are nodes, and it is their parent.
LEMMA Kid ==
    ASSUME NEW kids, Forest(kids), NEW s \in DOMAIN kids
    PROVE  /\ kids[s].first \in Nodes(kids) /\ kids[s].second \in Nodes(kids)
           /\ s \in Above(kids, kids[s].first) /\ s \in Above(kids, kids[s].second)
           /\ kids[s].type \in Types /\ kids[s].percent \in Percents
           /\ kids[s] \in Halves(Nodes(kids)) /\ s \in Nodes(kids) /\ s \notin Panes
           /\ kids[s].first # kids[s].second
<1>1. kids[s] \in Halves(Nodes(kids)) BY DEF Forest
<1> QED BY <1>1, NamesApart DEF Halves, Above, Nodes, Forest

\* What is under n: n, and what has a parent under it.
LEMMA UnderIs ==
    ASSUME NEW kids, Forest(kids), NEW n
    PROVE  /\ Under(kids, n) \subseteq Nodes(kids)
           /\ \A m \in Nodes(kids) :
                m \in Under(kids, n) <=> m = n \/ \E p \in Above(kids, m) : p \in Under(kids, n)
<1> DEFINE C == Nodes(kids)
           F == [f \in [C -> BOOLEAN] |-> [m \in C |-> m = n \/ \E p \in Above(kids, m) : f[p]]]
           Solves(f) == f = [m \in Panes \cup DOMAIN kids |-> m = n \/ \E p \in Above(kids, m) : f[p]]
           below == CHOOSE f : Solves(f)
<1>0. PICK H \in Nat : \E h \in [C -> 0 .. H] : Lower(kids, H, h) BY DEF Forest
<1>1. PICK h \in [C -> 0 .. H] : Lower(kids, H, h) BY <1>0
<1> DEFINE g == [m \in C |-> H - h[m]]
<1>2. \A m \in C : H - h[m] \in 0 .. H
  <2> TAKE m \in C
  <2>1. h[m] \in 0 .. H OBVIOUS
  <2> QED BY <2>1
<1>3. g \in [C -> 0 .. H] BY <1>2
<1>4. F \in [[C -> BOOLEAN] -> [C -> BOOLEAN]] OBVIOUS
<1>5. \A m \in C : \A p \in Above(kids, m) : p \in C /\ g[p] < g[m]
  <2> TAKE m \in C
  <2> TAKE p \in Above(kids, m)
  <2>1. p \in DOMAIN kids /\ p \in C /\ (m = kids[p].first \/ m = kids[p].second) BY AboveIs
  <2>2. h[m] < h[p] BY <1>1, <2>1 DEF Lower
  <2>3. h[m] \in 0 .. H /\ h[p] \in 0 .. H BY <2>1
  <2>4. H - h[p] < H - h[m] BY <2>2, <2>3
  <2> QED BY <2>1, <2>4
<1>6. ASSUME NEW f1 \in [C -> BOOLEAN], NEW f2 \in [C -> BOOLEAN], NEW m \in C,
             \A d \in C : g[d] < g[m] => f1[d] = f2[d]
      PROVE  F[f1][m] = F[f2][m]
  <2>1. \A p \in Above(kids, m) : f1[p] = f2[p] BY <1>5, <1>6
  <2>2. F[f1][m] = (m = n \/ \E p \in Above(kids, m) : f1[p]) OBVIOUS
  <2>3. F[f2][m] = (m = n \/ \E p \in Above(kids, m) : f2[p]) OBVIOUS
  <2> HIDE DEF F
  <2> QED BY <2>1, <2>2, <2>3
<1>7. \E f \in [C -> BOOLEAN] : f = F[f]
  <2>0. H \in Nat OBVIOUS
  <2> HIDE DEF F, C, g
  <2>1. FALSE \in BOOLEAN OBVIOUS
  <2>2. \A f1, f2 \in [C -> BOOLEAN] : \A m \in C :
           (\A d \in C : g[d] < g[m] => f1[d] = f2[d]) => F[f1][m] = F[f2][m]
    BY <1>6
  <2>3. ByRank(C, BOOLEAN, H, g, F) BY <2>0, <1>3, <1>4, <2>1, <2>2 DEF ByRank
  <2> QED BY <2>3, Recursion
<1>8. PICK f \in [C -> BOOLEAN] : f = F[f] BY <1>7
<1>9. F[f] = [m \in C |-> m = n \/ \E p \in Above(kids, m) : f[p]] OBVIOUS
<1>10. Solves(f)
  <2> HIDE DEF F
  <2> QED BY <1>8, <1>9 DEF Nodes
<1>11. Solves(below)
  <2> HIDE DEF Solves
  <2> QED BY <1>10
<1>12. Under(kids, n) = {m \in C : below[m]} BY DEF Under, Nodes
<1>13. \A m \in C : below[m] = (m = n \/ \E p \in Above(kids, m) : below[p])
  <2> HIDE DEF below
  <2> QED BY <1>11 DEF Nodes
<1> HIDE DEF below
<1>14. \A m \in C : \A p \in Above(kids, m) : p \in C BY <1>5
<1> QED BY <1>12, <1>13, <1>14

\* Of any nodes one has no parent among them,
LEMMA TopOf ==
    ASSUME NEW kids, Forest(kids), NEW B \in SUBSET Nodes(kids), B # {}
    PROVE  \E m \in B : \A p \in Above(kids, m) : p \notin B
<1>0. PICK H \in Nat : \E h \in [Nodes(kids) -> 0 .. H] : Lower(kids, H, h) BY DEF Forest
<1>1. PICK h \in [Nodes(kids) -> 0 .. H] : Lower(kids, H, h) BY <1>0
<1> DEFINE g == [m \in Nodes(kids) |-> H - h[m]]
<1>2. \A m \in Nodes(kids) : H - h[m] \in Nat
  <2> TAKE m \in Nodes(kids)
  <2>1. h[m] \in 0 .. H BY <1>1
  <2> QED BY <2>1
<1>3. g \in [Nodes(kids) -> Nat] BY <1>2
<1>4. PICK m \in B : \A x \in B : g[m] <= g[x]
  <2> HIDE DEF g
  <2> QED BY <1>3, Lowest
<1>5. ASSUME NEW p \in Above(kids, m), p \in B PROVE FALSE
  <2>1. p \in DOMAIN kids /\ p \in Nodes(kids) /\ m \in Nodes(kids) /\ (m = kids[p].first \/ m = kids[p].second)
      BY <1>5, AboveIs
  <2>2. h[m] < h[p] BY <1>1, <2>1 DEF Lower
  <2>3. h[m] \in 0 .. H /\ h[p] \in 0 .. H BY <1>1, <2>1
  <2>4. g[m] <= g[p] BY <1>4, <1>5
  <2>5. g[m] = H - h[m] /\ g[p] = H - h[p] BY <2>1
  <2> HIDE DEF g
  <2> QED BY <2>2, <2>3, <2>4, <2>5
<1> QED BY <1>5

\* and one no half among them.
LEMMA BottomOf ==
    ASSUME NEW kids, Forest(kids), NEW B \in SUBSET Nodes(kids), B # {}
    PROVE  \E m \in B : m \in DOMAIN kids => kids[m].first \notin B /\ kids[m].second \notin B
<1>0. PICK H \in Nat : \E h \in [Nodes(kids) -> 0 .. H] : Lower(kids, H, h) BY DEF Forest
<1>1. PICK h \in [Nodes(kids) -> 0 .. H] : Lower(kids, H, h) BY <1>0
<1>2. h \in [Nodes(kids) -> Nat] BY <1>1
<1>3. PICK m \in B : \A x \in B : h[m] <= h[x] BY <1>2, Lowest
<1>4. ASSUME m \in DOMAIN kids PROVE kids[m].first \notin B /\ kids[m].second \notin B
  <2>1. kids[m].first \in Nodes(kids) /\ kids[m].second \in Nodes(kids) /\ m \in Nodes(kids)
      BY <1>4, Kid
  <2>2. h[kids[m].first] < h[m] /\ h[kids[m].second] < h[m] BY <1>1, <1>4 DEF Lower
  <2>3. h[kids[m].first] \in Nat /\ h[kids[m].second] \in Nat /\ h[m] \in Nat BY <1>2, <2>1
  <2> QED BY <1>3, <2>2, <2>3
<1> QED BY <1>4

\* Under a pane there is nothing.
LEMMA UnderPane ==
    ASSUME NEW kids, Forest(kids), NEW n \in Panes
    PROVE  Under(kids, n) = {n}
<1> DEFINE B == Under(kids, n) \ {n}
<1>1. ASSUME B # {} PROVE FALSE
  <2>1. B \in SUBSET Nodes(kids) BY UnderIs
  <2>2. PICK m \in B : \A p \in Above(kids, m) : p \notin B
    <3> HIDE DEF B
    <3> QED BY <1>1, <2>1, TopOf
  <2>3. PICK p \in Above(kids, m) : p \in Under(kids, n) BY UnderIs
  <2>4. p = n /\ p \in DOMAIN kids BY <2>2, <2>3, AboveIs
  <2> QED BY <2>4, NamesApart DEF Forest
<1>2. n \in Under(kids, n) BY UnderIs DEF Nodes
<1> QED BY <1>1, <1>2

\* What is under a node is under its parent.
LEMMA UnderUp ==
    ASSUME NEW kids, Forest(kids), NEW n, NEW s \in DOMAIN kids, s \in Under(kids, n),
           NEW m \in Under(kids, kids[s].first) \cup Under(kids, kids[s].second)
    PROVE  m \in Under(kids, n)
<1> DEFINE B == (Under(kids, kids[s].first) \cup Under(kids, kids[s].second)) \ Under(kids, n)
<1>1. ASSUME B # {} PROVE FALSE
  <2>1. B \in SUBSET Nodes(kids) BY UnderIs
  <2>2. PICK x \in B : \A p \in Above(kids, x) : p \notin B
    <3> HIDE DEF B
    <3> QED BY <1>1, <2>1, TopOf
  <2>3. x # kids[s].first /\ x # kids[s].second
    <3>1. s \in Above(kids, kids[s].first) /\ s \in Above(kids, kids[s].second) BY Kid
    <3> QED BY <2>1, <3>1, UnderIs
  <2>4. PICK p \in Above(kids, x) : p \in Under(kids, kids[s].first) \cup Under(kids, kids[s].second)
    BY <2>1, <2>3, UnderIs
  <2>5. p \in Under(kids, n) BY <2>2, <2>4
  <2> QED BY <2>1, <2>5, UnderIs
<1> QED BY <1>1

\* Nothing is under what is under it.
LEMMA NoCircle ==
    ASSUME NEW kids, Forest(kids), NEW s \in DOMAIN kids
    PROVE  s \notin Under(kids, kids[s].first) /\ s \notin Under(kids, kids[s].second)
<1>0. PICK H \in Nat : \E h \in [Nodes(kids) -> 0 .. H] : Lower(kids, H, h) BY DEF Forest
<1>1. PICK h \in [Nodes(kids) -> 0 .. H] : Lower(kids, H, h) BY <1>0
<1>2. ASSUME NEW n \in Nodes(kids), h[n] < h[s], s \in Under(kids, n) PROVE FALSE
  <2> DEFINE B == {m \in Under(kids, n) : ~ (h[m] <= h[n])}
  <2>1. \A m \in Nodes(kids) : h[m] \in Nat BY <1>1
  <2>2. s \in Nodes(kids) BY Kid
  <2>3. s \in B BY <1>2, <2>1, <2>2
  <2>4. B \in SUBSET Nodes(kids) BY UnderIs
  <2>5. PICK x \in B : \A p \in Above(kids, x) : p \notin B
    <3> HIDE DEF B
    <3> QED BY <2>3, <2>4, TopOf
  <2>6. x \in Nodes(kids) /\ x # n BY <2>1, <2>4
  <2>7. PICK p \in Above(kids, x) : p \in Under(kids, n) BY <2>6, UnderIs
  <2>8. h[p] <= h[n] BY <2>5, <2>7
  <2>9. p \in DOMAIN kids /\ p \in Nodes(kids) /\ (x = kids[p].first \/ x = kids[p].second)
      BY <2>7, AboveIs
  <2>10. h[x] < h[p] BY <1>1, <2>9 DEF Lower
  <2>11. h[x] \in Nat /\ h[p] \in Nat /\ h[n] \in Nat BY <2>1, <2>6, <2>9
  <2>12. ~ (h[x] <= h[n]) BY <2>5
  <2> QED BY <2>8, <2>10, <2>11, <2>12
<1>3. /\ kids[s].first \in Nodes(kids) /\ kids[s].second \in Nodes(kids)
      /\ h[kids[s].first] < h[s] /\ h[kids[s].second] < h[s]
  BY <1>1, Kid DEF Lower
<1> QED BY <1>2, <1>3

\* Under a split are its halves, and nothing is under both.
LEMMA UnderHalves ==
    ASSUME NEW kids, Forest(kids), NEW s \in DOMAIN kids
    PROVE  /\ Under(kids, s) = {s} \cup Under(kids, kids[s].first) \cup Under(kids, kids[s].second)
           /\ Under(kids, kids[s].first) \cap Under(kids, kids[s].second) = {}
<1> DEFINE U == Under(kids, kids[s].first)
           W == Under(kids, kids[s].second)
<1>0. s \in Nodes(kids) /\ s \in Under(kids, s) BY Kid, UnderIs
<1>1. U \subseteq Under(kids, s) /\ W \subseteq Under(kids, s) BY <1>0, UnderUp
<1>2. ASSUME Under(kids, s) \ ({s} \cup U \cup W) # {} PROVE FALSE
  <2> DEFINE B == Under(kids, s) \ ({s} \cup U \cup W)
  <2>1. B \in SUBSET Nodes(kids) BY UnderIs
  <2>2. PICK x \in B : \A p \in Above(kids, x) : p \notin B
    <3>1. B # {} BY <1>2
    <3> HIDE DEF B
    <3> QED BY <2>1, <3>1, TopOf
  <2>3. PICK p \in Above(kids, x) : p \in Under(kids, s) BY <2>1, UnderIs
  <2>4. p = s \/ p \in U \/ p \in W BY <2>2, <2>3
  <2>5. CASE p = s
    <3>1. x = kids[s].first \/ x = kids[s].second BY <2>3, <2>5, AboveIs
    <3>2. x \in U \/ x \in W BY <2>1, <3>1, UnderIs
    <3> QED BY <3>2
  <2>6. CASE p \in U BY <2>1, <2>3, <2>6, UnderIs
  <2>7. CASE p \in W BY <2>1, <2>3, <2>7, UnderIs
  <2> QED BY <2>4, <2>5, <2>6, <2>7
<1>3. ASSUME U \cap W # {} PROVE FALSE
  <2> DEFINE B == U \cap W
  <2>1. B \in SUBSET Nodes(kids) BY UnderIs
  <2>2. PICK x \in B : \A p \in Above(kids, x) : p \notin B
    <3> HIDE DEF B
    <3>1. B # {} BY <1>3 DEF B
    <3> QED BY <2>1, <3>1, TopOf
  <2>3. s \in Above(kids, kids[s].first) /\ s \in Above(kids, kids[s].second)
        /\ kids[s].first # kids[s].second BY Kid
  <2>4. s \notin U /\ s \notin W BY NoCircle
  <2>5. \A p \in Above(kids, x), q \in Above(kids, x) : p = q BY <2>1 DEF Forest
  <2>6. CASE x = kids[s].first
    <3>1. PICK p \in Above(kids, x) : p \in W BY <2>1, <2>3, <2>6, UnderIs
    <3>2. p = s BY <2>3, <2>5, <2>6, <3>1
    <3> QED BY <2>4, <3>1, <3>2
  <2>7. CASE x = kids[s].second
    <3>1. PICK p \in Above(kids, x) : p \in U BY <2>1, <2>3, <2>7, UnderIs
    <3>2. p = s BY <2>3, <2>5, <2>7, <3>1
    <3> QED BY <2>4, <3>1, <3>2
  <2>8. CASE x # kids[s].first /\ x # kids[s].second
    <3>1. PICK p \in Above(kids, x) : p \in U BY <2>1, <2>8, UnderIs
    <3>2. PICK q \in Above(kids, x) : q \in W BY <2>1, <2>8, UnderIs
    <3> QED BY <2>2, <2>5, <3>1, <3>2
  <2> QED BY <2>6, <2>7, <2>8
<1> QED BY <1>0, <1>1, <1>2, <1>3

\* A share of a side is a number.
LEMMA ShareIsInt ==
    ASSUME NEW n \in Int, NEW percent \in Percents
    PROVE  Share(n, percent) \in Int
<1>1. n * percent \in Int BY DEF Percents
<1> HIDE DEF Percents
<1> DEFINE k == n * percent
<1>2. k \in Int BY <1>1
<1> HIDE DEF k
<1>3. k \div 100 \in Int BY <1>2
<1> QED BY <1>3 DEF Share, k

\* The halves of a box are boxes.
LEMMA SplitIsBoxes ==
    ASSUME NEW node, node.type \in Types, node.percent \in Percents, NEW b \in Boxes, NEW i \in {1, 2}
    PROVE  SplitBoxes(node, b)[i] \in Boxes
<1> DEFINE w1 == Share(b.w, node.percent)
           h1 == Share(b.h, node.percent)
<1>1. b.x \in Int /\ b.y \in Int /\ b.h \in Int /\ b.w \in Int BY DEF Boxes
<1>2. w1 \in Int /\ h1 \in Int BY <1>1, ShareIsInt
<1> HIDE DEF w1, h1
<1>3. Above0(b.w - w1 - 1) \in Int /\ Above0(b.h - h1 - 1) \in Int BY <1>1, <1>2 DEF Above0
<1>4. SplitBoxes(node, b) =
        IF node.type = "horizontal"
        THEN << Box(b.y, b.x, b.h, w1), Box(b.y, b.x + w1 + 1, b.h, Above0(b.w - w1 - 1)) >>
        ELSE << Box(b.y, b.x, h1, b.w), Box(b.y + h1 + 1, b.x, Above0(b.h - h1 - 1), b.w) >>
  BY DEF SplitBoxes, w1, h1
<1>5. \A y, x, h, w \in Int : Box(y, x, h, w) \in Boxes BY DEF Box, Boxes
<1> HIDE DEF Boxes
<1>6. b.x + w1 + 1 \in Int /\ b.y + h1 + 1 \in Int BY <1>1, <1>2
<1> QED BY <1>1, <1>2, <1>3, <1>4, <1>5, <1>6

\* The recursion that Plan is.
Places(kids, n, b, f) ==
    [m \in Under(kids, n) |->
       IF m = n THEN b
       ELSE LET p == CHOOSE p \in Above(kids, m) : TRUE
            IN SplitBoxes(kids[p], f[p])[IF m = kids[p].first THEN 1 ELSE 2]]

\* Where a split's halves are.
Halved(kids, f, U) ==
    \A s \in DOMAIN kids \cap U : /\ f[kids[s].first] = SplitBoxes(kids[s], f[s])[1]
                                 /\ f[kids[s].second] = SplitBoxes(kids[s], f[s])[2]

\* What is under n, and not n, has a parent under n.
LEMMA ByParent ==
    ASSUME NEW kids, Forest(kids), NEW n, NEW m \in Under(kids, n), m # n
    PROVE  LET p == CHOOSE p \in Above(kids, m) : TRUE
           IN p \in Under(kids, n) /\ p \in Above(kids, m) /\ p \in DOMAIN kids
              /\ kids[p].type \in Types /\ kids[p].percent \in Percents
              /\ (m = kids[p].first \/ m = kids[p].second)
<1>1. PICK p \in Above(kids, m) : p \in Under(kids, n) BY UnderIs
<1>2. p = (CHOOSE q \in Above(kids, m) : TRUE) /\ p \in DOMAIN kids /\ (m = kids[p].first \/ m = kids[p].second)
    BY AboveIs
<1>3. kids[p].type \in Types /\ kids[p].percent \in Percents BY <1>2, Kid
<1> QED BY <1>1, <1>2, <1>3

\* It is one by rank, the nodes counted from the top.
LEMMA PlaceRank ==
    ASSUME NEW kids, Forest(kids), NEW n, NEW b \in Boxes
    PROVE  \E H : \E h : ByRank(Under(kids, n), Boxes, H, h,
                                [f \in [Under(kids, n) -> Boxes] |-> Places(kids, n, b, f)])
<1> DEFINE C == Under(kids, n)
           F == [f \in [C -> Boxes] |-> Places(kids, n, b, f)]
<1>0. PICK H \in Nat : \E h \in [Nodes(kids) -> 0 .. H] : Lower(kids, H, h) BY DEF Forest
<1>1. PICK h \in [Nodes(kids) -> 0 .. H] : Lower(kids, H, h) BY <1>0
<1> DEFINE g == [m \in C |-> H - h[m]]
<1>2. C \subseteq Nodes(kids) BY UnderIs
<1>3. \A m \in C : H - h[m] \in 0 .. H
  <2> TAKE m \in C
  <2>1. h[m] \in 0 .. H BY <1>2
  <2> QED BY <2>1
<1>4. g \in [C -> 0 .. H] BY <1>3
<1>5. \A m \in C : m # n => LET p == CHOOSE p \in Above(kids, m) : TRUE
                           IN p \in C /\ g[p] < g[m]
  <2> TAKE m \in C
  <2> HAVE m # n
  <2> DEFINE p == CHOOSE p \in Above(kids, m) : TRUE
  <2>1. p \in C /\ p \in DOMAIN kids /\ (m = kids[p].first \/ m = kids[p].second) BY ByParent
  <2> HIDE DEF p
  <2>2. h[m] < h[p] BY <1>1, <2>1 DEF Lower
  <2>3. h[m] \in 0 .. H /\ h[p] \in 0 .. H BY <1>2, <2>1
  <2>4. H - h[p] < H - h[m] BY <2>2, <2>3
  <2>5. p \in C /\ g[p] < g[m] BY <2>1, <2>4
  <2> QED BY <2>5 DEF p
<1>6. ASSUME NEW f \in [C -> Boxes] PROVE Places(kids, n, b, f) \in [C -> Boxes]
  <2>1. ASSUME NEW m \in C, m # n
        PROVE  LET p == CHOOSE p \in Above(kids, m) : TRUE
               IN SplitBoxes(kids[p], f[p])[IF m = kids[p].first THEN 1 ELSE 2] \in Boxes
    <3> DEFINE p == CHOOSE p \in Above(kids, m) : TRUE
    <3>1. p \in C /\ kids[p].type \in Types /\ kids[p].percent \in Percents BY <2>1, ByParent
    <3> HIDE DEF p
    <3>2. f[p] \in Boxes BY <3>1
    <3>3. SplitBoxes(kids[p], f[p])[1] \in Boxes /\ SplitBoxes(kids[p], f[p])[2] \in Boxes
      BY <3>1, <3>2, SplitIsBoxes
    <3>4. SplitBoxes(kids[p], f[p])[IF m = kids[p].first THEN 1 ELSE 2] \in Boxes BY <3>3
    <3> QED BY <3>4 DEF p
  <2> QED BY <2>1 DEF Places
<1>7. F \in [[C -> Boxes] -> [C -> Boxes]] BY <1>6
<1>8. ASSUME NEW f1 \in [C -> Boxes], NEW f2 \in [C -> Boxes], NEW m \in C,
             \A d \in C : g[d] < g[m] => f1[d] = f2[d]
      PROVE  F[f1][m] = F[f2][m]
  <2> DEFINE p == CHOOSE p \in Above(kids, m) : TRUE
  <2>1. F[f1] = Places(kids, n, b, f1) /\ F[f2] = Places(kids, n, b, f2) OBVIOUS
  <2>2. m # n => f1[p] = f2[p] BY <1>5, <1>8
  <2>3. /\ Places(kids, n, b, f1)[m] = IF m = n THEN b ELSE SplitBoxes(kids[p], f1[p])[IF m = kids[p].first THEN 1 ELSE 2]
        /\ Places(kids, n, b, f2)[m] = IF m = n THEN b ELSE SplitBoxes(kids[p], f2[p])[IF m = kids[p].first THEN 1 ELSE 2]
    BY DEF Places
  <2> HIDE DEF F, p
  <2> QED BY <2>1, <2>2, <2>3
<1>9. Boxes # {}
  <2>1. Box(0, 0, 0, 0) \in Boxes BY DEF Box, Boxes
  <2> QED BY <2>1
<1>10. H \in Nat OBVIOUS
<1>11. ByRank(C, Boxes, H, g, F)
  <2> HIDE DEF C, F, g, Boxes
  <2> QED BY <1>4, <1>7, <1>8, <1>9, <1>10 DEF ByRank
<1> QED BY <1>11

\* Plan does what its recursion says.
LEMMA PlanSolves ==
    ASSUME NEW kids, Forest(kids), NEW n, NEW b \in Boxes
    PROVE  /\ Plan(kids, n, b) \in [Under(kids, n) -> Boxes]
           /\ Plan(kids, n, b) = Places(kids, n, b, Plan(kids, n, b))
<1> DEFINE C == Under(kids, n)
           F == [f \in [C -> Boxes] |-> Places(kids, n, b, f)]
           Solves(f) == f = Places(kids, n, b, f)
<1>1. \E H : \E h : ByRank(C, Boxes, H, h, F) BY PlaceRank
<1>2. PICK f \in [C -> Boxes] : f = F[f]
  <2> HIDE DEF C, F, Boxes
  <2> QED BY <1>1, Recursion
<1>3. Solves(f) BY <1>2
<1>4. Plan(kids, n, b) = CHOOSE g : Solves(g) BY DEF Plan, Places
<1>5. Solves(Plan(kids, n, b))
  <2> HIDE DEF Solves
  <2> QED BY <1>3, <1>4
<1>6. Plan(kids, n, b) \in [C -> Boxes]
  <2> DEFINE P == Plan(kids, n, b)
  <2>1. P = Places(kids, n, b, P) BY <1>5
  <2> HIDE DEF P
  <2>2. /\ P = [m \in C |-> P[m]]
        /\ \A m \in C : P[m] = IF m = n THEN b
                              ELSE LET p == CHOOSE p \in Above(kids, m) : TRUE
                                   IN SplitBoxes(kids[p], P[p])[IF m = kids[p].first THEN 1 ELSE 2]
    BY <2>1 DEF Places
  <2> DEFINE B == {m \in C : P[m] \notin Boxes}
  <2>3. ASSUME B # {} PROVE FALSE
    <3>1. B \in SUBSET Nodes(kids) BY UnderIs
    <3>2. PICK m \in B : \A p \in Above(kids, m) : p \notin B
      <4> HIDE DEF B
      <4> QED BY <2>3, <3>1, TopOf
    <3>3. m # n BY <2>2, <3>2
    <3> DEFINE p == CHOOSE p \in Above(kids, m) : TRUE
    <3>4. p \in C /\ p \in Above(kids, m) /\ kids[p].type \in Types /\ kids[p].percent \in Percents
      BY <3>3, ByParent
    <3>5. P[m] = SplitBoxes(kids[p], P[p])[IF m = kids[p].first THEN 1 ELSE 2] BY <2>2, <3>3
    <3> HIDE DEF p
    <3>6. P[p] \in Boxes BY <3>2, <3>4
    <3>7. SplitBoxes(kids[p], P[p])[1] \in Boxes /\ SplitBoxes(kids[p], P[p])[2] \in Boxes
      BY <3>4, <3>6, SplitIsBoxes
    <3>8. P[m] \in Boxes BY <3>5, <3>7
    <3> QED BY <3>2, <3>8
  <2>4. \A m \in C : P[m] \in Boxes BY <2>3
  <2>5. P \in [C -> Boxes]
    <3> HIDE DEF C
    <3> QED BY <2>2, <2>4
  <2> QED BY <2>5 DEF P
<1> QED BY <1>5, <1>6

\* A plan gives n its box and halves every split under it, ...
LEMMA PlanIs ==
    ASSUME NEW kids, Forest(kids), NEW n \in Nodes(kids), NEW b \in Boxes
    PROVE  /\ Plan(kids, n, b) \in [Under(kids, n) -> Boxes]
           /\ Plan(kids, n, b)[n] = b
           /\ Halved(kids, Plan(kids, n, b), Under(kids, n))
<1> DEFINE C == Under(kids, n)
           P == Plan(kids, n, b)
<1>1. P \in [C -> Boxes] /\ P = Places(kids, n, b, P) BY PlanSolves
<1> HIDE DEF P
<1>2. \A m \in C : P[m] = IF m = n THEN b
                          ELSE LET p == CHOOSE p \in Above(kids, m) : TRUE
                               IN SplitBoxes(kids[p], P[p])[IF m = kids[p].first THEN 1 ELSE 2]
  BY <1>1 DEF Places
<1>3. n \in C BY UnderIs
<1>4. ASSUME NEW s \in DOMAIN kids \cap C
      PROVE  /\ P[kids[s].first] = SplitBoxes(kids[s], P[s])[1]
             /\ P[kids[s].second] = SplitBoxes(kids[s], P[s])[2]
  <2>1. /\ kids[s].first \in Nodes(kids) /\ kids[s].second \in Nodes(kids)
        /\ s \in Above(kids, kids[s].first) /\ s \in Above(kids, kids[s].second)
        /\ kids[s].first # kids[s].second BY Kid
  <2>2. kids[s].first \in C /\ kids[s].second \in C BY <2>1, UnderIs
  <2>3. kids[s].first # n /\ kids[s].second # n BY NoCircle
  <2>4. /\ (CHOOSE p \in Above(kids, kids[s].first) : TRUE) = s
        /\ (CHOOSE p \in Above(kids, kids[s].second) : TRUE) = s BY <2>1, AboveIs
  <2>5. P[kids[s].first] = SplitBoxes(kids[s], P[s])[1] BY <1>2, <2>2, <2>3, <2>4
  <2>6. P[kids[s].second] = SplitBoxes(kids[s], P[s])[2] BY <1>2, <2>1, <2>2, <2>3, <2>4
  <2> QED BY <2>5, <2>6
<1>5. Halved(kids, P, C) BY <1>4 DEF Halved
<1>6. P[n] = b BY <1>2, <1>3
<1> QED BY <1>1, <1>5, <1>6 DEF P

\* ... and there is no other that does.
LEMMA OnlyPlan ==
    ASSUME NEW kids, Forest(kids), NEW n \in Nodes(kids), NEW b \in Boxes,
           NEW f, f = [m \in Under(kids, n) |-> f[m]], f[n] = b, Halved(kids, f, Under(kids, n))
    PROVE  f = Plan(kids, n, b)
<1> DEFINE C == Under(kids, n)
           P == Plan(kids, n, b)
           B == {m \in C : f[m] # P[m]}
<1>1. P \in [C -> Boxes] /\ P[n] = b /\ Halved(kids, P, C) BY PlanIs
<1> HIDE DEF P
<1>2. ASSUME B # {} PROVE FALSE
  <2>1. B \in SUBSET Nodes(kids) BY UnderIs
  <2>2. PICK m \in B : \A p \in Above(kids, m) : p \notin B
    <3> HIDE DEF B
    <3> QED BY <1>2, <2>1, TopOf
  <2>3. m # n BY <1>1, <2>2
  <2>4. PICK p \in Above(kids, m) : p \in C BY <2>1, <2>3, UnderIs
  <2>5. p \in DOMAIN kids /\ (m = kids[p].first \/ m = kids[p].second) BY <2>4, AboveIs
  <2>6. f[p] = P[p] BY <2>2, <2>4
  <2>7. /\ f[kids[p].first] = P[kids[p].first]
        /\ f[kids[p].second] = P[kids[p].second]
    BY <1>1, <2>4, <2>5, <2>6 DEF Halved
  <2> QED BY <2>2, <2>5, <2>7
<1>3. \A m \in C : f[m] = P[m] BY <1>2
<1>4. f = [m \in C |-> f[m]] /\ P = [m \in C |-> P[m]] BY <1>1
<1> HIDE DEF C
<1>5. f = P BY <1>3, <1>4
<1> QED BY <1>5 DEF P

\* What is in two sequences one after the other; each of it once when they share nothing.
LEMMA ConcatProps ==
    ASSUME NEW S, NEW s \in Seq(S), NEW t \in Seq(S)
    PROVE  /\ s \o t \in Seq(S)
           /\ ToSet(s \o t) = ToSet(s) \cup ToSet(t)
           /\ IsInjective(s) /\ IsInjective(t) /\ ToSet(s) \cap ToSet(t) = {} => IsInjective(s \o t)
<1>1. s \o t \in Seq(S) /\ Len(s \o t) = Len(s) + Len(t) OBVIOUS
<1>2. \A i \in 1 .. Len(s) + Len(t) : (s \o t)[i] = IF i <= Len(s) THEN s[i] ELSE t[i - Len(s)] OBVIOUS
<1>3. DOMAIN s = 1 .. Len(s) /\ DOMAIN t = 1 .. Len(t) /\ DOMAIN (s \o t) = 1 .. Len(s) + Len(t)
      /\ Len(s) \in Nat /\ Len(t) \in Nat OBVIOUS
<1> DEFINE r == s \o t
<1> HIDE DEF r
<1>4. \A x : (\E i \in DOMAIN r : r[i] = x) <=> (\E i \in DOMAIN s : s[i] = x) \/ (\E i \in DOMAIN t : t[i] = x)
  <2>1. ASSUME NEW i \in DOMAIN r
      PROVE (i \in DOMAIN s /\ r[i] = s[i]) \/ (i - Len(s) \in DOMAIN t /\ r[i] = t[i - Len(s)])
    BY <1>2, <1>3 DEF r
  <2>2. ASSUME NEW i \in DOMAIN s PROVE i \in DOMAIN r /\ r[i] = s[i] BY <1>2, <1>3 DEF r
  <2>3. ASSUME NEW i \in DOMAIN t PROVE i + Len(s) \in DOMAIN r /\ r[i + Len(s)] = t[i]
    <3>1. i + Len(s) \in 1 .. Len(s) + Len(t) /\ ~ (i + Len(s) <= Len(s)) /\ i + Len(s) - Len(s) = i
        BY <1>3
    <3> QED BY <1>2, <1>3, <3>1 DEF r
  <2> QED BY <2>1, <2>2, <2>3
<1>5. ToSet(r) = ToSet(s) \cup ToSet(t) BY <1>4 DEF ToSet
<1>6. ASSUME IsInjective(s), IsInjective(t), ToSet(s) \cap ToSet(t) = {}, NEW i \in DOMAIN r, NEW j \in DOMAIN r, r[i] = r[j]
      PROVE  i = j
  <2>1. \A k \in DOMAIN s, l \in DOMAIN t : s[k] # t[l] BY <1>6 DEF ToSet
  <2>2. /\ (i \in DOMAIN s /\ r[i] = s[i]) \/ (i - Len(s) \in DOMAIN t /\ r[i] = t[i - Len(s)])
        /\ (j \in DOMAIN s /\ r[j] = s[j]) \/ (j - Len(s) \in DOMAIN t /\ r[j] = t[j - Len(s)])
    BY <1>2, <1>3, <1>6 DEF r
  <2>3. CASE i \in DOMAIN s /\ r[i] = s[i] BY <1>6, <2>1, <2>2, <2>3 DEF IsInjective
  <2>4. CASE i - Len(s) \in DOMAIN t /\ r[i] = t[i - Len(s)]
    <3>1. j - Len(s) \in DOMAIN t /\ r[j] = t[j - Len(s)] BY <1>6, <2>1, <2>2, <2>4
    <3>2. i - Len(s) = j - Len(s) BY <1>6, <2>4, <3>1 DEF IsInjective
    <3>3. i \in Int /\ j \in Int /\ Len(s) \in Int BY <1>3, <1>6 DEF r
    <3> QED BY <3>2, <3>3
  <2> QED BY <2>2, <2>3, <2>4
<1>7. IsInjective(s) /\ IsInjective(t) /\ ToSet(s) \cap ToSet(t) = {} => IsInjective(r)
    BY <1>6 DEF IsInjective
<1> QED BY <1>1, <1>5, <1>7 DEF r

\* The recursion that Leaves and Shape are: what is said of m, of its first half, of its second.
Spelled(kids, head, f) ==
    [m \in Nodes(kids) |->
       IF m \in Panes THEN head[m] ELSE head[m] \o f[kids[m].first] \o f[kids[m].second]]

\* There is a function that spells so, whatever is said of each node.
LEMMA Spelling ==
    ASSUME NEW kids, Forest(kids), NEW E, NEW head \in [Nodes(kids) -> Seq(E)]
    PROVE  \E f \in [Nodes(kids) -> Seq(E)] : f = Spelled(kids, head, f)
<1> DEFINE C == Nodes(kids)
           V == Seq(E)
           F == [f \in [C -> V] |-> Spelled(kids, head, f)]
<1>0. PICK H \in Nat : \E h \in [C -> 0 .. H] : Lower(kids, H, h) BY DEF Forest
<1>1. PICK h \in [C -> 0 .. H] : Lower(kids, H, h) BY <1>0
<1>2. \A m \in C : m \notin Panes =>
        /\ kids[m].first \in C /\ kids[m].second \in C
        /\ h[kids[m].first] < h[m] /\ h[kids[m].second] < h[m]
  <2> TAKE m \in C
  <2> HAVE m \notin Panes
  <2>1. m \in DOMAIN kids BY DEF Nodes
  <2> QED BY <1>1, <2>1, Kid DEF Lower
<1>3. \A s, t \in V : s \o t \in V BY ConcatProps
<1>4. ASSUME NEW f \in [C -> V] PROVE Spelled(kids, head, f) \in [C -> V]
  <2>1. ASSUME NEW m \in C, m \notin Panes
        PROVE  head[m] \o f[kids[m].first] \o f[kids[m].second] \in V
    <3>1. head[m] \in V /\ f[kids[m].first] \in V /\ f[kids[m].second] \in V BY <1>2, <2>1
    <3> QED BY <1>3, <3>1
  <2>2. \A m \in C : head[m] \in V OBVIOUS
  <2> HIDE DEF C, V
  <2> QED BY <2>1, <2>2 DEF Spelled, C
<1>5. F \in [[C -> V] -> [C -> V]]
  <2> HIDE DEF V, C
  <2> QED BY <1>4
<1>6. ASSUME NEW f1 \in [C -> V], NEW f2 \in [C -> V], NEW m \in C, \A d \in C : h[d] < h[m] => f1[d] = f2[d]
      PROVE  F[f1][m] = F[f2][m]
  <2>1. F[f1] = Spelled(kids, head, f1) /\ F[f2] = Spelled(kids, head, f2) OBVIOUS
  <2>2. m \notin Panes => f1[kids[m].first] = f2[kids[m].first] /\ f1[kids[m].second] = f2[kids[m].second]
    BY <1>2, <1>6
  <2>3. /\ Spelled(kids, head, f1)[m] = IF m \in Panes THEN head[m] ELSE head[m] \o f1[kids[m].first] \o f1[kids[m].second]
        /\ Spelled(kids, head, f2)[m] = IF m \in Panes THEN head[m] ELSE head[m] \o f2[kids[m].first] \o f2[kids[m].second]
    BY DEF Spelled
  <2> HIDE DEF F
  <2> QED BY <2>1, <2>2, <2>3
<1>7. V # {}
  <2>1. << >> \in V OBVIOUS
  <2> QED BY <2>1
<1>8. H \in Nat OBVIOUS
<1>9. ByRank(C, V, H, h, F)
  <2> HIDE DEF C, V, F
  <2> QED BY <1>1, <1>5, <1>6, <1>7, <1>8 DEF ByRank
<1>10. \E f \in [C -> V] : f = F[f]
  <2> HIDE DEF C, V, F
  <2> QED BY <1>9, Recursion
<1> QED BY <1>10

\* Two functions that spell alike are one.
LEMMA OneSpelling ==
    ASSUME NEW kids, Forest(kids), NEW head, NEW f, f = Spelled(kids, head, f),
           NEW g, g = Spelled(kids, head, g), NEW n \in Nodes(kids)
    PROVE  f[n] = g[n]
<1> DEFINE B == {m \in Nodes(kids) : f[m] # g[m]}
<1>1. /\ \A m \in Nodes(kids) : f[m] = IF m \in Panes THEN head[m] ELSE head[m] \o f[kids[m].first] \o f[kids[m].second]
      /\ \A m \in Nodes(kids) : g[m] = IF m \in Panes THEN head[m] ELSE head[m] \o g[kids[m].first] \o g[kids[m].second]
  BY DEF Spelled
<1>2. ASSUME B # {} PROVE FALSE
  <2>1. B \in SUBSET Nodes(kids) OBVIOUS
  <2>2. PICK m \in B : m \in DOMAIN kids => kids[m].first \notin B /\ kids[m].second \notin B
    <3> HIDE DEF B
    <3> QED BY <1>2, <2>1, BottomOf
  <2>3. CASE m \in Panes BY <1>1, <2>2, <2>3
  <2>4. CASE m \notin Panes
    <3>1. m \in DOMAIN kids BY <2>2, <2>4 DEF Nodes
    <3>2. kids[m].first \in Nodes(kids) /\ kids[m].second \in Nodes(kids) BY <3>1, Kid
    <3>3. f[kids[m].first] = g[kids[m].first] /\ f[kids[m].second] = g[kids[m].second]
        BY <2>2, <3>1, <3>2
    <3> QED BY <1>1, <2>2, <2>4, <3>3
  <2> QED BY <2>3, <2>4
<1> QED BY <1>2

\* The recursion that Leaves is.
Listed(kids, f) ==
    [m \in Nodes(kids) |-> IF m \in Panes THEN <<m>> ELSE f[kids[m].first] \o f[kids[m].second]]

\* Leaves does what its recursion says.
LEMMA LeavesList ==
    ASSUME NEW kids, Forest(kids)
    PROVE  \E f : f = Listed(kids, f) /\ \A n \in Nodes(kids) : Leaves(kids, n) = f[n]
<1> DEFINE C == Nodes(kids)
           head == [m \in C |-> IF m \in Panes THEN <<m>> ELSE << >>]
           Solves(f) == f = Listed(kids, f)
<1>1. head \in [C -> Seq(Panes)] OBVIOUS
<1>2. PICK f \in [C -> Seq(Panes)] : f = Spelled(kids, head, f)
  <2> HIDE DEF head, C
  <2> QED BY <1>1, Spelling DEF C
<1>3. ASSUME NEW m \in C, m \notin Panes
      PROVE  head[m] \o f[kids[m].first] \o f[kids[m].second] = f[kids[m].first] \o f[kids[m].second]
  <2>1. m \in DOMAIN kids BY <1>3 DEF Nodes
  <2>2. f[kids[m].first] \in Seq(Panes)
    <3>1. kids[m].first \in C BY <2>1, Kid
    <3> HIDE DEF C
    <3> QED BY <3>1
  <2>3. head[m] = << >> BY <1>3
  <2>4. << >> \o f[kids[m].first] = f[kids[m].first] BY <2>2
  <2> QED BY <2>3, <2>4
<1>4. \A m \in C : m \in Panes => head[m] = <<m>> OBVIOUS
<1>5. Solves(f)
  <2> HIDE DEF head
  <2> QED BY <1>2, <1>3, <1>4 DEF Spelled, Listed
<1> DEFINE L == CHOOSE g : Solves(g)
<1>6. Solves(L)
  <2> HIDE DEF Solves
  <2> QED BY <1>5
<1>7. \A n \in C : Leaves(kids, n) = L[n]
  <2>1. \A n \in C : n # Nil BY NamesApart DEF Nodes, Forest
  <2> QED BY <2>1 DEF Leaves, Listed, Nodes
<1> HIDE DEF L
<1> QED BY <1>6, <1>7

\* The leaves under n are the panes under n, each once.
LEMMA LeavesAre ==
    ASSUME NEW kids, Forest(kids), NEW n \in Nodes(kids)
    PROVE  /\ Leaves(kids, n) \in Seq(Panes)
           /\ ToSet(Leaves(kids, n)) = Under(kids, n) \cap Panes
           /\ IsInjective(Leaves(kids, n))
<1> DEFINE Good(m, l) == l \in Seq(Panes) /\ ToSet(l) = Under(kids, m) \cap Panes /\ IsInjective(l)
<1>1. PICK f : f = Listed(kids, f) /\ \A m \in Nodes(kids) : Leaves(kids, m) = f[m] BY LeavesList
<1>2. \A m \in Nodes(kids) : f[m] = IF m \in Panes THEN <<m>> ELSE f[kids[m].first] \o f[kids[m].second]
  BY <1>1 DEF Listed
<1> DEFINE B == {m \in Nodes(kids) : ~ Good(m, f[m])}
<1>3. ASSUME B # {} PROVE FALSE
  <2>1. B \in SUBSET Nodes(kids) OBVIOUS
  <2>2. PICK m \in B : m \in DOMAIN kids => kids[m].first \notin B /\ kids[m].second \notin B
    <3> HIDE DEF B
    <3> QED BY <1>3, <2>1, BottomOf
  <2>3. CASE m \in Panes
    <3>1. f[m] = <<m>> BY <1>2, <2>2, <2>3
    <3>2. Under(kids, m) = {m} BY <2>3, UnderPane
    <3>3. <<m>> \in Seq(Panes) /\ ToSet(<<m>>) = {m} /\ IsInjective(<<m>>)
        BY <2>3 DEF ToSet, IsInjective
    <3>4. Good(m, f[m]) BY <2>3, <3>1, <3>2, <3>3
    <3> QED BY <2>2, <3>4
  <2>4. CASE m \notin Panes
    <3>1. m \in DOMAIN kids BY <2>2, <2>4 DEF Nodes
    <3>2. kids[m].first \in Nodes(kids) /\ kids[m].second \in Nodes(kids) BY <3>1, Kid
    <3>3. f[m] = f[kids[m].first] \o f[kids[m].second] BY <1>2, <2>2, <2>4
    <3>4. Good(kids[m].first, f[kids[m].first]) /\ Good(kids[m].second, f[kids[m].second])
      <4> HIDE DEF Good
      <4> QED BY <2>2, <3>1, <3>2
    <3>5. /\ Under(kids, m) = {m} \cup Under(kids, kids[m].first) \cup Under(kids, kids[m].second)
          /\ Under(kids, kids[m].first) \cap Under(kids, kids[m].second) = {} BY <3>1, UnderHalves
    <3>6. ToSet(f[kids[m].first]) \cap ToSet(f[kids[m].second]) = {} BY <3>4, <3>5
    <3>7. /\ f[m] \in Seq(Panes) /\ IsInjective(f[m])
          /\ ToSet(f[m]) = ToSet(f[kids[m].first]) \cup ToSet(f[kids[m].second])
      BY <3>3, <3>4, <3>6, ConcatProps
    <3>8. Good(m, f[m]) BY <2>4, <3>4, <3>5, <3>7
    <3> QED BY <2>2, <3>8
  <2> QED BY <2>3, <2>4
<1>4. Good(n, f[n])
  <2> HIDE DEF Good
  <2> QED BY <1>3
<1> QED BY <1>1, <1>4

\* What Shape says of a node.
Mark(kids) == [m \in Nodes(kids) |-> IF m \in Panes THEN <<<<m>>>> ELSE <<<<kids[m].type, kids[m].percent>>>>]

\* The shape of what is under n is spelled node by node.
LEMMA ShapeIs ==
    ASSUME NEW kids, Forest(kids)
    PROVE  \E f : f = Spelled(kids, Mark(kids), f) /\ \A n \in Nodes(kids) : Shape(kids, n) = f[n]
<1> DEFINE C == Nodes(kids)
           E == {Mark(kids)[m][1] : m \in C}
           Solves(f) == f = Spelled(kids, Mark(kids), f)
<1>1. Mark(kids) \in [C -> Seq(E)]
  <2>1. ASSUME NEW m \in C PROVE Mark(kids)[m] \in Seq(E)
    <3> DEFINE x == Mark(kids)[m][1]
    <3>1. Mark(kids)[m] = <<x>> BY DEF Mark
    <3>2. x \in E OBVIOUS
    <3> HIDE DEF E, x
    <3>3. <<x>> \in Seq(E) BY <3>2
    <3> QED BY <3>1, <3>3
  <2>2. Mark(kids) = [m \in C |-> Mark(kids)[m]] BY DEF Mark
  <2> HIDE DEF E, C
  <2> QED BY <2>1, <2>2
<1>2. \E f : Solves(f)
  <2> HIDE DEF E
  <2> QED BY <1>1, Spelling
<1> DEFINE L == CHOOSE g : Solves(g)
<1>3. Solves(L)
  <2> HIDE DEF Solves
  <2> QED BY <1>2
<1>4. \A f : Spelled(kids, Mark(kids), f) =
             [m \in Panes \cup DOMAIN kids |->
               IF m \in Panes THEN <<<<m>>>>
               ELSE <<<<kids[m].type, kids[m].percent>>>> \o f[kids[m].first] \o f[kids[m].second]]
  BY DEF Spelled, Mark, Nodes
<1>5. \A n \in C : Shape(kids, n) = L[n]
  <2>1. \A n \in C : n # Nil BY NamesApart DEF Nodes, Forest
  <2> QED BY <1>4, <2>1 DEF Shape
<1> HIDE DEF L
<1> QED BY <1>3, <1>5

\* The tree shows the panes in L, each once.
Rooted(kids, root, L) ==
    /\ Forest(kids) /\ L \in SUBSET Panes
    /\ IsFiniteSet(L) /\ IsFiniteSet(DOMAIN kids) /\ Cardinality(L) = Cardinality(DOMAIN kids) + 1
    /\ root \in L \cup DOMAIN kids
    /\ \A s \in DOMAIN kids : kids[s].first \in L \cup DOMAIN kids /\ kids[s].second \in L \cup DOMAIN kids
    /\ \A n \in L \cup DOMAIN kids : n = root <=> Above(kids, n) = {}

\* Every node has its box: the root c, and a split's halves its two parts.
Placed(kids, root, L, box, c) ==
    /\ box \in [L \cup DOMAIN kids -> Boxes] /\ box[root] = c
    /\ Halved(kids, box, DOMAIN kids)

\* A set that has n and the halves of its splits has everything under n.
LEMMA UnderClosed ==
    ASSUME NEW kids, Forest(kids), NEW N, NEW n \in N,
           \A s \in DOMAIN kids \cap N : kids[s].first \in N /\ kids[s].second \in N
    PROVE  Under(kids, n) \subseteq N
<1> DEFINE B == Under(kids, n) \ N
<1>1. ASSUME B # {} PROVE FALSE
  <2>1. B \in SUBSET Nodes(kids) BY UnderIs
  <2>2. PICK m \in B : \A p \in Above(kids, m) : p \notin B
    <3> HIDE DEF B
    <3> QED BY <1>1, <2>1, TopOf
  <2>3. PICK p \in Above(kids, m) : p \in Under(kids, n) BY <2>1, UnderIs
  <2>4. p \in N BY <2>2, <2>3
  <2>5. p \in DOMAIN kids /\ (m = kids[p].first \/ m = kids[p].second) BY <2>3, AboveIs
  <2> QED BY <2>4, <2>5
<1> QED BY <1>1

\* A tree that is rooted is made of nodes, and its root has no parent.
LEMMA RootedNodes ==
    ASSUME NEW kids, NEW root, NEW L, Rooted(kids, root, L)
    PROVE  /\ L \cup DOMAIN kids \subseteq Nodes(kids)
           /\ \A n : Above(kids, n) # {} => n \in L \cup DOMAIN kids
           /\ root \in Nodes(kids) /\ Above(kids, root) = {}
<1>1. \A n : Above(kids, n) # {} => n \in L \cup DOMAIN kids BY DEF Rooted, Above
<1> QED BY <1>1 DEF Rooted, Nodes

\* Everything is under the root.
LEMMA UnderRoot ==
    ASSUME NEW kids, NEW root, NEW L, Rooted(kids, root, L)
    PROVE  Under(kids, root) = L \cup DOMAIN kids
<1> DEFINE B == (L \cup DOMAIN kids) \ Under(kids, root)
<1>0. Forest(kids) /\ root \in L \cup DOMAIN kids BY DEF Rooted
<1>1. ASSUME B # {} PROVE FALSE
  <2>1. B \in SUBSET Nodes(kids) BY RootedNodes
  <2>2. PICK m \in B : \A p \in Above(kids, m) : p \notin B
    <3> HIDE DEF B
    <3> QED BY <1>0, <1>1, <2>1, TopOf
  <2>3. root \in Under(kids, root) BY <1>0, UnderIs, RootedNodes
  <2>4. PICK p \in Above(kids, m) : TRUE BY <2>2, <2>3 DEF Rooted
  <2>5. p \in Under(kids, root) BY <1>0, <2>2, <2>4, AboveIs
  <2>6. m \in Under(kids, root) BY <1>0, <2>1, <2>4, <2>5, UnderIs
  <2> QED BY <2>6
<1>2. Under(kids, root) \subseteq L \cup DOMAIN kids
  <2>1. \A s \in DOMAIN kids \cap (L \cup DOMAIN kids) :
          kids[s].first \in L \cup DOMAIN kids /\ kids[s].second \in L \cup DOMAIN kids
              BY DEF Rooted
  <2> QED BY <1>0, <2>1, UnderClosed
<1> QED BY <1>1, <1>2

\* box0 is right but for what is under n, which has b.
Around(kids, root, L, n, b, box0, c) ==
    LET at(m) == IF m = n THEN b ELSE box0[m] IN
    /\ Rooted(kids, root, L) /\ n \in L \cup DOMAIN kids /\ b \in Boxes
    /\ (L \cup DOMAIN kids) \ Under(kids, n) \subseteq DOMAIN box0
    /\ DOMAIN box0 \subseteq L \cup DOMAIN kids
    /\ \A m \in DOMAIN box0 : box0[m] \in Boxes
    /\ at(root) = c
    /\ \A s \in DOMAIN kids \ Under(kids, n) :
         /\ at(kids[s].first) = SplitBoxes(kids[s], box0[s])[1]
         /\ at(kids[s].second) = SplitBoxes(kids[s], box0[s])[2]

\* A plan for what is under n makes it right.
LEMMA Grafted ==
    ASSUME NEW kids, NEW root, NEW L, NEW n, NEW b, NEW box0, NEW c,
           Around(kids, root, L, n, b, box0, c)
    PROVE  Placed(kids, root, L, Redrawn(Plan(kids, n, b), box0), c)
<1> DEFINE U == Under(kids, n)
           P == Plan(kids, n, b)
           box == Redrawn(P, box0)
           N == L \cup DOMAIN kids
           at(m) == IF m = n THEN b ELSE box0[m]
<1>1. Forest(kids) /\ Rooted(kids, root, L) /\ n \in N /\ b \in Boxes BY DEF Around, Rooted
<1>2. n \in Nodes(kids) BY <1>1, RootedNodes
<1>3. P \in [U -> Boxes] /\ P[n] = b /\ Halved(kids, P, U) BY <1>1, <1>2, PlanIs
<1> HIDE DEF P
<1>4. U \subseteq N /\ n \in U
  <2>1. \A s \in DOMAIN kids \cap N : kids[s].first \in N /\ kids[s].second \in N BY <1>1 DEF Rooted
  <2>2. U \subseteq N
    <3> HIDE DEF N
    <3> QED BY <1>1, <2>1, UnderClosed
  <2>3. n \in U BY <1>1, <1>2, UnderIs
  <2> QED BY <2>2, <2>3
<1>5. box = [m \in DOMAIN P \cup DOMAIN box0 |-> IF m \in DOMAIN P THEN P[m] ELSE box0[m]]
    BY DEF Redrawn
<1>6. DOMAIN P = U /\ DOMAIN P \cup DOMAIN box0 = N BY <1>3, <1>4 DEF Around
<1>7. box = [m \in N |-> IF m \in U THEN P[m] ELSE box0[m]] BY <1>5, <1>6
<1>8. box \in [N -> Boxes]
  <2>1. \A m \in N : m \notin U => box0[m] \in Boxes BY DEF Around
  <2>2. \A m \in U : P[m] \in Boxes BY <1>3
  <2> HIDE DEF U, N, box
  <2> QED BY <1>7, <2>1, <2>2
<1>9. \A m \in N : m \notin U => box[m] = at(m)
  <2> HIDE DEF U, N, box
  <2> QED BY <1>4, <1>7
<1>10. box[n] = b
  <2> HIDE DEF U, N, box
  <2> QED BY <1>1, <1>3, <1>4, <1>7
\* What has no parent under n is n or not under n.
<1>11. \A m \in N : (\A p \in Above(kids, m) : p \notin U) => box[m] = at(m)
  <2>1. \A m \in U : m = n \/ \E p \in Above(kids, m) : p \in U BY <1>1, UnderIs
  <2> HIDE DEF U, N, box
  <2> QED BY <1>9, <1>10, <2>1
<1>12. box[root] = c
  <2>1. root \in N /\ Above(kids, root) = {} BY <1>1, RootedNodes DEF Rooted
  <2>2. at(root) = c BY DEF Around
  <2> HIDE DEF box, N, at, U
  <2> QED BY <1>11, <2>1, <2>2
<1>13. ASSUME NEW s \in DOMAIN kids
       PROVE  /\ box[kids[s].first] = SplitBoxes(kids[s], box[s])[1]
              /\ box[kids[s].second] = SplitBoxes(kids[s], box[s])[2]
  <2>1. /\ kids[s].first \in N /\ kids[s].second \in N /\ s \in N
        /\ s \in Above(kids, kids[s].first) /\ s \in Above(kids, kids[s].second)
    BY <1>1, Kid DEF Rooted
  <2>2. CASE s \in U
    <3>1. kids[s].first \in U /\ kids[s].second \in U BY <1>1, <2>1, <2>2, UnderIs, Kid
    <3>2. /\ P[kids[s].first] = SplitBoxes(kids[s], P[s])[1]
          /\ P[kids[s].second] = SplitBoxes(kids[s], P[s])[2] BY <1>3, <2>2 DEF Halved
    <3>3. \A m \in U : box[m] = P[m]
      <4> HIDE DEF U, N, box
      <4> QED BY <1>4, <1>7
    <3> HIDE DEF U, N, box
    <3> QED BY <2>2, <3>1, <3>2, <3>3
  <2>3. CASE s \notin U
    <3>1. /\ at(kids[s].first) = SplitBoxes(kids[s], box0[s])[1]
          /\ at(kids[s].second) = SplitBoxes(kids[s], box0[s])[2] BY <2>3 DEF Around
    <3>2. \A m \in Nodes(kids) : s \in Above(kids, m) => \A p \in Above(kids, m) : p = s
        BY <1>1 DEF Forest
    <3>3. kids[s].first \in Nodes(kids) /\ kids[s].second \in Nodes(kids) BY <1>1, Kid
    <3>4. box[kids[s].first] = at(kids[s].first) /\ box[kids[s].second] = at(kids[s].second)
      <4> HIDE DEF U, N, box, at
      <4> QED BY <1>11, <2>1, <2>3, <3>2, <3>3
    <3>5. box[s] = box0[s]
      <4> HIDE DEF U, N, box
      <4> QED BY <1>7, <2>1, <2>3
    <3> HIDE DEF box, at
    <3> QED BY <3>1, <3>4, <3>5
  <2> QED BY <2>2, <2>3
<1>14. Halved(kids, box, DOMAIN kids) BY <1>13 DEF Halved
<1>15. Placed(kids, root, L, box, c)
  <2> HIDE DEF box
  <2> QED BY <1>8, <1>12, <1>14 DEF Placed
<1> QED BY <1>15 DEF P

\* kids with par, called id, where t was.
SplicedKids(kids, t, id, par) ==
    [s \in DOMAIN kids \cup {id} |-> IF s = id THEN par ELSE Replaced(kids, t, id)[s]]

\* np, which the tree does not show, may go beside t.
Splices(kids, root, L, t, np, id, par) ==
    /\ Rooted(kids, root, L) /\ t \in L \cup DOMAIN kids
    /\ np \in Panes /\ np \notin L /\ id \in Splits /\ id \notin DOMAIN kids
    /\ par \in Halves({t, np}) /\ par.first # par.second

\* Replaced changes the halves that were old, and nothing else.
LEMMA ReplacedIs ==
    ASSUME NEW kids, NEW N, \A s \in DOMAIN kids : kids[s] \in Halves(N), NEW old, NEW with
    PROVE  /\ DOMAIN Replaced(kids, old, with) = DOMAIN kids
           /\ \A s \in DOMAIN kids :
                Replaced(kids, old, with)[s] =
                  [type |-> kids[s].type, percent |-> kids[s].percent,
                   first |-> IF kids[s].first = old THEN with ELSE kids[s].first,
                   second |-> IF kids[s].second = old THEN with ELSE kids[s].second]
<1>1. DOMAIN Replaced(kids, old, with) = DOMAIN kids BY DEF Replaced
<1>2. ASSUME NEW s \in DOMAIN kids
      PROVE  Replaced(kids, old, with)[s] =
                  [type |-> kids[s].type, percent |-> kids[s].percent,
                   first |-> IF kids[s].first = old THEN with ELSE kids[s].first,
                   second |-> IF kids[s].second = old THEN with ELSE kids[s].second]
  <2>1. kids[s] \in Halves(N) OBVIOUS
  <2>2. kids[s] = [type |-> kids[s].type, percent |-> kids[s].percent, first |-> kids[s].first, second |-> kids[s].second]
    BY <2>1 DEF Halves
  <2>3. Replaced(kids, old, with)[s] =
          [kids[s] EXCEPT !.first = IF @ = old THEN with ELSE @, !.second = IF @ = old THEN with ELSE @]
    BY DEF Replaced
  <2> QED BY <2>2, <2>3
<1> QED BY <1>1, <1>2

\* K is kids, with `with` for `old` in every half.
Renames(K, kids, old, with) ==
    \A s \in DOMAIN kids :
      /\ K[s].type = kids[s].type /\ K[s].percent = kids[s].percent
      /\ K[s].first = IF kids[s].first = old THEN with ELSE kids[s].first
      /\ K[s].second = IF kids[s].second = old THEN with ELSE kids[s].second
      /\ K[s] = [type |-> kids[s].type, percent |-> kids[s].percent,
                 first |-> K[s].first, second |-> K[s].second]

\* So it renames them.
LEMMA ReplacedRenames ==
    ASSUME NEW kids, NEW N, \A s \in DOMAIN kids : kids[s] \in Halves(N), NEW old, NEW with
    PROVE  Renames(Replaced(kids, old, with), kids, old, with)
<1> DEFINE K == Replaced(kids, old, with)
<1> SUFFICES ASSUME NEW s \in DOMAIN kids
             PROVE  /\ K[s].type = kids[s].type /\ K[s].percent = kids[s].percent
                    /\ K[s].first = IF kids[s].first = old THEN with ELSE kids[s].first
                    /\ K[s].second = IF kids[s].second = old THEN with ELSE kids[s].second
                    /\ K[s] = [type |-> kids[s].type, percent |-> kids[s].percent,
                               first |-> K[s].first, second |-> K[s].second]
  BY DEF Renames
<1> DEFINE a == IF kids[s].first = old THEN with ELSE kids[s].first
           b == IF kids[s].second = old THEN with ELSE kids[s].second
<1>1. K[s] = [type |-> kids[s].type, percent |-> kids[s].percent, first |-> a, second |-> b]
    BY ReplacedIs
<1> HIDE DEF K, a, b
<1>2. K[s].type = kids[s].type /\ K[s].percent = kids[s].percent /\ K[s].first = a /\ K[s].second = b
    BY <1>1
<1> QED BY <1>1, <1>2 DEF a, b

\* K is kids with the split id over t and np.
IsSplice(K, kids, t, np, id, par) ==
    /\ DOMAIN K = DOMAIN kids \cup {id} /\ K[id] = par /\ K = [s \in DOMAIN K |-> K[s]]
    /\ Renames(K, kids, t, id)
    /\ {par.first, par.second} = {t, np} /\ t # np /\ t # id /\ np # id
    /\ par.type \in Types /\ par.percent \in Percents
    /\ id \notin Nodes(kids) /\ t \in Nodes(kids) /\ np \in Nodes(kids)

\* A splice is a new split over t and np, with its name where t was.
LEMMA SplicedIs ==
    ASSUME NEW kids, NEW root, NEW L, NEW t, NEW np, NEW id, NEW par,
           Splices(kids, root, L, t, np, id, par)
    PROVE  IsSplice(SplicedKids(kids, t, id, par), kids, t, np, id, par)
<1> DEFINE K == SplicedKids(kids, t, id, par)
<1>1. Forest(kids) BY DEF Splices, Rooted
<1>2. id \notin Panes /\ np \notin DOMAIN kids BY <1>1, NamesApart DEF Splices, Forest
<1>3. {par.first, par.second} = {t, np} /\ t # np /\ t # id /\ np # id
  <2>1. par.first \in {t, np} /\ par.second \in {t, np} /\ par.first # par.second
      BY DEF Splices, Halves
  <2>2. t # np /\ t # id /\ np # id BY <1>2 DEF Splices, Rooted
  <2> QED BY <2>1, <2>2
<1>4. par.type \in Types /\ par.percent \in Percents BY DEF Splices, Halves
<1>5. id \notin Nodes(kids) /\ t \in Nodes(kids) /\ np \in Nodes(kids)
    BY <1>2 DEF Splices, Nodes, Rooted
<1>6. DOMAIN K = DOMAIN kids \cup {id} /\ K[id] = par /\ K = [s \in DOMAIN K |-> K[s]]
    BY DEF SplicedKids
<1>7. \A s \in DOMAIN kids : K[s] = Replaced(kids, t, id)[s] BY DEF Splices, SplicedKids
<1>8. Renames(Replaced(kids, t, id), kids, t, id)
  <2>1. \A s \in DOMAIN kids : kids[s] \in Halves(Nodes(kids)) BY <1>1, Kid
  <2> QED BY <2>1, ReplacedRenames
<1> HIDE DEF K
<1>9. Renames(K, kids, t, id) BY <1>7, <1>8 DEF Renames
<1>10. IsSplice(K, kids, t, np, id, par) BY <1>3, <1>4, <1>5, <1>6, <1>9 DEF IsSplice
<1> QED BY <1>10 DEF K

\* After a splice the new split has t's parent, and is the parent of t and of np.
LEMMA SplicedAbove ==
    ASSUME NEW kids, NEW root, NEW L, NEW t, NEW np, NEW id, NEW par,
           Splices(kids, root, L, t, np, id, par)
    PROVE  LET K == SplicedKids(kids, t, id, par) IN
           /\ Above(K, id) = Above(kids, t)
           /\ Above(K, t) = {id} /\ Above(K, np) = {id} /\ Above(kids, np) = {}
           /\ \A x : x \notin {id, t, np} => Above(K, x) = Above(kids, x)
<1> DEFINE K == SplicedKids(kids, t, id, par)
<1>1. /\ DOMAIN K = DOMAIN kids \cup {id} /\ K[id] = par
      /\ \A s \in DOMAIN kids : /\ K[s].first = IF kids[s].first = t THEN id ELSE kids[s].first
                               /\ K[s].second = IF kids[s].second = t THEN id ELSE kids[s].second
      /\ {par.first, par.second} = {t, np} /\ t # np /\ t # id /\ np # id /\ id \notin Nodes(kids)
  <2>1. IsSplice(K, kids, t, np, id, par) BY SplicedIs
  <2> HIDE DEF K
  <2> QED BY <2>1 DEF IsSplice, Renames
<1> HIDE DEF K
<1>2. Forest(kids) /\ id \notin DOMAIN kids BY DEF Splices, Rooted
<1>3. \A s \in DOMAIN kids : /\ kids[s].first # id /\ kids[s].second # id
                            /\ kids[s].first # np /\ kids[s].second # np
  <2>1. \A s \in DOMAIN kids : kids[s].first \in L \cup DOMAIN kids /\ kids[s].second \in L \cup DOMAIN kids
    BY DEF Splices, Rooted
  <2>2. np \notin L \cup DOMAIN kids BY <1>2, NamesApart DEF Splices, Forest
  <2>3. L \cup DOMAIN kids \subseteq Nodes(kids) BY RootedNodes DEF Splices
  <2> QED BY <1>1, <2>1, <2>2, <2>3
<1>4. \A s \in DOMAIN kids : \A x : s \in Above(K, x) <=> x = K[s].first \/ x = K[s].second
    BY <1>1 DEF Above
<1>5. \A x : id \in Above(K, x) <=> x \in {t, np} BY <1>1 DEF Above
<1>6. \A x : Above(K, x) \subseteq DOMAIN kids \cup {id} /\ Above(kids, x) \subseteq DOMAIN kids
    BY <1>1 DEF Above
<1>7. \A s \in DOMAIN kids : \A x : s \in Above(kids, x) <=> x = kids[s].first \/ x = kids[s].second
    BY DEF Above
<1>8. Above(K, id) = Above(kids, t)
  <2>1. id \notin Above(K, id) BY <1>1, <1>5
  <2>2. \A s \in DOMAIN kids : s \in Above(K, id) <=> s \in Above(kids, t)
    <3> TAKE s \in DOMAIN kids
    <3>1. s \in Above(K, id) <=> id = K[s].first \/ id = K[s].second BY <1>4
    <3>2. s \in Above(kids, t) <=> t = kids[s].first \/ t = kids[s].second BY <1>7
    <3> QED BY <1>1, <1>3, <3>1, <3>2
  <2> QED BY <1>6, <2>1, <2>2
<1>9. Above(K, t) = {id} BY <1>1, <1>2, <1>3, <1>4, <1>5, <1>6
<1>10. Above(K, np) = {id} /\ Above(kids, np) = {} BY <1>1, <1>2, <1>3, <1>4, <1>5, <1>6, <1>7
<1>11. \A x : x \notin {id, t, np} => Above(K, x) = Above(kids, x)
  <2> TAKE x
  <2> HAVE x \notin {id, t, np}
  <2>1. \A s \in DOMAIN kids : s \in Above(K, x) <=> s \in Above(kids, x) BY <1>1, <1>4, <1>7
  <2> QED BY <1>5, <1>6, <2>1
<1> QED BY <1>8, <1>9, <1>10, <1>11 DEF K

\* A splice makes no circle and gives no node a second parent.
LEMMA SplicedForest ==
    ASSUME NEW kids, NEW root, NEW L, NEW t, NEW np, NEW id, NEW par,
           Splices(kids, root, L, t, np, id, par)
    PROVE  Forest(SplicedKids(kids, t, id, par))
<1> DEFINE K == SplicedKids(kids, t, id, par)
<1>1. /\ DOMAIN K = DOMAIN kids \cup {id} /\ K[id] = par
      /\ \A s \in DOMAIN kids :
           /\ K[s].first = IF kids[s].first = t THEN id ELSE kids[s].first
           /\ K[s].second = IF kids[s].second = t THEN id ELSE kids[s].second
           /\ K[s] = [type |-> kids[s].type, percent |-> kids[s].percent,
                      first |-> K[s].first, second |-> K[s].second]
      /\ {par.first, par.second} = {t, np} /\ t # np /\ t # id /\ np # id
      /\ id \notin Nodes(kids) /\ t \in Nodes(kids) /\ np \in Nodes(kids)
      /\ K = [s \in DOMAIN K |-> K[s]]
  <2>1. IsSplice(K, kids, t, np, id, par) BY SplicedIs
  <2> HIDE DEF K
  <2> QED BY <2>1 DEF IsSplice, Renames
<1>2. /\ Above(K, id) = Above(kids, t) /\ Above(K, t) = {id} /\ Above(K, np) = {id}
      /\ \A x : x \notin {id, t, np} => Above(K, x) = Above(kids, x)
  BY SplicedAbove
<1> HIDE DEF K
<1>3. Forest(kids) /\ id \in Splits /\ id \notin DOMAIN kids /\ par \in Halves({t, np})
    BY DEF Splices, Rooted
<1>4. Nodes(K) = Nodes(kids) \cup {id} BY <1>1 DEF Nodes
<1>5. DOMAIN K \subseteq Splits BY <1>1, <1>3 DEF Forest
<1>6. ASSUME NEW s \in DOMAIN K PROVE K[s] \in Halves(Nodes(K)) /\ K[s].first # K[s].second
  <2>1. CASE s = id
    <3>1. Halves({t, np}) \subseteq Halves(Nodes(K)) BY <1>1, <1>4 DEF Halves
    <3> QED BY <1>1, <1>3, <2>1, <3>1 DEF Splices
  <2>2. CASE s \in DOMAIN kids
    <3>1. /\ kids[s].first \in Nodes(kids) /\ kids[s].second \in Nodes(kids) /\ kids[s].first # kids[s].second
          /\ kids[s].type \in Types /\ kids[s].percent \in Percents BY <1>3, <2>2, Kid
    <3>2. K[s].first \in Nodes(K) /\ K[s].second \in Nodes(K) /\ K[s].first # K[s].second
      BY <1>1, <1>4, <2>2, <3>1
    <3> QED BY <1>1, <2>2, <3>1, <3>2 DEF Halves
  <2> QED BY <1>1, <2>1, <2>2
<1>7. K \in [DOMAIN K -> Halves(Nodes(K))] BY <1>1, <1>6
<1>8. ASSUME NEW n \in Nodes(K), NEW r \in Above(K, n), NEW s \in Above(K, n) PROVE r = s
  <2>1. \A m \in Nodes(kids) : \A p, q \in Above(kids, m) : p = q BY <1>3 DEF Forest
  <2>2. CASE n = id BY <1>1, <1>2, <1>8, <2>1, <2>2
  <2>3. CASE n \in {t, np} BY <1>2, <1>8, <2>3
  <2>4. CASE n \notin {id, t, np}
    <3>1. Above(K, n) = Above(kids, n) /\ n \in Nodes(kids) BY <1>2, <1>4, <2>4
    <3> QED BY <1>8, <2>1, <3>1
  <2> QED BY <2>2, <2>3, <2>4
<1>9. \E H \in Nat : \E h \in [Nodes(K) -> 0 .. H] : Lower(K, H, h)
  <2>0. PICK H \in Nat : \E h \in [Nodes(kids) -> 0 .. H] : Lower(kids, H, h) BY <1>3 DEF Forest
  <2>1. PICK h \in [Nodes(kids) -> 0 .. H] : Lower(kids, H, h) BY <2>0
  <2> DEFINE g == [n \in Nodes(K) |-> IF n = id THEN 2 * h[t] + 1 ELSE IF n = np THEN 2 * h[t] ELSE 2 * h[n]]
             G == 2 * H + 1
  <2>2. \A n \in Nodes(kids) : h[n] \in 0 .. H OBVIOUS
  <2>3. \A n \in Nodes(K) : g[n] \in 0 .. G
    <3> TAKE n \in Nodes(K)
    <3>1. h[t] \in 0 .. H BY <1>1, <2>2
    <3>2. n # id => h[n] \in 0 .. H BY <1>4, <2>2
    <3> QED BY <3>1, <3>2
  <2>4. G \in Nat OBVIOUS
  <2>5. g \in [Nodes(K) -> 0 .. G]
    <3>1. g = [n \in Nodes(K) |-> g[n]] OBVIOUS
    <3> HIDE DEF g, G
    <3> QED BY <2>3, <3>1
  <2>6. ASSUME NEW s \in DOMAIN K PROVE g[K[s].first] < g[s] /\ g[K[s].second] < g[s]
    <3>1. CASE s = id
      <4>1. g[id] = 2 * h[t] + 1 /\ g[t] = 2 * h[t] /\ g[np] = 2 * h[t] /\ h[t] \in 0 .. H
          BY <1>1, <1>4, <2>2
      <4> HIDE DEF g
      <4>2. g[t] < g[id] /\ g[np] < g[id] BY <4>1
      <4> QED BY <1>1, <3>1, <4>2
    <3>2. CASE s \in DOMAIN kids
      <4>1. /\ kids[s].first \in Nodes(kids) /\ kids[s].second \in Nodes(kids) /\ s \in Nodes(kids) /\ s \notin Panes
        BY <1>3, <3>2, Kid
      <4>2. h[kids[s].first] < h[s] /\ h[kids[s].second] < h[s] BY <2>1, <3>2 DEF Lower
      <4>3. s # id /\ s # np BY <1>3, <3>2, <4>1 DEF Splices
      <4>4. kids[s].first # np /\ kids[s].second # np
        <5>1. kids[s].first \in L \cup DOMAIN kids /\ kids[s].second \in L \cup DOMAIN kids
            BY <3>2 DEF Splices, Rooted
        <5>2. np \notin L \cup DOMAIN kids BY <1>3, NamesApart DEF Splices, Forest
        <5> QED BY <5>1, <5>2
      <4>5. g[s] = 2 * h[s] BY <1>4, <4>1, <4>3
      <4>6. \A n \in Nodes(kids) : h[n] \in Int BY <2>2
      <4>7. ASSUME NEW n \in Nodes(kids), n # np, h[n] < h[s]
          PROVE g[IF n = t THEN id ELSE n] < g[s]
        <5>1. h[n] \in Int /\ h[s] \in Int BY <4>1, <4>6
        <5>2. CASE n = t
          <6>1. g[id] = 2 * h[t] + 1 BY <1>4
          <6> HIDE DEF g
          <6> QED BY <4>5, <4>7, <5>1, <5>2, <6>1
        <5>3. CASE n # t
          <6>1. g[n] = 2 * h[n] BY <1>1, <1>4, <4>7
          <6> HIDE DEF g
          <6> QED BY <4>5, <4>7, <5>1, <5>3, <6>1
        <5> QED BY <5>2, <5>3
      <4> HIDE DEF g
      <4>8. g[IF kids[s].first = t THEN id ELSE kids[s].first] < g[s] BY <4>1, <4>2, <4>4, <4>7
      <4>9. g[IF kids[s].second = t THEN id ELSE kids[s].second] < g[s] BY <4>1, <4>2, <4>4, <4>7
      <4> QED BY <1>1, <3>2, <4>8, <4>9
    <3> QED BY <1>1, <3>1, <3>2
  <2> HIDE DEF g, G
  <2>7. Lower(K, G, g) BY <2>5, <2>6 DEF Lower
  <2> QED BY <2>4, <2>5, <2>7
<1> QED BY <1>5, <1>6, <1>7, <1>8, <1>9 DEF Forest, K

\* After a splice the tree shows np as well.
LEMMA SplicedRooted ==
    ASSUME NEW kids, NEW root, NEW L, NEW t, NEW np, NEW id, NEW par,
           Splices(kids, root, L, t, np, id, par)
    PROVE  Rooted(SplicedKids(kids, t, id, par), IF root = t THEN id ELSE root, L \cup {np})
<1> DEFINE K == SplicedKids(kids, t, id, par)
           top == IF root = t THEN id ELSE root
<1>1. IsSplice(K, kids, t, np, id, par) BY SplicedIs
<1>2. /\ Above(K, id) = Above(kids, t) /\ Above(K, t) = {id} /\ Above(K, np) = {id}
      /\ \A x : x \notin {id, t, np} => Above(K, x) = Above(kids, x)
  BY SplicedAbove
<1>3. Forest(K) BY SplicedForest
<1> HIDE DEF K
<1>4. Rooted(kids, root, L) /\ np \notin L /\ id \notin DOMAIN kids /\ np \in Panes /\ t \in L \cup DOMAIN kids
    BY DEF Splices
<1>5. DOMAIN K = DOMAIN kids \cup {id} /\ K[id] = par /\ {par.first, par.second} = {t, np}
    BY <1>1 DEF IsSplice
<1>6. /\ IsFiniteSet(L \cup {np}) /\ IsFiniteSet(DOMAIN K)
      /\ Cardinality(L \cup {np}) = Cardinality(L) + 1 /\ Cardinality(DOMAIN K) = Cardinality(DOMAIN kids) + 1
  BY <1>4, <1>5, FS_AddElement DEF Rooted
<1>7. Cardinality(L \cup {np}) = Cardinality(DOMAIN K) + 1 BY <1>4, <1>6 DEF Rooted
<1>8. L \cup {np} \in SUBSET Panes BY <1>4 DEF Rooted
<1>9. top \in (L \cup {np}) \cup DOMAIN K BY <1>4, <1>5 DEF Rooted
<1>10. ASSUME NEW s \in DOMAIN K
       PROVE  K[s].first \in (L \cup {np}) \cup DOMAIN K /\ K[s].second \in (L \cup {np}) \cup DOMAIN K
  <2>1. CASE s = id BY <1>4, <1>5, <2>1
  <2>2. CASE s \in DOMAIN kids
    <3>1. /\ K[s].first = IF kids[s].first = t THEN id ELSE kids[s].first
          /\ K[s].second = IF kids[s].second = t THEN id ELSE kids[s].second
              BY <1>1, <2>2 DEF IsSplice, Renames
    <3>2. kids[s].first \in L \cup DOMAIN kids /\ kids[s].second \in L \cup DOMAIN kids
        BY <1>4, <2>2 DEF Rooted
    <3> QED BY <1>5, <3>1, <3>2
  <2> QED BY <1>5, <2>1, <2>2
<1>11. ASSUME NEW n \in (L \cup {np}) \cup DOMAIN K
       PROVE  n = top <=> Above(K, n) = {}
  <2>0. t # np /\ t # id /\ np # id /\ id \notin L /\ np \notin DOMAIN kids /\ id \notin DOMAIN kids
    <3>1. Panes \cap Splits = {} /\ DOMAIN kids \subseteq Splits /\ L \subseteq Panes
        BY <1>4, NamesApart DEF Rooted, Forest
    <3> QED BY <1>1, <1>4, <3>1 DEF IsSplice, Nodes, Splices
  <2>00. \A x \in L \cup DOMAIN kids : x = root <=> Above(kids, x) = {} BY <1>4 DEF Rooted
  <2>000. root \in L \cup DOMAIN kids BY <1>4 DEF Rooted
  <2>1. CASE n = id
    <3>1. n = top <=> root = t BY <2>0, <2>000, <2>1, <1>4
    <3> QED BY <1>2, <1>4, <2>1, <2>00, <3>1
  <2>2. CASE n = t BY <1>2, <2>0, <2>2
  <2>3. CASE n = np
    <3>1. n # top BY <2>0, <2>000, <2>3, <1>4
    <3> QED BY <1>2, <2>3, <3>1
  <2>4. CASE n \notin {id, t, np}
    <3>1. n \in L \cup DOMAIN kids /\ Above(K, n) = Above(kids, n) BY <1>2, <1>5, <2>4
    <3>2. n = top <=> n = root BY <2>4
    <3> QED BY <2>00, <3>1, <3>2
  <2> QED BY <2>1, <2>2, <2>3, <2>4
<1> HIDE DEF top
<1>12. Rooted(K, top, L \cup {np}) BY <1>3, <1>6, <1>7, <1>8, <1>9, <1>10, <1>11 DEF Rooted
<1> QED BY <1>12 DEF K, top

\* Splits of one type and share split a box alike.
LEMMA SameSplit ==
    ASSUME NEW r, NEW s, r.type = s.type, r.percent = s.percent, NEW b
    PROVE  SplitBoxes(r, b) = SplitBoxes(s, b)
BY DEF SplitBoxes

\* A split gives the two halves of a box and leaves the rest where it was.
LEMMA SplicedPlaced ==
    ASSUME NEW kids, NEW root, NEW L, NEW t, NEW np, NEW id, NEW par, NEW box, NEW c,
           Splices(kids, root, L, t, np, id, par), Placed(kids, root, L, box, c)
    PROVE  Placed(SplicedKids(kids, t, id, par), IF root = t THEN id ELSE root, L \cup {np},
                  Redrawn(Plan(SplicedKids(kids, t, id, par), id, box[t]), box), c)
<1> DEFINE K == SplicedKids(kids, t, id, par)
           top == IF root = t THEN id ELSE root
           at(m) == IF m = id THEN box[t] ELSE box[m]
<1>1. IsSplice(K, kids, t, np, id, par) BY SplicedIs
<1>2. Above(K, np) = {id} BY SplicedAbove
<1>3. Rooted(K, top, L \cup {np}) BY SplicedRooted
<1>4. DOMAIN K = DOMAIN kids \cup {id} /\ K[id] = par /\ id \notin Nodes(kids) /\ np \in Nodes(kids)
  BY <1>1 DEF IsSplice
<1>40. Nodes(K) = Nodes(kids) \cup {id}
  <2> HIDE DEF K
  <2> QED BY <1>4 DEF Nodes
<1> HIDE DEF K
<1>5. Rooted(kids, root, L) /\ t \in L \cup DOMAIN kids /\ id \notin DOMAIN kids BY DEF Splices
<1>6. /\ DOMAIN box = L \cup DOMAIN kids /\ \A m \in L \cup DOMAIN kids : box[m] \in Boxes
      /\ box[root] = c /\ Halved(kids, box, DOMAIN kids) BY DEF Placed
<1>7. id \in Under(K, id) /\ np \in Under(K, id)
  <2>1. Forest(K) BY <1>3 DEF Rooted
  <2>2. id \in Under(K, id) BY <1>40, <2>1, UnderIs
  <2> QED BY <1>2, <1>40, <1>4, <2>1, <2>2, UnderIs
<1>8. L \cup DOMAIN kids \subseteq Nodes(kids) BY <1>5, RootedNodes
<1>9. at(top) = c BY <1>4, <1>5, <1>6, <1>8 DEF Rooted
<1>10. ASSUME NEW s \in DOMAIN K \ Under(K, id)
       PROVE  /\ at(K[s].first) = SplitBoxes(K[s], box[s])[1]
              /\ at(K[s].second) = SplitBoxes(K[s], box[s])[2]
  <2>1. s \in DOMAIN kids BY <1>4, <1>7
  <2>2. /\ K[s].first = IF kids[s].first = t THEN id ELSE kids[s].first
        /\ K[s].second = IF kids[s].second = t THEN id ELSE kids[s].second
        /\ K[s].type = kids[s].type /\ K[s].percent = kids[s].percent
            BY <1>1, <2>1 DEF IsSplice, Renames
  <2>3. SplitBoxes(K[s], box[s]) = SplitBoxes(kids[s], box[s]) BY <2>2, SameSplit
  <2>4. /\ box[kids[s].first] = SplitBoxes(kids[s], box[s])[1]
        /\ box[kids[s].second] = SplitBoxes(kids[s], box[s])[2] BY <1>6, <2>1 DEF Halved
  <2>5. kids[s].first # id /\ kids[s].second # id
    <3>1. kids[s].first \in L \cup DOMAIN kids /\ kids[s].second \in L \cup DOMAIN kids
        BY <1>5, <2>1 DEF Rooted
    <3> QED BY <1>4, <1>8, <3>1
  <2>6. at(K[s].first) = box[kids[s].first] /\ at(K[s].second) = box[kids[s].second] BY <2>2, <2>5
  <2> QED BY <2>3, <2>4, <2>6
<1>11. /\ id \in (L \cup {np}) \cup DOMAIN K /\ box[t] \in Boxes
       /\ ((L \cup {np}) \cup DOMAIN K) \ Under(K, id) \subseteq DOMAIN box
       /\ DOMAIN box \subseteq (L \cup {np}) \cup DOMAIN K
       /\ \A m \in DOMAIN box : box[m] \in Boxes
  BY <1>4, <1>5, <1>6, <1>7
<1> HIDE DEF top
<1>12. Around(K, top, L \cup {np}, id, box[t], box, c) BY <1>3, <1>9, <1>10, <1>11 DEF Around
<1>13. Placed(K, top, L \cup {np}, Redrawn(Plan(K, id, box[t]), box), c) BY <1>12, Grafted
<1> QED BY <1>13 DEF K, top

\* kids without par, and sib where it was.
RemovedKids(kids, par, sib) == Replaced([s \in DOMAIN kids \ {par} |-> kids[s]], par, sib)

\* The pane t may go, with its split par.
Removes(kids, root, L, t, par, sib) ==
    /\ Rooted(kids, root, L) /\ t \in L /\ par \in DOMAIN kids
    /\ {kids[par].first, kids[par].second} = {t, sib} /\ t # sib

\* K is kids without par.
IsRemoval(K, kids, L, t, par, sib) ==
    /\ DOMAIN K = DOMAIN kids \ {par} /\ K = [s \in DOMAIN K |-> K[s]]
    /\ \A s \in DOMAIN K :
         /\ K[s].type = kids[s].type /\ K[s].percent = kids[s].percent
         /\ K[s].first = IF kids[s].first = par THEN sib ELSE kids[s].first
         /\ K[s].second = IF kids[s].second = par THEN sib ELSE kids[s].second
         /\ K[s] = [type |-> kids[s].type, percent |-> kids[s].percent,
                    first |-> K[s].first, second |-> K[s].second]
    /\ sib \in (L \cup DOMAIN kids) \ {t, par} /\ t # par /\ t \notin DOMAIN kids
    /\ Above(kids, sib) = {par} /\ Above(kids, t) = {par} /\ par \notin Above(kids, par)
    /\ t \in {kids[par].first, kids[par].second} /\ sib \in {kids[par].first, kids[par].second}
    /\ \A x : x \notin {t, sib} => par \notin Above(kids, x)

\* A removal leaves out par, with sib where it was.
LEMMA RemovedIs ==
    ASSUME NEW kids, NEW root, NEW L, NEW t, NEW par, NEW sib, Removes(kids, root, L, t, par, sib)
    PROVE  IsRemoval(RemovedKids(kids, par, sib), kids, L, t, par, sib)
<1> DEFINE rest == [s \in DOMAIN kids \ {par} |-> kids[s]]
           K == RemovedKids(kids, par, sib)
<1>1. Forest(kids) /\ Rooted(kids, root, L) /\ t \in L /\ par \in DOMAIN kids BY DEF Removes, Rooted
<1>2. /\ kids[par].first \in Nodes(kids) /\ kids[par].second \in Nodes(kids)
      /\ par \in Above(kids, kids[par].first) /\ par \in Above(kids, kids[par].second)
      /\ kids[par].first # kids[par].second /\ par \in Nodes(kids) /\ par \notin Panes
  BY <1>1, Kid
<1>3. {kids[par].first, kids[par].second} = {t, sib} /\ t # sib BY DEF Removes
<1>4. par \in Above(kids, t) /\ par \in Above(kids, sib) /\ t \in Nodes(kids) /\ sib \in Nodes(kids)
    BY <1>2, <1>3
<1>5. Above(kids, t) = {par} /\ Above(kids, sib) = {par} BY <1>1, <1>4 DEF Forest
<1>6. par # kids[par].first /\ par # kids[par].second
  <2>1. kids[par].first \in Under(kids, kids[par].first) /\ kids[par].second \in Under(kids, kids[par].second)
    BY <1>1, <1>2, UnderIs
  <2> QED BY <1>1, <2>1, NoCircle
<1>7. par \notin Above(kids, par) BY <1>6 DEF Above
<1>8. sib \in (L \cup DOMAIN kids) \ {t, par} /\ t # par
  <2>1. sib \in L \cup DOMAIN kids BY <1>1, <1>3 DEF Rooted
  <2> QED BY <1>3, <1>6, <2>1
<1>9. t \notin DOMAIN kids BY <1>1, NamesApart DEF Rooted, Forest
<1>10. DOMAIN rest = DOMAIN kids \ {par} /\ \A s \in DOMAIN rest : rest[s] = kids[s] OBVIOUS
<1>11. \A s \in DOMAIN rest : rest[s] \in Halves(Nodes(kids)) BY <1>1, <1>10, Kid
<1>12. K = Replaced(rest, par, sib) BY DEF RemovedKids
<1> HIDE DEF rest, K
<1>13. Renames(K, rest, par, sib) BY <1>11, <1>12, ReplacedRenames
<1>14. DOMAIN K = DOMAIN kids \ {par} /\ K = [s \in DOMAIN K |-> K[s]] BY <1>10, <1>12 DEF Replaced
<1>15. \A s \in DOMAIN K :
         /\ K[s].type = kids[s].type /\ K[s].percent = kids[s].percent
         /\ K[s].first = IF kids[s].first = par THEN sib ELSE kids[s].first
         /\ K[s].second = IF kids[s].second = par THEN sib ELSE kids[s].second
         /\ K[s] = [type |-> kids[s].type, percent |-> kids[s].percent,
                    first |-> K[s].first, second |-> K[s].second]
  <2> TAKE s \in DOMAIN K
  <2>1. s \in DOMAIN rest /\ rest[s] = kids[s] BY <1>10, <1>14
  <2>2. /\ K[s].type = rest[s].type /\ K[s].percent = rest[s].percent
        /\ K[s].first = IF rest[s].first = par THEN sib ELSE rest[s].first
        /\ K[s].second = IF rest[s].second = par THEN sib ELSE rest[s].second
        /\ K[s] = [type |-> rest[s].type, percent |-> rest[s].percent,
                   first |-> K[s].first, second |-> K[s].second]
    BY <1>13, <2>1 DEF Renames
  <2> QED BY <2>1, <2>2
<1>16. t \in {kids[par].first, kids[par].second} /\ sib \in {kids[par].first, kids[par].second}
    BY <1>3
<1>17. \A x : x \notin {t, sib} => par \notin Above(kids, x) BY <1>3 DEF Above
<1>18. IsRemoval(K, kids, L, t, par, sib)
  BY <1>5, <1>7, <1>8, <1>9, <1>14, <1>15, <1>16, <1>17 DEF IsRemoval
<1> QED BY <1>18 DEF K

\* After a removal sib has par's parent, and t has none.
LEMMA RemovedAbove ==
    ASSUME NEW kids, NEW root, NEW L, NEW t, NEW par, NEW sib, Removes(kids, root, L, t, par, sib)
    PROVE  LET K == RemovedKids(kids, par, sib) IN
           /\ Above(K, sib) = Above(kids, par) /\ Above(K, t) = {} /\ Above(K, par) = {}
           /\ \A x : x \notin {t, sib, par} => Above(K, x) = Above(kids, x)
<1> DEFINE K == RemovedKids(kids, par, sib)
<1>0. IsRemoval(K, kids, L, t, par, sib) BY RemovedIs
<1> HIDE DEF K
<1>1. /\ DOMAIN K = DOMAIN kids \ {par}
      /\ \A s \in DOMAIN K : /\ K[s].first = IF kids[s].first = par THEN sib ELSE kids[s].first
                            /\ K[s].second = IF kids[s].second = par THEN sib ELSE kids[s].second
      /\ sib # t /\ sib # par /\ t # par
      /\ Above(kids, sib) = {par} /\ Above(kids, t) = {par} /\ par \notin Above(kids, par)
      /\ \A x : x \notin {t, sib} => par \notin Above(kids, x)
  BY <1>0 DEF IsRemoval
<1>2. \A s \in DOMAIN K : \A x : s \in Above(K, x) <=> x = K[s].first \/ x = K[s].second
    BY DEF Above
<1>3. \A s \in DOMAIN kids : \A x : s \in Above(kids, x) <=> x = kids[s].first \/ x = kids[s].second
    BY DEF Above
<1>4. \A x : Above(K, x) \subseteq DOMAIN K /\ Above(kids, x) \subseteq DOMAIN kids BY DEF Above
<1>5. \A s \in DOMAIN K : s \in DOMAIN kids /\ s # par BY <1>1
<1>6. \A s \in DOMAIN K : /\ kids[s].first # sib /\ kids[s].second # sib /\ kids[s].first # t /\ kids[s].second # t
  BY <1>1, <1>3, <1>5
<1>7. Above(K, sib) = Above(kids, par)
  <2>1. \A s \in DOMAIN K : s \in Above(K, sib) <=> s \in Above(kids, par)
    <3> TAKE s \in DOMAIN K
    <3>1. s \in Above(K, sib) <=> sib = K[s].first \/ sib = K[s].second BY <1>2
    <3>2. s \in Above(kids, par) <=> par = kids[s].first \/ par = kids[s].second BY <1>3, <1>5
    <3> QED BY <1>1, <1>6, <3>1, <3>2
  <2>2. \A s \in Above(kids, par) : s \in DOMAIN K BY <1>1, <1>4
  <2> QED BY <1>4, <2>1, <2>2
<1>8. Above(K, t) = {}
  <2>1. \A s \in DOMAIN K : K[s].first # t /\ K[s].second # t BY <1>1, <1>6
  <2> QED BY <1>2, <1>4, <2>1
<1>9. Above(K, par) = {}
  <2>1. \A s \in DOMAIN K : K[s].first # par /\ K[s].second # par BY <1>1
  <2> QED BY <1>2, <1>4, <2>1
<1>10. \A x : x \notin {t, sib, par} => Above(K, x) = Above(kids, x)
  <2> TAKE x
  <2> HAVE x \notin {t, sib, par}
  <2>1. \A s \in DOMAIN K : s \in Above(K, x) <=> s \in Above(kids, x)
    <3> TAKE s \in DOMAIN K
    <3>1. s \in Above(K, x) <=> x = K[s].first \/ x = K[s].second BY <1>2
    <3>2. s \in Above(kids, x) <=> x = kids[s].first \/ x = kids[s].second BY <1>3, <1>5
    <3> QED BY <1>1, <3>1, <3>2
  <2>2. par \notin Above(kids, x) BY <1>1
  <2> QED BY <1>1, <1>4, <2>1, <2>2
<1> QED BY <1>7, <1>8, <1>9, <1>10 DEF K

\* A removal makes no circle and gives no node a second parent.
LEMMA RemovedForest ==
    ASSUME NEW kids, NEW root, NEW L, NEW t, NEW par, NEW sib, Removes(kids, root, L, t, par, sib)
    PROVE  Forest(RemovedKids(kids, par, sib))
<1> DEFINE K == RemovedKids(kids, par, sib)
<1>0. IsRemoval(K, kids, L, t, par, sib) BY RemovedIs
<1>1. /\ Above(K, sib) = Above(kids, par) /\ Above(K, t) = {} /\ Above(K, par) = {}
      /\ \A x : x \notin {t, sib, par} => Above(K, x) = Above(kids, x) BY RemovedAbove
<1> HIDE DEF K
<1>2. Forest(kids) /\ par \in DOMAIN kids /\ Rooted(kids, root, L) BY DEF Removes, Rooted
<1>3. /\ DOMAIN K = DOMAIN kids \ {par} /\ K = [s \in DOMAIN K |-> K[s]] /\ sib # par
      /\ sib \in L \cup DOMAIN kids BY <1>0 DEF IsRemoval
<1>4. Nodes(K) = Nodes(kids) \ {par} /\ par \notin Panes /\ sib \in Nodes(K)
  <2>1. par \notin Panes BY <1>2, Kid
  <2>2. sib \in Nodes(kids) BY <1>2, <1>3, RootedNodes
  <2> QED BY <1>3, <2>1, <2>2 DEF Nodes
<1>5. DOMAIN K \subseteq Splits BY <1>2, <1>3 DEF Forest
<1>6. ASSUME NEW s \in DOMAIN K
      PROVE  /\ kids[s].first \in Nodes(kids) /\ kids[s].second \in Nodes(kids) /\ kids[s].first # kids[s].second
             /\ kids[s].type \in Types /\ kids[s].percent \in Percents
             /\ kids[s].first # sib /\ kids[s].second # sib
             /\ K[s].first = IF kids[s].first = par THEN sib ELSE kids[s].first
             /\ K[s].second = IF kids[s].second = par THEN sib ELSE kids[s].second
             /\ K[s] = [type |-> kids[s].type, percent |-> kids[s].percent, first |-> K[s].first, second |-> K[s].second]
  <2>1. s \in DOMAIN kids /\ s # par BY <1>3
  <2>2. s \in Above(kids, kids[s].first) /\ s \in Above(kids, kids[s].second) BY <1>2, <2>1, Kid
  <2>3. kids[s].first # sib /\ kids[s].second # sib BY <1>0, <2>1, <2>2 DEF IsRemoval
  <2>4. /\ K[s].first = IF kids[s].first = par THEN sib ELSE kids[s].first
        /\ K[s].second = IF kids[s].second = par THEN sib ELSE kids[s].second
        /\ K[s] = [type |-> kids[s].type, percent |-> kids[s].percent, first |-> K[s].first, second |-> K[s].second]
    BY <1>0 DEF IsRemoval
  <2> QED BY <1>2, <2>1, <2>3, <2>4, Kid
<1>7. ASSUME NEW s \in DOMAIN K PROVE K[s] \in Halves(Nodes(K)) /\ K[s].first # K[s].second
  <2>1. K[s].first \in Nodes(K) /\ K[s].second \in Nodes(K) /\ K[s].first # K[s].second
      BY <1>4, <1>6
  <2> QED BY <1>6, <2>1 DEF Halves
<1>8. K \in [DOMAIN K -> Halves(Nodes(K))] BY <1>3, <1>7
<1>9. ASSUME NEW n \in Nodes(K), NEW r \in Above(K, n), NEW s \in Above(K, n) PROVE r = s
  <2>1. \A m \in Nodes(kids) : \A p, q \in Above(kids, m) : p = q BY <1>2 DEF Forest
  <2>2. par \in Nodes(kids) BY <1>2, Kid
  <2>3. CASE n = sib BY <1>1, <1>9, <2>1, <2>2, <2>3
  <2>4. CASE n \in {t, par} BY <1>1, <1>9, <2>4
  <2>5. CASE n \notin {t, sib, par} BY <1>1, <1>4, <1>9, <2>1, <2>5
  <2> QED BY <2>3, <2>4, <2>5
<1>10. \E H \in Nat : \E h \in [Nodes(K) -> 0 .. H] : Lower(K, H, h)
  <2>0. PICK H \in Nat : \E h \in [Nodes(kids) -> 0 .. H] : Lower(kids, H, h) BY <1>2 DEF Forest
  <2>1. PICK h \in [Nodes(kids) -> 0 .. H] : Lower(kids, H, h) BY <2>0
  <2> DEFINE g == [n \in Nodes(K) |-> h[n]]
  <2>2. g \in [Nodes(K) -> 0 .. H] BY <1>4
  <2>3. \A n \in Nodes(kids) : h[n] \in Int OBVIOUS
  <2>4. ASSUME NEW s \in DOMAIN K PROVE g[K[s].first] < g[s] /\ g[K[s].second] < g[s]
    <3>1. s \in DOMAIN kids /\ s \in Nodes(K) /\ s \in Nodes(kids) /\ s # par
        BY <1>2, <1>3, <1>4, Kid
    <3>2. h[kids[s].first] < h[s] /\ h[kids[s].second] < h[s] BY <2>1, <3>1 DEF Lower
    <3>3. h[sib] < h[par]
      <4>1. h[kids[par].first] < h[par] /\ h[kids[par].second] < h[par] BY <1>2, <2>1 DEF Lower
      <4> QED BY <1>0, <4>1 DEF IsRemoval
    <3>4. h[sib] \in Int /\ h[par] \in Int /\ h[s] \in Int BY <1>2, <1>4, <2>3, <3>1, Kid
    <3>5. \A n \in Nodes(K) : g[n] = h[n] OBVIOUS
    <3> HIDE DEF g
    <3>6. K[s].first \in Nodes(K) /\ K[s].second \in Nodes(K) BY <1>4, <1>6
    <3>7. h[K[s].first] < h[s]
      <4>1. CASE kids[s].first = par BY <1>6, <3>2, <3>3, <3>4, <4>1
      <4>2. CASE kids[s].first # par BY <1>6, <3>2, <4>2
      <4> QED BY <4>1, <4>2
    <3>8. h[K[s].second] < h[s]
      <4>1. CASE kids[s].second = par BY <1>6, <3>2, <3>3, <3>4, <4>1
      <4>2. CASE kids[s].second # par BY <1>6, <3>2, <4>2
      <4> QED BY <4>1, <4>2
    <3> QED BY <3>1, <3>5, <3>6, <3>7, <3>8
  <2> HIDE DEF g
  <2>5. Lower(K, H, g) BY <2>2, <2>4 DEF Lower
  <2> QED BY <2>2, <2>5
<1> QED BY <1>5, <1>7, <1>8, <1>9, <1>10 DEF Forest, K

\* After a removal the tree shows t no more.
LEMMA RemovedRooted ==
    ASSUME NEW kids, NEW root, NEW L, NEW t, NEW par, NEW sib, Removes(kids, root, L, t, par, sib)
    PROVE  Rooted(RemovedKids(kids, par, sib), IF root = par THEN sib ELSE root, L \ {t})
<1> DEFINE K == RemovedKids(kids, par, sib)
           top == IF root = par THEN sib ELSE root
           N == (L \ {t}) \cup DOMAIN K
<1>0. IsRemoval(K, kids, L, t, par, sib) BY RemovedIs
<1>1. /\ Above(K, sib) = Above(kids, par) /\ Above(K, t) = {} /\ Above(K, par) = {}
      /\ \A x : x \notin {t, sib, par} => Above(K, x) = Above(kids, x) BY RemovedAbove
<1>2. Forest(K) BY RemovedForest
<1> HIDE DEF K
<1>3. /\ Rooted(kids, root, L) /\ t \in L /\ par \in DOMAIN kids
      /\ L \in SUBSET Panes /\ IsFiniteSet(L) /\ IsFiniteSet(DOMAIN kids)
      /\ Cardinality(L) = Cardinality(DOMAIN kids) + 1 /\ root \in L \cup DOMAIN kids
          BY DEF Removes, Rooted
<1>4. /\ DOMAIN K = DOMAIN kids \ {par} /\ sib \in (L \cup DOMAIN kids) \ {t, par}
      /\ Above(kids, sib) = {par} /\ Above(kids, t) = {par} /\ t # par /\ t \notin DOMAIN kids
          BY <1>0 DEF IsRemoval
<1>5. \A x \in L \cup DOMAIN kids : x = root <=> Above(kids, x) = {} BY <1>3 DEF Rooted
<1>6. par \notin L
  <2>1. par \notin Panes BY <1>3, Kid DEF Rooted
  <2> QED BY <1>3, <2>1
<1>7. N = (L \cup DOMAIN kids) \ {t, par} BY <1>4, <1>6
<1>8. IsFiniteSet(L \ {t}) /\ IsFiniteSet(DOMAIN K) /\ Cardinality(L \ {t}) = Cardinality(DOMAIN K) + 1
  <2>1. /\ IsFiniteSet(L \ {t}) /\ Cardinality(L \ {t}) = Cardinality(L) - 1
      BY <1>3, FS_RemoveElement
  <2>2. /\ IsFiniteSet(DOMAIN K) /\ Cardinality(DOMAIN K) = Cardinality(DOMAIN kids) - 1
      BY <1>3, <1>4, FS_RemoveElement
  <2>3. Cardinality(DOMAIN kids) \in Nat BY <1>3, FS_CardinalityType
  <2> QED BY <1>3, <2>1, <2>2, <2>3
<1>9. root # t /\ root # sib BY <1>3, <1>4, <1>5
<1>10. top \in N BY <1>3, <1>4, <1>7, <1>9
<1>11. ASSUME NEW s \in DOMAIN K PROVE K[s].first \in N /\ K[s].second \in N
  <2>1. s \in DOMAIN kids /\ s # par BY <1>4
  <2>2. /\ kids[s].first \in L \cup DOMAIN kids /\ kids[s].second \in L \cup DOMAIN kids
      BY <1>3, <2>1 DEF Rooted
  <2>3. kids[s].first # t /\ kids[s].second # t
    <3>1. s \notin Above(kids, t) BY <1>4, <2>1
    <3> QED BY <2>1, <3>1 DEF Above
  <2>4. /\ K[s].first = IF kids[s].first = par THEN sib ELSE kids[s].first
        /\ K[s].second = IF kids[s].second = par THEN sib ELSE kids[s].second BY <1>0 DEF IsRemoval
  <2> HIDE DEF N
  <2> QED BY <1>4, <1>7, <2>2, <2>3, <2>4
<1>12. ASSUME NEW n \in N PROVE n = top <=> Above(K, n) = {}
  <2>1. n \in L \cup DOMAIN kids /\ n # t /\ n # par BY <1>7
  <2>2. CASE n = sib
    <3>1. n = top <=> root = par BY <1>9, <2>2
    <3>2. par = root <=> Above(kids, par) = {} BY <1>3, <1>5
    <3> QED BY <1>1, <2>2, <3>1, <3>2
  <2>3. CASE n # sib
    <3>1. n = top <=> n = root BY <2>1, <2>3
    <3> QED BY <1>1, <1>5, <2>1, <2>3, <3>1
  <2> QED BY <2>2, <2>3
<1>13. L \ {t} \in SUBSET Panes BY <1>3
<1> HIDE DEF top
<1>14. Rooted(K, top, L \ {t}) BY <1>2, <1>8, <1>10, <1>11, <1>12, <1>13 DEF Rooted
<1> QED BY <1>14 DEF K, top

\* The sibling inherits the parent's box, and the rest stays where it was.
LEMMA RemovedPlaced ==
    ASSUME NEW kids, NEW root, NEW L, NEW t, NEW par, NEW sib, NEW box, NEW c,
           Removes(kids, root, L, t, par, sib), Placed(kids, root, L, box, c)
    PROVE  Placed(RemovedKids(kids, par, sib), IF root = par THEN sib ELSE root, L \ {t},
                  Redrawn(Plan(RemovedKids(kids, par, sib), sib, box[par]),
                          [n \in DOMAIN box \ {par, t} |-> box[n]]), c)
<1> DEFINE K == RemovedKids(kids, par, sib)
           top == IF root = par THEN sib ELSE root
           box0 == [n \in DOMAIN box \ {par, t} |-> box[n]]
           at(m) == IF m = sib THEN box[par] ELSE box0[m]
<1>0. IsRemoval(K, kids, L, t, par, sib) BY RemovedIs
<1>1. Rooted(K, top, L \ {t}) BY RemovedRooted
<1> HIDE DEF K
<1>2. /\ Rooted(kids, root, L) /\ Forest(kids) /\ t \in L /\ par \in DOMAIN kids /\ root \in L \cup DOMAIN kids
      /\ L \in SUBSET Panes BY DEF Removes, Rooted
<1>3. /\ DOMAIN K = DOMAIN kids \ {par} /\ sib \in (L \cup DOMAIN kids) \ {t, par}
      /\ Above(kids, sib) = {par} /\ Above(kids, t) = {par} /\ t # par /\ t \notin DOMAIN kids
          BY <1>0 DEF IsRemoval
<1>4. par \notin L
  <2>1. par \notin Panes BY <1>2, Kid
  <2> QED BY <1>2, <2>1
<1>5. /\ DOMAIN box = L \cup DOMAIN kids /\ \A m \in L \cup DOMAIN kids : box[m] \in Boxes
      /\ box[root] = c /\ Halved(kids, box, DOMAIN kids) BY DEF Placed
<1>6. DOMAIN box0 = (L \ {t}) \cup DOMAIN K BY <1>3, <1>4, <1>5
<1>7. \A m \in DOMAIN box0 : box0[m] = box[m] /\ box0[m] \in Boxes BY <1>5
<1>8. root # t /\ root # sib BY <1>2, <1>3, RootedNodes
<1>9. at(top) = c BY <1>2, <1>3, <1>5, <1>8
<1>10. ASSUME NEW s \in DOMAIN K \ Under(K, sib)
       PROVE  /\ at(K[s].first) = SplitBoxes(K[s], box0[s])[1]
              /\ at(K[s].second) = SplitBoxes(K[s], box0[s])[2]
  <2>1. s \in DOMAIN kids /\ s # par BY <1>3
  <2>2. /\ K[s].first = IF kids[s].first = par THEN sib ELSE kids[s].first
        /\ K[s].second = IF kids[s].second = par THEN sib ELSE kids[s].second
        /\ K[s].type = kids[s].type /\ K[s].percent = kids[s].percent BY <1>0 DEF IsRemoval
  <2>3. SplitBoxes(K[s], box[s]) = SplitBoxes(kids[s], box[s]) BY <2>2, SameSplit
  <2>4. /\ box[kids[s].first] = SplitBoxes(kids[s], box[s])[1]
        /\ box[kids[s].second] = SplitBoxes(kids[s], box[s])[2] BY <1>5, <2>1 DEF Halved
  <2>5. box0[s] = box[s] BY <1>6, <1>7
  <2>6. kids[s].first \notin {t, sib} /\ kids[s].second \notin {t, sib}
    <3>1. s \notin Above(kids, t) /\ s \notin Above(kids, sib) BY <1>3, <2>1
    <3> QED BY <2>1, <3>1 DEF Above
  <2>7. kids[s].first \in L \cup DOMAIN kids /\ kids[s].second \in L \cup DOMAIN kids
      BY <1>2, <2>1 DEF Rooted
  <2>8. \A m \in L \cup DOMAIN kids : m \notin {t, sib} => at(IF m = par THEN sib ELSE m) = box[m]
    <3> TAKE m \in L \cup DOMAIN kids
    <3> HAVE m \notin {t, sib}
    <3>1. CASE m = par BY <3>1
    <3>2. CASE m # par
      <4>1. m \in DOMAIN box0 BY <1>3, <1>6, <3>2
      <4>2. box0[m] = box[m] BY <1>7, <4>1
      <4> QED BY <3>2, <4>2
    <3> QED BY <3>1, <3>2
  <2> HIDE DEF at, box0
  <2>9. at(K[s].first) = box[kids[s].first] /\ at(K[s].second) = box[kids[s].second]
      BY <2>2, <2>6, <2>7, <2>8
  <2> QED BY <2>3, <2>4, <2>5, <2>9
<1>11. sib \in (L \ {t}) \cup DOMAIN K /\ box[par] \in Boxes BY <1>2, <1>3, <1>5
<1> HIDE DEF top, box0
<1>12. Around(K, top, L \ {t}, sib, box[par], box0, c)
    BY <1>1, <1>6, <1>7, <1>9, <1>10, <1>11 DEF Around
<1>13. Placed(K, top, L \ {t}, Redrawn(Plan(K, sib, box[par]), box0), c) BY <1>12, Grafted
<1> QED BY <1>13 DEF K, top, box0

\* A tree that shows the panes in L in the box c, or is not there and shows none.
Shows(t, L, c) ==
    /\ t = [root |-> t.root, kids |-> t.kids, box |-> t.box] /\ c \in Boxes
    /\ IF t.root = Nil THEN t = [root |-> Nil, kids |-> <<>>, box |-> <<>>] /\ L = {}
       ELSE Rooted(t.kids, t.root, L) /\ Placed(t.kids, t.root, L, t.box, c)

\* Panes without a split are a forest.
LEMMA NoHalves ==
    /\ DOMAIN <<>> = {} /\ \A n : Above(<<>>, n) = {}
    /\ Forest(<<>>) /\ Nodes(<<>>) = Panes
<1>1. DOMAIN <<>> = {} OBVIOUS
<1>2. \A n : Above(<<>>, n) = {} BY <1>1 DEF Above
<1>3. Nodes(<<>>) = Panes BY <1>1 DEF Nodes
<1>4. <<>> \in [DOMAIN <<>> -> Halves(Nodes(<<>>))] BY <1>1
<1>5. \E H \in Nat : \E h \in [Nodes(<<>>) -> 0 .. H] : Lower(<<>>, H, h)
  <2>1. [n \in Nodes(<<>>) |-> 0] \in [Nodes(<<>>) -> 0 .. 0] OBVIOUS
  <2>2. Lower(<<>>, 0, [n \in Nodes(<<>>) |-> 0]) BY <1>1, <2>1 DEF Lower
  <2> QED BY <2>1, <2>2
<1>6. Forest(<<>>) BY <1>1, <1>2, <1>4, <1>5 DEF Forest
<1> QED BY <1>1, <1>2, <1>3, <1>6

\* A pane by itself is a tree.
LEMMA OneLeaf ==
    ASSUME NEW p \in Panes
    PROVE  Rooted(<<>>, p, {p})
<1>1. IsFiniteSet({p}) /\ Cardinality({p}) = 1 /\ IsFiniteSet(DOMAIN <<>>) /\ Cardinality(DOMAIN <<>>) = 0
  BY NoHalves, FS_Singleton, FS_EmptySet
<1> QED BY <1>1, NoHalves DEF Rooted

\* What the root is given is a box.
LEMMA CanvasIsBox ==
    ASSUME NEW s, s.status \in BOOLEAN, NEW size \in Sizes
    PROVE  Canvas(s, size) \in Boxes
<1>1. size[1] \in Nat /\ size[2] \in Nat BY DEF Sizes
<1>2. Above0(size[1] - (IF s.status THEN 1 ELSE 0)) \in Int BY <1>1 DEF Above0
<1> QED BY <1>1, <1>2 DEF Canvas, Box, Boxes

\* A layout from scratch is in place.
LEMMA ReflowedShows ==
    ASSUME NEW t, NEW L, NEW s, s.status \in BOOLEAN, s.size \in Sizes,
           t = [root |-> t.root, kids |-> t.kids, box |-> t.box], t.root # Nil, Rooted(t.kids, t.root, L)
    PROVE  /\ Shows(Reflowed(t, s), L, Canvas(s, s.size))
           /\ Reflowed(t, s).kids = t.kids /\ Reflowed(t, s).root = t.root
<1> DEFINE c == Canvas(s, s.size)
           P == Plan(t.kids, t.root, c)
<1>1. c \in Boxes BY CanvasIsBox
<1>2. Reflowed(t, s) = [root |-> t.root, kids |-> t.kids, box |-> P] BY DEF Reflowed
<1>3. Forest(t.kids) /\ t.root \in Nodes(t.kids) BY RootedNodes DEF Rooted
<1>4. Under(t.kids, t.root) = L \cup DOMAIN t.kids BY UnderRoot
<1> HIDE DEF c
<1>5. P \in [L \cup DOMAIN t.kids -> Boxes] /\ P[t.root] = c /\ Halved(t.kids, P, L \cup DOMAIN t.kids)
  <2>1. P \in [Under(t.kids, t.root) -> Boxes] /\ P[t.root] = c /\ Halved(t.kids, P, Under(t.kids, t.root))
    BY <1>1, <1>3, PlanIs
  <2> HIDE DEF P
  <2> QED BY <1>4, <2>1
<1> HIDE DEF P
<1>6. Halved(t.kids, P, DOMAIN t.kids) BY <1>5 DEF Halved
<1>7. Placed(t.kids, t.root, L, P, c) BY <1>5, <1>6 DEF Placed
<1> DEFINE r == Reflowed(t, s)
<1>8. r.root = t.root /\ r.kids = t.kids /\ r.box = P /\ r = [root |-> r.root, kids |-> r.kids, box |-> r.box]
  BY <1>2
<1> HIDE DEF r
<1>9. Shows(r, L, c) BY <1>1, <1>7, <1>8 DEF Shows
<1> QED BY <1>8, <1>9 DEF r, c

\* ... wherever it was before.
LEMMA ReflowKeeps ==
    ASSUME NEW t, NEW L, NEW c, NEW s, s.status \in BOOLEAN, s.size \in Sizes, Shows(t, L, c)
    PROVE  /\ Shows(Reflowed(t, s), L, Canvas(s, s.size))
           /\ Reflowed(t, s).kids = t.kids /\ Reflowed(t, s).root = t.root
<1>1. CASE t.root = Nil
  <2>1. Reflowed(t, s) = t BY <1>1 DEF Reflowed
  <2> QED BY <1>1, <2>1, CanvasIsBox DEF Shows
<1>2. CASE t.root # Nil
  <2>1. t = [root |-> t.root, kids |-> t.kids, box |-> t.box] /\ Rooted(t.kids, t.root, L)
      BY <1>2 DEF Shows
  <2> QED BY <1>2, <2>1, ReflowedShows
<1> QED BY <1>1, <1>2

\* There is a name left for a split.
LEMMA FreshSplit ==
    ASSUME NEW kids, NEW root, NEW L, Rooted(kids, root, L), NEW np \in Panes, np \notin L, NEW x
    PROVE  \E id \in Splits \ {x} : id \notin DOMAIN kids
<1>1. IsFiniteSet(Openers) /\ IsFiniteSet(Splits) /\ Cardinality(Openers) + 2 <= Cardinality(Splits)
    BY PaneTreeBounds
<1>2. Cardinality(Openers) \in Nat /\ Cardinality(Splits) \in Nat BY <1>1, FS_CardinalityType
<1>3. IsFiniteSet(Panes) /\ Cardinality(Panes) <= Cardinality(Openers) + 2
  <2>1. IsFiniteSet(Openers \cup {Session}) /\ Cardinality(Openers \cup {Session}) <= Cardinality(Openers) + 1
    <3>1. /\ IsFiniteSet(Openers \cup {Session})
          /\ Cardinality(Openers \cup {Session}) =
               IF Session \in Openers THEN Cardinality(Openers) ELSE Cardinality(Openers) + 1
      BY <1>1, FS_AddElement
    <3> QED BY <1>2, <3>1
  <2>2. Cardinality(Openers \cup {Session}) \in Nat BY <2>1, FS_CardinalityType
  <2>3. IsFiniteSet((Openers \cup {Session}) \cup {Panel}) /\
        Cardinality((Openers \cup {Session}) \cup {Panel}) <= Cardinality(Openers \cup {Session}) + 1
    <3>1. /\ IsFiniteSet((Openers \cup {Session}) \cup {Panel})
          /\ Cardinality((Openers \cup {Session}) \cup {Panel}) =
               IF Panel \in Openers \cup {Session} THEN Cardinality(Openers \cup {Session})
               ELSE Cardinality(Openers \cup {Session}) + 1
      BY <2>1, FS_AddElement
    <3> QED BY <2>2, <3>1
  <2>4. Panes = (Openers \cup {Session}) \cup {Panel} BY DEF Panes
  <2>5. Cardinality(Panes) \in Nat BY <2>3, <2>4, FS_CardinalityType
  <2> QED BY <1>2, <2>1, <2>2, <2>3, <2>4, <2>5
<1>4. /\ IsFiniteSet(L) /\ IsFiniteSet(DOMAIN kids) /\ Cardinality(L) = Cardinality(DOMAIN kids) + 1
      /\ L \subseteq Panes \ {np} BY DEF Rooted
<1>5. IsFiniteSet(Panes \ {np}) /\ Cardinality(Panes \ {np}) = Cardinality(Panes) - 1
    BY <1>3, FS_RemoveElement
<1>6. Cardinality(L) <= Cardinality(Panes \ {np}) BY <1>4, <1>5, FS_Subset
<1>7. IsFiniteSet(Splits \ {x}) /\ Cardinality(Splits \ {x}) >= Cardinality(Splits) - 1
  <2>1. /\ IsFiniteSet(Splits \ {x})
        /\ Cardinality(Splits \ {x}) = IF x \in Splits THEN Cardinality(Splits) - 1 ELSE Cardinality(Splits)
    BY <1>1, FS_RemoveElement
  <2> QED BY <1>2, <2>1
<1>8. /\ Cardinality(Panes) \in Nat /\ Cardinality(DOMAIN kids) \in Nat /\ Cardinality(L) \in Nat
      /\ Cardinality(Splits \ {x}) \in Nat BY <1>3, <1>4, <1>7, FS_CardinalityType
<1>9. Cardinality(DOMAIN kids) < Cardinality(Splits \ {x})
    BY <1>1, <1>2, <1>3, <1>4, <1>5, <1>6, <1>7, <1>8
<1>10. ~ (Splits \ {x} \subseteq DOMAIN kids)
  <2> SUFFICES ASSUME Splits \ {x} \in SUBSET DOMAIN kids PROVE FALSE OBVIOUS
  <2>1. Cardinality(Splits \ {x}) <= Cardinality(DOMAIN kids) BY <1>4, FS_Subset
  <2> QED BY <1>8, <1>9, <2>1
<1> QED BY <1>10

\* splitNodeLocked: np beside t, and all else as it was.
LEMMA SplicedShows ==
    ASSUME NEW L, NEW c, Shows(tree, L, c), tree.root # Nil, NEW t \in L \cup DOMAIN tree.kids,
           NEW np \in Panes, np \notin L,
           NEW node, node.type \in Types, node.percent \in Percents, NEW npFirst \in BOOLEAN
    PROVE  Shows(Spliced(t, np, node, npFirst), L \cup {np}, c)
<1> DEFINE id == CHOOSE s \in Splits \ {anchor.node} : s \notin DOMAIN tree.kids
           par == [type |-> node.type, percent |-> node.percent,
                   first |-> IF npFirst THEN np ELSE t, second |-> IF npFirst THEN t ELSE np]
           K == SplicedKids(tree.kids, t, id, par)
           top == IF tree.root = t THEN id ELSE tree.root
           B == Redrawn(Plan(K, id, tree.box[t]), tree.box)
           r == Spliced(t, np, node, npFirst)
<1>1. Rooted(tree.kids, tree.root, L) /\ Placed(tree.kids, tree.root, L, tree.box, c) /\ c \in Boxes
    BY DEF Shows
<1>2. id \in Splits /\ id \notin DOMAIN tree.kids
  <2>1. \E s \in Splits \ {anchor.node} : s \notin DOMAIN tree.kids BY <1>1, FreshSplit
  <2> QED BY <2>1
<1>3. r = [root |-> top, kids |-> K, box |-> B] BY DEF Spliced, SplicedKids
<1> HIDE DEF id
<1>4. np # t
  <2>1. np \notin DOMAIN tree.kids BY <1>1, NamesApart DEF Rooted, Forest
  <2> QED BY <2>1
<1>5. par \in Halves({t, np}) /\ par.first # par.second BY <1>4 DEF Halves
<1> HIDE DEF par
<1>6. Splices(tree.kids, tree.root, L, t, np, id, par) BY <1>1, <1>2, <1>5 DEF Splices
<1>7. Rooted(K, top, L \cup {np}) BY <1>6, SplicedRooted
<1>8. Placed(K, top, L \cup {np}, B, c) BY <1>1, <1>6, SplicedPlaced
<1>9. top # Nil BY <1>2, NamesApart DEF Shows
<1> HIDE DEF K, top, B
<1>10. r.root = top /\ r.kids = K /\ r.box = B /\ r = [root |-> r.root, kids |-> r.kids, box |-> r.box]
    BY <1>3
<1> HIDE DEF r
<1>11. Shows(r, L \cup {np}, c) BY <1>1, <1>7, <1>8, <1>9, <1>10 DEF Shows
<1> QED BY <1>11 DEF r

\* A pane that has a parent is on screen, and can be removed from it.
LEMMA ParentIs ==
    ASSUME NEW L, NEW c, Shows(tree, L, c), NEW p \in Panes, Parent(p) # {}
    PROVE  LET par == CHOOSE q \in Parent(p) : TRUE IN
           /\ tree.root # Nil /\ p \in L /\ Removes(tree.kids, tree.root, L, p, par, Sibling(p))
           /\ Parent(p) = {par}
<1> DEFINE par == CHOOSE q \in Parent(p) : TRUE
           sib == Sibling(p)
<1>1. tree.root # Nil
  <2> SUFFICES ASSUME tree.root = Nil PROVE FALSE OBVIOUS
  <2>1. tree.kids = <<>> BY DEF Shows
  <2> QED BY <2>1, NoHalves DEF Parent
<1>2. Rooted(tree.kids, tree.root, L) /\ Forest(tree.kids) BY <1>1 DEF Shows, Rooted
<1>3. par \in Above(tree.kids, p) BY DEF Parent
<1>4. sib = IF tree.kids[par].first = p THEN tree.kids[par].second ELSE tree.kids[par].first
    BY DEF Sibling
<1> HIDE DEF par, sib
<1>5. par \in DOMAIN tree.kids /\ (p = tree.kids[par].first \/ p = tree.kids[par].second)
    BY <1>2, <1>3, AboveIs
<1>6. tree.kids[par].first # tree.kids[par].second BY <1>2, <1>5, Kid
<1>7. p \in L
  <2>1. p \in L \cup DOMAIN tree.kids BY <1>2, <1>3, RootedNodes
  <2>2. p \notin DOMAIN tree.kids BY <1>2, NamesApart DEF Forest
  <2> QED BY <2>1, <2>2
<1>8. {tree.kids[par].first, tree.kids[par].second} = {p, sib} /\ p # sib BY <1>4, <1>5, <1>6
<1>9. Removes(tree.kids, tree.root, L, p, par, sib) BY <1>2, <1>5, <1>7, <1>8 DEF Removes
<1>10. Parent(p) = {par}
  <2>1. p \in Nodes(tree.kids) BY DEF Nodes
  <2> QED BY <1>2, <1>3, <2>1 DEF Parent, Forest
<1> QED BY <1>1, <1>7, <1>9, <1>10 DEF par, sib

\* removeLeafLocked: p is gone, and all else is where it was.
LEMMA RemovedShows ==
    ASSUME NEW L, NEW c, Shows(tree, L, c), NEW p \in Panes
    PROVE  Shows(Removed(p), L \ {p}, c)
<1>1. CASE Parent(p) = {} /\ tree.root = p
  <2>1. Removed(p) = [root |-> Nil, kids |-> <<>>, box |-> <<>>] BY <1>1 DEF Removed
  <2>2. tree.root # Nil BY <1>1, NamesApart
  <2>3. Rooted(tree.kids, p, L) /\ c \in Boxes BY <1>1, <2>2 DEF Shows
  <2>4. L \cup DOMAIN tree.kids = {p} BY <2>3, UnderRoot, UnderPane DEF Rooted
  <2>5. L \ {p} = {} BY <2>4
  <2> QED BY <2>1, <2>3, <2>5 DEF Shows
<1>2. CASE Parent(p) = {} /\ tree.root # p
  <2>1. Removed(p) = tree BY <1>2 DEF Removed
  <2>2. p \notin L
    <3>1. CASE tree.root = Nil BY <3>1 DEF Shows
    <3>2. CASE tree.root # Nil
      <4>1. Rooted(tree.kids, tree.root, L) BY <3>2 DEF Shows
      <4> QED BY <1>2, <4>1 DEF Rooted, Parent
    <3> QED BY <3>1, <3>2
  <2>3. L \ {p} = L BY <2>2
  <2> QED BY <2>1, <2>3
<1>3. CASE Parent(p) # {}
  <2> DEFINE par == CHOOSE q \in Parent(p) : TRUE
             sib == Sibling(p)
             K == RemovedKids(tree.kids, par, sib)
             top == IF tree.root = par THEN sib ELSE tree.root
             B == Redrawn(Plan(K, sib, tree.box[par]), [n \in DOMAIN tree.box \ {par, p} |-> tree.box[n]])
             r == Removed(p)
  <2>1. tree.root # Nil /\ p \in L /\ Removes(tree.kids, tree.root, L, p, par, sib)
      BY <1>3, ParentIs
  <2>2. r = [root |-> top, kids |-> K, box |-> B] BY <1>3 DEF Removed, RemovedKids, Inherited
  <2> HIDE DEF par, sib
  <2>3. Placed(tree.kids, tree.root, L, tree.box, c) /\ c \in Boxes BY <2>1 DEF Shows
  <2>4. Rooted(K, top, L \ {p}) BY <2>1, RemovedRooted
  <2>5. Placed(K, top, L \ {p}, B, c) BY <2>1, <2>3, RemovedPlaced
  <2>6. top # Nil
    <3>1. top \in Nodes(K) BY <2>4, RootedNodes
    <3>2. DOMAIN K \subseteq Splits BY <2>4 DEF Rooted, Forest
    <3> HIDE DEF K, top
    <3> QED BY <3>1, <3>2, NamesApart DEF Nodes
  <2> HIDE DEF K, top, B
  <2>7. r.root = top /\ r.kids = K /\ r.box = B /\ r = [root |-> r.root, kids |-> r.kids, box |-> r.box]
      BY <2>2
  <2> HIDE DEF r
  <2>8. Shows(r, L \ {p}, c) BY <2>3, <2>4, <2>5, <2>6, <2>7 DEF Shows
  <2> QED BY <2>8 DEF r
<1> QED BY <1>1, <1>2, <1>3

\* Such a tree is a layout from scratch, and its leaves are the panes in L.
LEMMA ShowsThePlan ==
    ASSUME NEW t, NEW L, NEW c, Shows(t, L, c)
    PROVE  /\ Leaves(t.kids, t.root) \in Seq(Panes)
           /\ ToSet(Leaves(t.kids, t.root)) = L /\ IsInjective(Leaves(t.kids, t.root))
           /\ IF t.root = Nil THEN t.box = <<>> ELSE t.box = Plan(t.kids, t.root, c)
<1>1. CASE t.root = Nil
  <2>1. L = {} /\ t.box = <<>> /\ Leaves(t.kids, t.root) = <<>> BY <1>1 DEF Shows, Leaves
  <2>2. ToSet(<<>>) = {} /\ IsInjective(<<>>) /\ <<>> \in Seq(Panes) BY DEF ToSet, IsInjective
  <2> QED BY <1>1, <2>1, <2>2
<1>2. CASE t.root # Nil
  <2>1. Rooted(t.kids, t.root, L) /\ Placed(t.kids, t.root, L, t.box, c) /\ c \in Boxes
      BY <1>2 DEF Shows
  <2>2. Forest(t.kids) /\ t.root \in Nodes(t.kids) /\ L \subseteq Panes
      BY <2>1, RootedNodes DEF Rooted
  <2>3. Under(t.kids, t.root) = L \cup DOMAIN t.kids BY <2>1, UnderRoot
  <2>4. (L \cup DOMAIN t.kids) \cap Panes = L BY <2>2, NamesApart DEF Forest
  <2>5. /\ Leaves(t.kids, t.root) \in Seq(Panes)
        /\ ToSet(Leaves(t.kids, t.root)) = L /\ IsInjective(Leaves(t.kids, t.root))
    BY <2>2, <2>3, <2>4, LeavesAre
  <2>6. /\ t.box = [m \in L \cup DOMAIN t.kids |-> t.box[m]] /\ t.box[t.root] = c
        /\ Halved(t.kids, t.box, L \cup DOMAIN t.kids) BY <2>1 DEF Placed, Halved
  <2>7. t.box = Plan(t.kids, t.root, c) BY <2>1, <2>2, <2>3, <2>6, OnlyPlan
  <2> QED BY <1>2, <2>5, <2>7
<1> QED BY <1>1, <1>2

\* What the screen, the anchor and the table may be.
Screens == [size : Sizes, manual : Sizes, auto : Sizes, status : BOOLEAN]
Anchors == [node : Panes \cup Splits \cup {Nil}, type : Types, percent : Percents, first : BOOLEAN]
Tabled == {table[i] : i \in DOMAIN table}

\* An open between its steps: what it has read is what it will publish.
Opening(r) ==
    /\ r = [pc |-> r.pc, target |-> r.target, type |-> r.type, percent |-> r.percent, focus |-> r.focus]
    /\ r.pc \in {"start", "fork", "publish", "run", "done"}
    /\ r.focus \in BOOLEAN
    /\ r.pc \in {"fork", "publish"} => r.type \in Types /\ r.percent \in Percents

\* Types; and what is not yet published is not in the table.
PanesTyped ==
    /\ table \in Seq(Panes) /\ closed \subseteq Tabled /\ hidden \in BOOLEAN
    /\ screen \in Screens /\ anchor \in Anchors
    /\ DOMAIN opens = Openers /\ \A o \in Openers : Opening(opens[o])
    /\ opens = [o \in Openers |-> opens[o]]
    /\ \A o \in Openers : opens[o].pc \in {"start", "fork", "publish"} => o \notin Tabled

\* The tree shows what is on screen, and focus is there.
ScreenKept ==
    /\ PanesTyped
    /\ Shows(tree, OnScreen, Canvas(screen, screen.size))
    /\ FocusIsOnScreen

\* What is on screen is live, and what is live is a pane.
LEMMA OnScreenPanes ==
    ASSUME PanesTyped
    PROVE  Tabled \subseteq Panes /\ Live \subseteq Panes /\ OnScreen \subseteq Live /\ OnScreen \subseteq Panes
           /\ Live = Tabled \ closed
<1>1. Tabled \subseteq Panes BY DEF PanesTyped, Tabled
<1> QED BY <1>1 DEF Live, OnScreen, Tabled

\* The leaves under a node of the tree are panes it shows.
LEMMA LeavesUnder ==
    ASSUME NEW kids, NEW root, NEW L, Rooted(kids, root, L), NEW n \in L \cup DOMAIN kids
    PROVE  Leaves(kids, n) \in Seq(Panes) /\ ToSet(Leaves(kids, n)) \subseteq L
<1>1. Forest(kids) /\ n \in Nodes(kids) BY RootedNodes DEF Rooted
<1>2. Under(kids, n) \subseteq L \cup DOMAIN kids
  <2>1. \A s \in DOMAIN kids \cap (L \cup DOMAIN kids) :
          kids[s].first \in L \cup DOMAIN kids /\ kids[s].second \in L \cup DOMAIN kids
              BY DEF Rooted
  <2> QED BY <1>1, <2>1, UnderClosed
<1>3. (L \cup DOMAIN kids) \cap Panes \subseteq L BY <1>1, NamesApart DEF Forest
<1>4. Leaves(kids, n) \in Seq(Panes) /\ ToSet(Leaves(kids, n)) = Under(kids, n) \cap Panes
    BY <1>1, LeavesAre
<1> QED BY <1>2, <1>3, <1>4

\* A first live leaf is one of the leaves, or there is none.
LEMMA FirstIsLeaf ==
    ASSUME NEW kids, NEW n, NEW L, Leaves(kids, n) \in Seq(Panes), ToSet(Leaves(kids, n)) \subseteq L
    PROVE  FirstLiveLeaf(kids, n) = Nil \/ FirstLiveLeaf(kids, n) \in L
<1> DEFINE all == Leaves(kids, n)
           sessions == {i \in DOMAIN all : all[i] # Panel}
           i0 == CHOOSE i \in sessions : \A j \in sessions : i <= j
<1>1. FirstLiveLeaf(kids, n) = IF sessions # {} THEN all[i0] ELSE IF all # <<>> THEN Panel ELSE Nil
  BY DEF FirstLiveLeaf
<1>2. all \in Seq(Panes) /\ \A i \in DOMAIN all : all[i] \in L BY DEF ToSet
<1> HIDE DEF all
<1>3. DOMAIN all = 1 .. Len(all) /\ Len(all) \in Nat BY <1>2
<1>4. CASE sessions # {}
  <2>1. sessions \subseteq Nat BY <1>3
  <2>2. \E i \in sessions : \A j \in sessions : i <= j
    <3> HIDE DEF sessions
    <3> QED BY <1>4, <2>1, LeastOf
  <2>3. i0 \in sessions
    <3> HIDE DEF sessions
    <3> QED BY <2>2
  <2> HIDE DEF i0
  <2> QED BY <1>1, <1>2, <1>4, <2>3
<1>5. CASE sessions = {} /\ all # <<>>
  <2>1. 1 \in DOMAIN all BY <1>2, <1>3, <1>5
  <2>2. all[1] = Panel BY <1>5, <2>1
  <2> QED BY <1>1, <1>2, <1>5, <2>1, <2>2
<1>6. CASE sessions = {} /\ all = <<>> BY <1>1, <1>6
<1> QED BY <1>4, <1>5, <1>6

\* The first live leaf of a tree is a pane it shows.
LEMMA FirstInTree ==
    ASSUME NEW t, NEW L, NEW c, Shows(t, L, c)
    PROVE  FirstLiveLeaf(t.kids, t.root) = Nil \/ FirstLiveLeaf(t.kids, t.root) \in L
BY ShowsThePlan, FirstIsLeaf

\* The one beside a closed pane is in what is left of the tree.
LEMMA FirstBeside ==
    ASSUME NEW L, NEW c, Shows(tree, L, c), NEW p \in Panes, Parent(p) # {}
    PROVE  FirstLiveLeaf(Removed(p).kids, Sibling(p)) = Nil \/ FirstLiveLeaf(Removed(p).kids, Sibling(p)) \in L \ {p}
<1> DEFINE par == CHOOSE q \in Parent(p) : TRUE
           sib == Sibling(p)
           K == RemovedKids(tree.kids, par, sib)
           top == IF tree.root = par THEN sib ELSE tree.root
<1>1. p \in L /\ Removes(tree.kids, tree.root, L, p, par, sib) BY ParentIs
<1>2. Removed(p).kids = K BY DEF Removed, RemovedKids
<1> HIDE DEF par, sib
<1>3. IsRemoval(K, tree.kids, L, p, par, sib) BY <1>1, RemovedIs
<1>4. Rooted(K, top, L \ {p}) BY <1>1, RemovedRooted
<1> HIDE DEF K, top
<1>5. sib \in (L \ {p}) \cup DOMAIN K BY <1>3 DEF IsRemoval
<1>6. Leaves(K, sib) \in Seq(Panes) /\ ToSet(Leaves(K, sib)) \subseteq L \ {p}
    BY <1>4, <1>5, LeavesUnder
<1>7. FirstLiveLeaf(K, sib) = Nil \/ FirstLiveLeaf(K, sib) \in L \ {p} BY <1>6, FirstIsLeaf
<1> QED BY <1>2, <1>7 DEF sib

\* The size a screen is given is a size.
LEMMA ScreenSizeIs ==
    ASSUME NEW s \in Screens
    PROVE  [s EXCEPT !.size = ScreenSize(s)] \in Screens
<1>1. s.manual \in Sizes /\ s.auto \in Sizes /\ s.status \in BOOLEAN /\ s.size \in Sizes
    BY DEF Screens
<1>2. \A a, b \in Sizes :
        << IF a[1] < b[1] THEN a[1] ELSE b[1], IF a[2] < b[2] THEN a[2] ELSE b[2] >> \in Sizes
            BY DEF Sizes
<1> HIDE DEF Sizes
<1>3. ScreenSize(s) \in Sizes BY <1>1, <1>2 DEF ScreenSize
<1> QED BY <1>3 DEF Screens

-----------------------------------------------------------------------------
\* Whatever layout was built, the screen starts right.
LEMMA ScreenInit ==
    ASSUME TreeInit
    PROVE  ScreenKept
<1>1. PICK layout \in Layouts, window \in Windows :
        /\ hidden = layout.hidden
        /\ screen = [size |-> window, manual |-> <<0, 0>>, auto |-> window, status |-> TRUE]
        /\ tree = Reflowed([root |-> layout.root, kids |-> layout.kids, box |-> <<>>], screen)
        /\ focus = FirstLiveLeaf(layout.kids, layout.root)
  BY DEF TreeInit
<1>2. table = <<Session, Panel>> /\ closed = {} /\ anchor = NoAnchor /\ opens = [o \in Openers |-> NoOpen]
    BY DEF TreeInit
<1>3. Tabled = {Session, Panel} BY <1>2 DEF Tabled
<1>4. PanesTyped
  <2>1. table \in Seq(Panes) BY <1>2, NamesApart
  <2>2. screen \in Screens
    <3>1. window \in Sizes BY PaneTreeBounds
    <3>2. <<0, 0>> \in Sizes BY DEF Sizes
    <3> HIDE DEF Sizes
    <3> QED BY <1>1, <3>1, <3>2 DEF Screens
  <2>3. anchor \in Anchors BY <1>2 DEF NoAnchor, Anchors, Types, Percents
  <2>4. \A o \in Openers : Opening(opens[o]) /\ o \notin Tabled
    <3>1. \A o \in Openers : opens[o] = NoOpen BY <1>2
    <3>2. Opening(NoOpen) BY DEF Opening, NoOpen
    <3>3. \A o \in Openers : o \notin Tabled BY <1>3, PaneTreeBounds
    <3> QED BY <3>1, <3>2, <3>3
  <2>5. hidden \in BOOLEAN BY <1>1, PaneTreeBounds
  <2>6. DOMAIN opens = Openers /\ opens = [o \in Openers |-> opens[o]] BY <1>2
  <2> QED BY <1>2, <2>1, <2>2, <2>3, <2>4, <2>5, <2>6 DEF PanesTyped
<1>5. Rooted(layout.kids, layout.root, OnScreen) /\ layout.root # Nil
  <2>1. CASE layout.hidden
    <3>1. layout.root = Session /\ layout.kids = <<>> BY <2>1, PaneTreeBounds
    <3>2. OnScreen = {Session} BY <1>1, <1>2, <2>1, NamesApart DEF OnScreen, Live
    <3> QED BY <3>1, <3>2, OneLeaf, NamesApart
  <2>2. CASE ~ layout.hidden
    <3>1. PICK s \in Splits : \E first, second \in {Session, Panel} :
            \E type \in Types, percent \in 1 .. 99 :
              /\ first # second /\ layout.root = s
              /\ layout.kids = [n \in {s} |-> [type |-> type, percent |-> percent, first |-> first, second |-> second]]
      BY <2>2, PaneTreeBounds
    <3>2. PICK first \in {Session, Panel}, second \in {Session, Panel}, type \in Types, percent \in 1 .. 99 :
              /\ first # second /\ layout.root = s
              /\ layout.kids = [n \in {s} |-> [type |-> type, percent |-> percent, first |-> first, second |-> second]]
      BY <3>1
    <3> DEFINE kids == layout.kids
    <3>3. DOMAIN kids = {s} /\ kids[s] = [type |-> type, percent |-> percent, first |-> first, second |-> second]
          /\ kids = [n \in DOMAIN kids |-> kids[n]] BY <3>2
    <3> HIDE DEF kids
    <3>4. kids[s].first = first /\ kids[s].second = second BY <3>3
    <3>5. {first, second} = {Session, Panel} BY <3>2
    <3>6. s \notin Panes /\ s # Nil /\ Session \in Panes /\ Panel \in Panes /\ Session # Panel
        BY NamesApart
    <3>7. Nodes(kids) = Panes \cup {s} BY <3>3 DEF Nodes
    <3>8. \A n : Above(kids, n) = IF n \in {first, second} THEN {s} ELSE {} BY <3>3, <3>4 DEF Above
    <3>9. kids[s] \in Halves(Nodes(kids))
      <4>1. first \in Nodes(kids) /\ second \in Nodes(kids) BY <3>5, <3>6, <3>7
      <4> QED BY <3>3, <4>1 DEF Halves, Percents
    <3>10. kids \in [DOMAIN kids -> Halves(Nodes(kids))] BY <3>3, <3>9
    <3>11. \E H \in Nat : \E h \in [Nodes(kids) -> 0 .. H] : Lower(kids, H, h)
      <4> DEFINE h == [n \in Nodes(kids) |-> IF n = s THEN 1 ELSE 0]
      <4>1. h \in [Nodes(kids) -> 0 .. 1] OBVIOUS
      <4>2. h[first] = 0 /\ h[second] = 0 /\ h[s] = 1 BY <3>5, <3>6, <3>7
      <4> HIDE DEF h
      <4>3. Lower(kids, 1, h) BY <3>3, <3>4, <4>1, <4>2 DEF Lower
      <4> QED BY <4>1, <4>3
    <3>12. Forest(kids) BY <3>2, <3>3, <3>4, <3>8, <3>10, <3>11 DEF Forest
    <3>13. OnScreen = {Session, Panel} BY <1>1, <1>2, <2>2 DEF OnScreen, Live
    <3>14. IsFiniteSet({Session, Panel}) /\ Cardinality({Session, Panel}) = 2
      <4>1. IsFiniteSet({Session}) /\ Cardinality({Session}) = 1 BY FS_Singleton
      <4>2. IsFiniteSet({Session} \cup {Panel}) /\ Cardinality({Session} \cup {Panel}) = Cardinality({Session}) + 1
        BY <3>6, <4>1, FS_AddElement
      <4>3. {Session} \cup {Panel} = {Session, Panel} OBVIOUS
      <4> QED BY <4>1, <4>2, <4>3
    <3>15. IsFiniteSet(DOMAIN kids) /\ Cardinality(DOMAIN kids) = 1 BY <3>3, FS_Singleton
    <3>16. \A n \in {Session, Panel} \cup DOMAIN kids : n = s <=> Above(kids, n) = {}
        BY <3>3, <3>5, <3>6, <3>8
    <3>17. Rooted(kids, s, {Session, Panel})
      BY <3>3, <3>4, <3>5, <3>6, <3>12, <3>14, <3>15, <3>16 DEF Rooted
    <3> QED BY <3>2, <3>6, <3>13, <3>17 DEF kids
  <2> QED BY <2>1, <2>2, PaneTreeBounds
<1>6. screen.status \in BOOLEAN /\ screen.size \in Sizes BY <1>4 DEF PanesTyped, Screens
<1>7. Shows(tree, OnScreen, Canvas(screen, screen.size)) /\ tree.kids = layout.kids /\ tree.root = layout.root
  <2> DEFINE t == [root |-> layout.root, kids |-> layout.kids, box |-> <<>>]
  <2>1. t.root = layout.root /\ t.kids = layout.kids /\ t = [root |-> t.root, kids |-> t.kids, box |-> t.box] OBVIOUS
  <2>2. tree = Reflowed(t, screen) BY <1>1
  <2> HIDE DEF t
  <2> QED BY <1>5, <1>6, <2>1, <2>2, ReflowedShows
<1>8. FocusIsOnScreen BY <1>1, <1>7, FirstInTree DEF FocusIsOnScreen
<1> QED BY <1>4, <1>7, <1>8 DEF ScreenKept

\* A step of one open.
LEMMA OpensStep ==
    ASSUME PanesTyped, NEW o \in Openers, NEW r, Opening(r), opens' = [opens EXCEPT ![o] = r],
           UNCHANGED <<table, closed, hidden, screen, anchor>>,
           r.pc \in {"start", "fork", "publish"} => o \notin Tabled
    PROVE  PanesTyped'
<1>1. Tabled' = Tabled BY DEF Tabled
<1>2. \A q \in Openers : opens'[q] = IF q = o THEN r ELSE opens[q] BY DEF PanesTyped
<1>3. DOMAIN opens' = Openers /\ opens' = [q \in Openers |-> opens'[q]] BY DEF PanesTyped
<1>4. \A q \in Openers : Opening(opens'[q]) BY <1>2 DEF PanesTyped
<1>5. \A q \in Openers : opens'[q].pc \in {"start", "fork", "publish"} => q \notin Tabled
    BY <1>2 DEF PanesTyped
<1>6. /\ table' \in Seq(Panes) /\ closed' \subseteq Tabled /\ hidden' \in BOOLEAN
      /\ screen' \in Screens /\ anchor' \in Anchors BY DEF PanesTyped
<1>7. (\A q \in Openers : Opening(opens[q]))' BY <1>4 DEF Opening
<1> QED BY <1>1, <1>3, <1>5, <1>6, <1>7 DEF PanesTyped

\* An open goes on.
LEMMA OpeningNext ==
    ASSUME NEW r, Opening(r), NEW pc \in {"start", "fork", "publish", "run", "done"},
           pc \in {"fork", "publish"} => r.pc \in {"fork", "publish"}
    PROVE  Opening([r EXCEPT !.pc = pc]) /\ [r EXCEPT !.pc = pc].pc = pc
<1> DEFINE e == [r EXCEPT !.pc = pc]
<1>1. r = [pc |-> r.pc, target |-> r.target, type |-> r.type, percent |-> r.percent, focus |-> r.focus]
    BY DEF Opening
<1>2. e.pc = pc /\ e.target = r.target /\ e.type = r.type /\ e.percent = r.percent /\ e.focus = r.focus
    BY <1>1
<1>3. e = [pc |-> pc, target |-> r.target, type |-> r.type, percent |-> r.percent, focus |-> r.focus]
    BY <1>1
<1> HIDE DEF e
<1>4. Opening(e) BY <1>2, <1>3 DEF Opening
<1> QED BY <1>2, <1>4 DEF e

\* The screen stays right when nothing of it changes.
LEMMA SameScreen ==
    ASSUME ScreenKept, UNCHANGED <<table, closed, hidden, tree, screen, focus>>, PanesTyped'
    PROVE  ScreenKept'
<1>1. OnScreen' = OnScreen BY DEF OnScreen, Live
<1>2. Canvas(screen', screen'.size) = Canvas(screen, screen.size) BY DEF ScreenKept
<1>3. Shows(tree', OnScreen', Canvas(screen', screen'.size)) BY <1>1, <1>2 DEF ScreenKept
<1>4. FocusIsOnScreen' BY <1>1 DEF ScreenKept, FocusIsOnScreen
<1>5. Shows(tree, OnScreen, Canvas(screen, screen.size))' BY <1>3 DEF Shows, Placed
<1> QED BY <1>4, <1>5 DEF ScreenKept

\* The types stay when nothing they speak of changes.
LEMMA SameTyped ==
    ASSUME PanesTyped, UNCHANGED <<table, closed, hidden, screen, anchor, opens>>
    PROVE  PanesTyped'
BY DEF PanesTyped, Tabled, Opening

\* An open that has read the geometry leaves the screen right,
LEMMA ScreenOpenReads ==
    ASSUME ScreenKept, NEW o \in Openers, OpenReads(o)
    PROVE  ScreenKept'
<1>1. PICK asked \in Requests :
        LET t == SplitTarget(asked.target)
            b == tree.box[t]
            type == IF asked.type # "auto" THEN asked.type
                    ELSE IF b.w >= 2 * b.h THEN "horizontal" ELSE "vertical"
        IN opens' = [opens EXCEPT ![o] =
             [pc |-> "fork", target |-> t, type |-> type, percent |-> asked.percent, focus |-> asked.focus]]
  BY DEF OpenReads
<1> DEFINE t == SplitTarget(asked.target)
           b == tree.box[t]
           type == IF asked.type # "auto" THEN asked.type
                   ELSE IF b.w >= 2 * b.h THEN "horizontal" ELSE "vertical"
           r == [pc |-> "fork", target |-> t, type |-> type, percent |-> asked.percent, focus |-> asked.focus]
<1>2. asked.type \in Types \cup {"auto"} /\ asked.percent \in Percents /\ asked.focus \in BOOLEAN
  BY PaneTreeBounds DEF Percents
<1>3. type \in Types BY <1>2 DEF Types
<1> HIDE DEF t, type
<1>4. Opening(r) /\ r.pc = "fork" BY <1>2, <1>3 DEF Opening
<1>5. opens' = [opens EXCEPT ![o] = r] BY <1>1 DEF t, type
<1> HIDE DEF r
<1>6. UNCHANGED treeVars /\ opens[o].pc = "start" BY DEF OpenReads
<1>7. o \notin Tabled /\ PanesTyped BY <1>6 DEF ScreenKept, PanesTyped
<1>8. PanesTyped' BY <1>4, <1>5, <1>6, <1>7, OpensStep DEF treeVars
<1> QED BY <1>6, <1>8, SameScreen DEF treeVars

\* so does one that forks, unwinds or runs,
LEMMA ScreenOpenStep ==
    ASSUME ScreenKept, NEW o \in Openers, NEW pc \in {"publish", "done"},
           pc = "publish" => opens[o].pc = "fork",
           opens' = [opens EXCEPT ![o].pc = pc], UNCHANGED treeVars
    PROVE  ScreenKept'
<1> DEFINE r == [opens[o] EXCEPT !.pc = pc]
<1>1. PanesTyped /\ Opening(opens[o]) BY DEF ScreenKept, PanesTyped
<1>2. Opening(r) /\ r.pc = pc
  <2>1. pc \in {"start", "fork", "publish", "run", "done"} OBVIOUS
  <2>2. pc \in {"fork", "publish"} => opens[o].pc \in {"fork", "publish"} OBVIOUS
  <2> QED BY <1>1, <2>1, <2>2, OpeningNext
<1>3. opens' = [opens EXCEPT ![o] = r] OBVIOUS
<1> HIDE DEF r
<1>4. r.pc \in {"start", "fork", "publish"} => o \notin Tabled BY <1>1, <1>2 DEF PanesTyped
<1>5. PanesTyped' BY <1>1, <1>2, <1>3, <1>4, OpensStep DEF treeVars
<1> QED BY <1>5, SameScreen DEF treeVars

\* and one that publishes: the split is in place, and one more pane is live.
LEMMA ScreenOpenPublishes ==
    ASSUME ScreenKept, NEW o \in Openers, OpenPublishes(o)
    PROVE  ScreenKept' /\ Tabled' = Tabled \cup {o} /\ Live' = Live \cup {o}
<1>0. PanesTyped /\ Opening(opens[o]) BY DEF ScreenKept, PanesTyped
<1>1. /\ opens[o].pc = "publish" /\ opens[o].target \in OnScreen
      /\ table' = Append(table, o) /\ tree' = Spliced(opens[o].target, o, opens[o], FALSE)
      /\ focus' = (IF opens[o].focus THEN o ELSE focus)
      /\ opens' = [opens EXCEPT ![o].pc = "run"]
      /\ UNCHANGED <<closed, hidden, anchor, screen>>
  BY DEF OpenPublishes, Admits, Intact
<1>2. o \in Panes /\ o # Panel BY PaneTreeBounds DEF Panes
<1>3. o \notin Tabled BY <1>0, <1>1 DEF PanesTyped
<1>4. table \in Seq(Panes) BY <1>0 DEF PanesTyped
<1>5. table' \in Seq(Panes) /\ Tabled' = Tabled \cup {o}
  <2>1. Len(table) \in Nat /\ DOMAIN table = 1 .. Len(table) BY <1>4
  <2>2. Append(table, o) \in Seq(Panes) /\ DOMAIN Append(table, o) = 1 .. Len(table) + 1
        /\ Append(table, o)[Len(table) + 1] = o
        /\ \A i \in 1 .. Len(table) : Append(table, o)[i] = table[i] BY <1>2, <1>4
  <2> DEFINE nt == Append(table, o)
  <2> HIDE DEF nt
  <2>3. {nt[i] : i \in DOMAIN nt} = {table[i] : i \in DOMAIN table} \cup {o}
    <3>1. \A i \in DOMAIN nt : i \in DOMAIN table \/ i = Len(table) + 1 BY <2>1, <2>2 DEF nt
    <3>2. \A i \in DOMAIN table : i \in DOMAIN nt BY <2>1, <2>2 DEF nt
    <3>3. Len(table) + 1 \in DOMAIN nt BY <2>1, <2>2 DEF nt
    <3>4. nt[Len(table) + 1] = o /\ \A i \in DOMAIN table : nt[i] = table[i] BY <2>1, <2>2 DEF nt
    <3> QED BY <3>1, <3>2, <3>3, <3>4
  <2> QED BY <1>1, <2>2, <2>3 DEF Tabled, nt
<1>6. o \notin closed /\ closed \subseteq Tabled BY <1>0, <1>3 DEF PanesTyped
<1>7. Live' = Live \cup {o}
  <2>1. Live = Tabled \ closed /\ Live' = Tabled' \ closed' BY DEF Live, Tabled
  <2> QED BY <1>1, <1>5, <1>6, <2>1
<1>8. OnScreen' = OnScreen \cup {o} BY <1>1, <1>2, <1>7 DEF OnScreen
<1>9. o \notin OnScreen BY <1>3, <1>0, OnScreenPanes
<1> DEFINE r == [opens[o] EXCEPT !.pc = "run"]
<1>10. Opening(r) /\ r.pc = "run" BY <1>0, OpeningNext
<1>11. opens' = [opens EXCEPT ![o] = r] BY <1>1
<1> HIDE DEF r
<1>12. PanesTyped'
  <2>1. \A q \in Openers : opens'[q] = IF q = o THEN r ELSE opens[q] BY <1>0, <1>11 DEF PanesTyped
  <2>2. DOMAIN opens' = Openers /\ opens' = [q \in Openers |-> opens'[q]]
      BY <1>0, <1>11 DEF PanesTyped
  <2>3. \A q \in Openers : Opening(opens'[q]) BY <1>0, <1>10, <2>1 DEF PanesTyped
  <2>4. \A q \in Openers : opens'[q].pc \in {"start", "fork", "publish"} => q \notin Tabled'
    BY <1>0, <1>5, <1>10, <2>1 DEF PanesTyped
  <2>5. /\ table' \in Seq(Panes) /\ closed' \subseteq Tabled' /\ hidden' \in BOOLEAN
        /\ screen' \in Screens /\ anchor' \in Anchors BY <1>0, <1>1, <1>5 DEF PanesTyped
  <2>6. (\A q \in Openers : Opening(opens[q]))' BY <2>3 DEF Opening
  <2> QED BY <2>2, <2>4, <2>5, <2>6 DEF PanesTyped
<1>13. Shows(tree', OnScreen', Canvas(screen', screen'.size))
  <2> DEFINE c == Canvas(screen, screen.size)
  <2>1. Shows(tree, OnScreen, c) /\ tree.root # Nil
    <3>1. Shows(tree, OnScreen, c) BY DEF ScreenKept
    <3> QED BY <1>1, <3>1 DEF Shows
  <2>2. opens[o].type \in Types /\ opens[o].percent \in Percents BY <1>0, <1>1 DEF Opening
  <2> HIDE DEF c
  <2>3. Shows(Spliced(opens[o].target, o, opens[o], FALSE), OnScreen \cup {o}, c)
    BY <1>1, <1>2, <1>9, <2>1, <2>2, SplicedShows
  <2> QED BY <1>1, <1>8, <2>3 DEF c
<1>14. FocusIsOnScreen' BY <1>1, <1>8 DEF ScreenKept, FocusIsOnScreen
<1>15. Shows(tree, OnScreen, Canvas(screen, screen.size))' BY <1>13 DEF Shows, Placed
<1>16. ScreenKept' BY <1>12, <1>14, <1>15 DEF ScreenKept
<1> QED BY <1>5, <1>7, <1>16

\* A close leaves the screen right, focus too, and one pane less is live.
LEMMA ScreenCloseDetaches ==
    ASSUME ScreenKept, NEW k \in Closers, NEW p \in Panes, CloseDetaches(k, p)
    PROVE  ScreenKept' /\ Live' = Live \ {p}
<1>0. PanesTyped BY DEF ScreenKept
<1>1. /\ p \in Live /\ closed' = closed \cup {p} /\ tree' = Removed(p)
      /\ focus' = IF focus \notin Live \ {p}
                  THEN LET near == IF Parent(p) = {} THEN Nil
                                   ELSE FirstLiveLeaf(tree'.kids, Sibling(p))
                       IN IF near # Nil THEN near ELSE FirstLiveLeaf(tree'.kids, tree'.root)
                  ELSE focus
      /\ UNCHANGED <<table, hidden, anchor, screen, opens>>
  BY DEF CloseDetaches
<1>2. Tabled' = Tabled /\ Live' = Live \ {p} BY <1>1 DEF Tabled, Live
<1>3. OnScreen' = OnScreen \ {p} BY <1>1, <1>2 DEF OnScreen
<1>4. p \in Tabled BY <1>0, <1>1, OnScreenPanes
<1>5. PanesTyped' BY <1>0, <1>1, <1>2, <1>4 DEF PanesTyped, Opening
<1> DEFINE c == Canvas(screen, screen.size)
<1>6. Shows(tree, OnScreen, c) BY DEF ScreenKept
<1>7. c' = c BY <1>1
<1> HIDE DEF c
<1>8. Shows(tree', OnScreen', c) BY <1>1, <1>3, <1>6, RemovedShows
<1>9. FirstLiveLeaf(tree'.kids, tree'.root) = Nil \/ FirstLiveLeaf(tree'.kids, tree'.root) \in OnScreen'
  BY <1>8, FirstInTree
<1>10. Parent(p) # {} => FirstLiveLeaf(tree'.kids, Sibling(p)) = Nil \/ FirstLiveLeaf(tree'.kids, Sibling(p)) \in OnScreen'
  BY <1>1, <1>3, <1>6, FirstBeside
<1>11. focus' = Nil \/ focus' \in OnScreen'
  <2>1. CASE focus \notin Live \ {p}
    <3> DEFINE near == IF Parent(p) = {} THEN Nil ELSE FirstLiveLeaf(tree'.kids, Sibling(p))
    <3>1. focus' = IF near # Nil THEN near ELSE FirstLiveLeaf(tree'.kids, tree'.root) BY <1>1, <2>1
    <3>2. near = Nil \/ near \in OnScreen' BY <1>10
    <3> HIDE DEF near
    <3> QED BY <1>9, <3>1, <3>2
  <2>2. CASE focus \in Live \ {p}
    <3>1. focus' = focus BY <1>1, <2>2
    <3>2. focus = Nil \/ focus \in OnScreen BY DEF ScreenKept, FocusIsOnScreen
    <3> QED BY <1>3, <2>2, <3>1, <3>2
  <2> QED BY <2>1, <2>2
<1>12. FocusIsOnScreen' BY <1>11 DEF FocusIsOnScreen
<1>13. Shows(tree', OnScreen', Canvas(screen', screen'.size)) BY <1>7, <1>8 DEF c
<1>14. Shows(tree, OnScreen, Canvas(screen, screen.size))' BY <1>13 DEF Shows, Placed
<1>15. ScreenKept' BY <1>5, <1>12, <1>14 DEF ScreenKept
<1> QED BY <1>2, <1>15

\* The sibling of a pane is a node, and their split has a type and a share.
LEMMA SiblingIsNode ==
    ASSUME NEW L, NEW c, Shows(tree, L, c), NEW p \in Panes, Parent(p) # {}
    PROVE  LET par == CHOOSE s \in Parent(p) : TRUE IN
           /\ Sibling(p) \in Panes \cup Splits
           /\ tree.kids[par].type \in Types /\ tree.kids[par].percent \in Percents
<1> DEFINE par == CHOOSE s \in Parent(p) : TRUE
           sib == Sibling(p)
<1>1. Removes(tree.kids, tree.root, L, p, par, sib) BY ParentIs
<1> HIDE DEF par, sib
<1>2. IsRemoval(RemovedKids(tree.kids, par, sib), tree.kids, L, p, par, sib) BY <1>1, RemovedIs
<1>3. Forest(tree.kids) /\ L \subseteq Panes /\ par \in DOMAIN tree.kids BY <1>1 DEF Removes, Rooted
<1>4. sib \in L \cup DOMAIN tree.kids BY <1>2 DEF IsRemoval
<1>5. sib \in Panes \cup Splits BY <1>3, <1>4 DEF Forest
<1>6. tree.kids[par].type \in Types /\ tree.kids[par].percent \in Percents BY <1>3, Kid
<1> QED BY <1>5, <1>6 DEF par, sib

\* Hiding the panel leaves the screen right, focus too.
LEMMA ScreenHidePanel ==
    ASSUME ScreenKept, HidePanel
    PROVE  ScreenKept' /\ Live' = Live
<1>0. PanesTyped BY DEF ScreenKept
<1>1. /\ Panel \in OnScreen /\ tree' = Removed(Panel) /\ hidden' = TRUE
      /\ anchor' = IF Parent(Panel) = {} THEN NoAnchor
                   ELSE AnchorIn(tree.kids[CHOOSE s \in Parent(Panel) : TRUE])
      /\ focus' = IF focus = Panel THEN FirstLiveLeaf(tree'.kids, tree'.root) ELSE focus
      /\ UNCHANGED <<table, closed, screen, opens>>
  BY DEF HidePanel, Changes, FocusWithoutPanel
<1>2. Tabled' = Tabled /\ Live' = Live BY <1>1 DEF Tabled, Live
<1>3. OnScreen' = OnScreen \ {Panel} BY <1>1, <1>2 DEF OnScreen
<1> DEFINE c == Canvas(screen, screen.size)
<1>6. Shows(tree, OnScreen, c) BY DEF ScreenKept
<1>7. c' = c BY <1>1
<1> HIDE DEF c
<1>4. anchor' \in Anchors
  <2>1. CASE Parent(Panel) = {} BY <1>1, <2>1 DEF NoAnchor, Anchors, Types, Percents
  <2>2. CASE Parent(Panel) # {}
    <3> DEFINE par == CHOOSE s \in Parent(Panel) : TRUE
    <3>1. Sibling(Panel) \in Panes \cup Splits /\ tree.kids[par].type \in Types /\ tree.kids[par].percent \in Percents
      BY <1>6, <2>2, NamesApart, SiblingIsNode
    <3>2. anchor' = [node |-> Sibling(Panel), type |-> tree.kids[par].type, percent |-> tree.kids[par].percent,
                     first |-> tree.kids[par].first = Panel] BY <1>1, <2>2 DEF AnchorIn
    <3> HIDE DEF par
    <3> QED BY <3>1, <3>2 DEF Anchors
  <2> QED BY <2>1, <2>2
<1>5. PanesTyped' BY <1>0, <1>1, <1>2, <1>4 DEF PanesTyped, Opening
<1>8. Shows(tree', OnScreen', c) BY <1>1, <1>3, <1>6, NamesApart, RemovedShows
<1>9. FirstLiveLeaf(tree'.kids, tree'.root) = Nil \/ FirstLiveLeaf(tree'.kids, tree'.root) \in OnScreen'
  BY <1>8, FirstInTree
<1>10. FocusIsOnScreen' BY <1>1, <1>3, <1>9 DEF FocusIsOnScreen, ScreenKept
<1>13. Shows(tree', OnScreen', Canvas(screen', screen'.size)) BY <1>7, <1>8 DEF c
<1>14. Shows(tree, OnScreen, Canvas(screen, screen.size))' BY <1>13 DEF Shows, Placed
<1>15. ScreenKept' BY <1>5, <1>10, <1>14 DEF ScreenKept
<1> QED BY <1>2, <1>15

\* The panel has a place to come back to, unless the tree is empty.
LEMMA PlaceIs ==
    ASSUME ScreenKept
    PROVE  \/ PanelPlace = Nil /\ tree.root = Nil /\ OnScreen = {} /\ tree.kids = <<>>
           \/ PanelPlace # Nil /\ tree.root # Nil /\ PanelPlace \in OnScreen \cup DOMAIN tree.kids
<1> DEFINE c == Canvas(screen, screen.size)
<1>1. Shows(tree, OnScreen, c) BY DEF ScreenKept
<1> HIDE DEF c
<1>2. CASE tree.root = Nil
  <2>1. tree = [root |-> Nil, kids |-> <<>>, box |-> <<>>] /\ OnScreen = {} BY <1>1, <1>2 DEF Shows
  <2>2. tree.kids = <<>> /\ tree.box = <<>> BY <2>1
  <2>3. PanelPlace = Nil BY <1>2, <2>2, NoHalves DEF PanelPlace
  <2> QED BY <1>2, <2>1, <2>2, <2>3
<1>3. CASE tree.root # Nil
  <2>1. /\ tree.root \in OnScreen \cup DOMAIN tree.kids /\ DOMAIN tree.box = OnScreen \cup DOMAIN tree.kids
        /\ OnScreen \subseteq Panes /\ DOMAIN tree.kids \subseteq Splits
    BY <1>1, <1>3 DEF Shows, Rooted, Placed, Forest
  <2>2. PanelPlace \in OnScreen \cup DOMAIN tree.kids BY <2>1 DEF PanelPlace
  <2> QED BY <1>3, <2>1, <2>2, NamesApart
<1> QED BY <1>2, <1>3

\* Showing the panel leaves the screen right.
LEMMA ScreenShowPanel ==
    ASSUME ScreenKept, ShowPanel
    PROVE  ScreenKept' /\ Live' = Live
<1>0. PanesTyped BY DEF ScreenKept
<1>1. /\ Panel \in Live /\ hidden /\ hidden' = FALSE
      /\ UNCHANGED <<table, closed, opens, anchor, focus, screen>>
      /\ \/ /\ PanelPlace = Nil
            /\ tree' = Reflowed([root |-> Panel, kids |-> <<>>, box |-> <<>>], screen)
         \/ /\ PanelPlace # Nil
            /\ tree' = Spliced(PanelPlace, Panel, anchor, anchor.first)
  BY DEF ShowPanel, Changes
<1>2. Tabled' = Tabled /\ Live' = Live BY <1>1 DEF Tabled, Live
<1>3. OnScreen' = OnScreen \cup {Panel} /\ Panel \notin OnScreen BY <1>1, <1>2 DEF OnScreen
<1>4. PanesTyped' BY <1>0, <1>1, <1>2 DEF PanesTyped, Opening
<1> DEFINE c == Canvas(screen, screen.size)
<1>5. Shows(tree, OnScreen, c) BY DEF ScreenKept
<1>6. c' = c BY <1>1
<1>7. Shows(tree', OnScreen', c)
  <2>1. CASE PanelPlace = Nil
    <3> DEFINE t == [root |-> Panel, kids |-> <<>>, box |-> <<>>]
    <3>1. tree' = Reflowed(t, screen) BY <1>1, <2>1
    <3>2. t.root = Panel /\ t.kids = <<>> /\ t = [root |-> t.root, kids |-> t.kids, box |-> t.box] OBVIOUS
    <3>3. OnScreen' = {Panel} BY <1>3, <2>1, PlaceIs
    <3>4. Rooted(<<>>, Panel, {Panel}) /\ Panel # Nil BY OneLeaf, NamesApart
    <3>5. screen.status \in BOOLEAN /\ screen.size \in Sizes BY <1>0 DEF PanesTyped, Screens
    <3> HIDE DEF t
    <3> QED BY <3>1, <3>2, <3>3, <3>4, <3>5, ReflowedShows
  <2>2. CASE PanelPlace # Nil
    <3>1. tree.root # Nil /\ PanelPlace \in OnScreen \cup DOMAIN tree.kids BY <2>2, PlaceIs
    <3>2. anchor.type \in Types /\ anchor.percent \in Percents /\ anchor.first \in BOOLEAN
        BY <1>0 DEF PanesTyped, Anchors
    <3>3. tree' = Spliced(PanelPlace, Panel, anchor, anchor.first) BY <1>1, <2>2
    <3> HIDE DEF c
    <3> QED BY <1>3, <1>5, <3>1, <3>2, <3>3, NamesApart, SplicedShows
  <2> QED BY <2>1, <2>2
<1>8. FocusIsOnScreen' BY <1>1, <1>3 DEF FocusIsOnScreen, ScreenKept
<1>13. Shows(tree', OnScreen', Canvas(screen', screen'.size)) BY <1>6, <1>7
<1>14. Shows(tree, OnScreen, Canvas(screen, screen.size))' BY <1>13 DEF Shows, Placed
<1>15. ScreenKept' BY <1>4, <1>8, <1>14 DEF ScreenKept
<1> QED BY <1>2, <1>15

\* The terminal changes under the same tree.
LEMMA ScreenReflows ==
    ASSUME ScreenKept, UNCHANGED <<table, closed, hidden, opens, anchor, focus>>,
           screen' \in Screens, tree' = Reflowed(tree, screen')
    PROVE  ScreenKept' /\ tree'.kids = tree.kids /\ tree'.root = tree.root
<1>0. PanesTyped BY DEF ScreenKept
<1>1. Tabled' = Tabled /\ OnScreen' = OnScreen BY DEF Tabled, OnScreen, Live
<1>2. PanesTyped' BY <1>0, <1>1 DEF PanesTyped, Opening
<1>3. screen'.status \in BOOLEAN /\ screen'.size \in Sizes BY DEF Screens
<1> DEFINE c == Canvas(screen, screen.size)
<1>4. Shows(tree, OnScreen, c) BY DEF ScreenKept
<1> HIDE DEF c
<1>5. /\ Shows(tree', OnScreen', Canvas(screen', screen'.size))
      /\ tree'.kids = tree.kids /\ tree'.root = tree.root BY <1>1, <1>3, <1>4, ReflowKeeps
<1>6. FocusIsOnScreen' BY <1>1 DEF FocusIsOnScreen, ScreenKept
<1>7. Shows(tree, OnScreen, Canvas(screen, screen.size))' BY <1>5 DEF Shows, Placed
<1>8. ScreenKept' BY <1>2, <1>6, <1>7 DEF ScreenKept
<1> QED BY <1>5, <1>8

\* A change of size lays the tree out anew.
LEMMA SizedIs ==
    ASSUME NEW s \in Screens, Sized(s)
    PROVE  screen' \in Screens /\ tree' = Reflowed(tree, screen') /\ UNCHANGED <<hidden, anchor, focus, before>>
BY ScreenSizeIs DEF Sized

\* The sizes a screen may be asked for are sizes.
LEMMA SizesOf ==
    ASSUME PanesTyped
    PROVE  /\ \A w \in Sizes : [screen EXCEPT !.auto = w] \in Screens /\ [screen EXCEPT !.manual = w] \in Screens
           /\ [screen EXCEPT !.status = ~@] \in Screens
           /\ <<0, 0>> \in Sizes /\ Windows \subseteq Sizes
           /\ \A w \in Sizes : <<w[1] + 1, w[2]>> \in Sizes
<1>1. screen \in Screens BY DEF PanesTyped
<1>2. <<0, 0>> \in Sizes /\ Windows \subseteq Sizes /\ \A w \in Sizes : <<w[1] + 1, w[2]>> \in Sizes
  <2>1. Windows \subseteq Sizes BY PaneTreeBounds
  <2>2. <<0, 0>> \in Sizes /\ \A w \in Sizes : <<w[1] + 1, w[2]>> \in Sizes BY DEF Sizes
  <2> QED BY <2>1, <2>2
<1>3. screen.status \in BOOLEAN BY <1>1 DEF Screens
<1> HIDE DEF Sizes
<1>4. /\ \A w \in Sizes : [screen EXCEPT !.auto = w] \in Screens /\ [screen EXCEPT !.manual = w] \in Screens
      /\ [screen EXCEPT !.status = ~@] \in Screens BY <1>1, <1>3 DEF Screens
<1> QED BY <1>2, <1>4

\* What the terminal and its person change.
Reshapes == ToggleStatus \/ WindowChanges \/ Resize \/ Release

\* Each of them lays the tree out anew.
LEMMA ReshapesIs ==
    ASSUME ScreenKept, Reshapes
    PROVE  /\ screen' \in Screens /\ tree' = Reflowed(tree, screen')
           /\ UNCHANGED <<table, closed, hidden, opens, anchor, focus, before>>
<1>0. PanesTyped /\ screen \in Screens BY DEF ScreenKept, PanesTyped
<1>1. UNCHANGED <<table, closed, opens>>
    BY DEF Reshapes, ToggleStatus, WindowChanges, Resize, Release, Changes
<1>2. CASE ToggleStatus BY <1>0, <1>1, <1>2, SizesOf DEF ToggleStatus
<1>3. CASE WindowChanges
  <2>1. PICK w \in Windows : Sized([screen EXCEPT !.auto = w]) BY <1>3 DEF WindowChanges
  <2>2. [screen EXCEPT !.auto = w] \in Screens BY <1>0, SizesOf
  <2> QED BY <1>1, <2>1, <2>2, SizedIs
<1>4. CASE Resize
  <2>1. PICK w \in Windows, one \in BOOLEAN :
          Sized([screen EXCEPT !.manual = IF one /\ screen.status THEN <<w[1] + 1, w[2]>> ELSE w])
              BY <1>4 DEF Resize
  <2>2. (IF one /\ screen.status THEN <<w[1] + 1, w[2]>> ELSE w) \in Sizes BY <1>0, SizesOf
  <2>3. [screen EXCEPT !.manual = IF one /\ screen.status THEN <<w[1] + 1, w[2]>> ELSE w] \in Screens
    BY <1>0, <2>2, SizesOf
  <2> QED BY <1>1, <2>1, <2>3, SizedIs
<1>5. CASE Release
  <2>1. Sized([screen EXCEPT !.manual = <<0, 0>>]) BY <1>5 DEF Release
  <2>2. [screen EXCEPT !.manual = <<0, 0>>] \in Screens BY <1>0, SizesOf
  <2> QED BY <1>1, <2>1, <2>2, SizedIs
<1> QED BY <1>2, <1>3, <1>4, <1>5 DEF Reshapes

\* Focus moves to a pane on screen.
LEMMA ScreenMoveFocus ==
    ASSUME ScreenKept, MoveFocus
    PROVE  ScreenKept'
<1>1. UNCHANGED <<table, closed, opens, hidden, anchor, tree, screen>> BY DEF MoveFocus, Changes
<1>2. focus' \in OnScreen BY DEF MoveFocus
<1>3. PanesTyped' BY <1>1, SameTyped DEF ScreenKept
<1>4. OnScreen' = OnScreen BY <1>1 DEF OnScreen, Live
<1>5. FocusIsOnScreen' BY <1>2, <1>4 DEF FocusIsOnScreen
<1>6. Shows(tree', OnScreen', Canvas(screen', screen'.size)) BY <1>1, <1>4 DEF ScreenKept
<1>7. Shows(tree, OnScreen, Canvas(screen, screen.size))' BY <1>6 DEF Shows, Placed
<1> QED BY <1>3, <1>5, <1>7 DEF ScreenKept

\* What leaves the panes, the tree, the terminal and focus alone.
Elsewhere ==
    \/ \E k \in Closers : CloseGoesOn(k)
    \/ \E p \in Panes : ChildEnds(p) \/ Goroutine(p)
    \/ Quits \/ Ending

\* It leaves them alone.
LEMMA ElsewhereIs ==
    ASSUME Elsewhere
    PROVE  UNCHANGED <<treeVars, opens, before>>
BY DEF Elsewhere, CloseGoesOn, CloseReaps, CloseTells, ChildEnds, Goroutine, ReaderEnds, Reap, Quits, Ending,
       CleanupBegins, Cleanup, CleanupReturns

\* What a step may be.
LEMMA NextCases ==
    ASSUME TreeNext
    PROVE  \/ \E o \in Openers : OpenReads(o) \/ OpenForks(o) \/ OpenPublishes(o) \/ OpenUnwinds(o) \/ OpenRuns(o)
           \/ \E k \in Closers, p \in Panes : CloseDetaches(k, p)
           \/ HidePanel \/ ShowPanel \/ Reshapes \/ MoveFocus \/ Elsewhere
BY DEF TreeNext, Open, Detaches, Reshapes, Elsewhere

\* An open moves on and touches nothing else.
OpenGoes(o, pc) ==
    /\ opens' = [opens EXCEPT ![o].pc = pc]
    /\ pc = "publish" => opens[o].pc = "fork"
    /\ UNCHANGED treeVars /\ UNCHANGED before

\* What it is when an open forks, unwinds or runs.
LEMMA OpenStepIs ==
    ASSUME NEW o \in Openers, OpenForks(o) \/ OpenUnwinds(o) \/ OpenRuns(o)
    PROVE  OpenGoes(o, "publish") \/ OpenGoes(o, "done")
BY DEF OpenForks, OpenUnwinds, OpenRuns, OpenGoes

\* Every step leaves the screen right.
LEMMA ScreenNext ==
    ASSUME ScreenKept, [TreeNext]_paneVars
    PROVE  ScreenKept'
<1>1. CASE UNCHANGED paneVars
  <2>1. UNCHANGED <<table, closed, hidden, tree, anchor, focus, screen, opens>>
      BY <1>1 DEF paneVars, treeVars
  <2> QED BY <2>1, SameTyped, SameScreen DEF ScreenKept
<1>2. CASE TreeNext
  <2>1. CASE \E o \in Openers : OpenReads(o) BY <2>1, ScreenOpenReads
  <2>2. CASE \E o \in Openers : OpenForks(o) \/ OpenUnwinds(o) \/ OpenRuns(o)
    <3>1. PICK o \in Openers : OpenForks(o) \/ OpenUnwinds(o) \/ OpenRuns(o) BY <2>2
    <3>2. OpenGoes(o, "publish") \/ OpenGoes(o, "done") BY <3>1, OpenStepIs
    <3>3. ASSUME NEW pc \in {"publish", "done"}, OpenGoes(o, pc) PROVE ScreenKept'
      BY <3>3, ScreenOpenStep DEF OpenGoes
    <3> QED BY <3>2, <3>3
  <2>3. CASE \E o \in Openers : OpenPublishes(o) BY <2>3, ScreenOpenPublishes
  <2>4. CASE \E k \in Closers, p \in Panes : CloseDetaches(k, p) BY <2>4, ScreenCloseDetaches
  <2>5. CASE HidePanel BY <2>5, ScreenHidePanel
  <2>6. CASE ShowPanel BY <2>6, ScreenShowPanel
  <2>7. CASE Reshapes BY <2>7, ReshapesIs, ScreenReflows
  <2>8. CASE MoveFocus BY <2>8, ScreenMoveFocus
  <2>9. CASE Elsewhere
    <3>1. UNCHANGED <<table, closed, hidden, tree, anchor, focus, screen, opens>>
        BY <2>9, ElsewhereIs DEF treeVars
    <3> QED BY <3>1, SameTyped, SameScreen DEF ScreenKept
  <2> QED BY <1>2, <2>1, <2>2, <2>3, <2>4, <2>5, <2>6, <2>7, <2>8, <2>9, NextCases
<1> QED BY <1>1, <1>2

\* The invariant behind the next theorem: the tree is a tree of the panes on screen, each
\* split's halves are its two parts, and focus is on screen (treeMu's critical sections in
\* dynpanes.go, chrome.go and size.go).
THEOREM ScreenIsAlwaysKept == TreeSpec => []ScreenKept
<1>1. TreeInit => ScreenKept BY ScreenInit
<1>2. ScreenKept /\ [TreeNext]_paneVars => ScreenKept' BY ScreenNext
<1> QED BY <1>1, <1>2, PTL DEF TreeSpec

\* ScreenIsThePlan, for every layout, every number of opens and closes and every size: the
\* leaves are the panes on screen, each once, every node is where a layout from scratch would
\* put it, and keys go to a pane on screen (splitNodeLocked, removeLeafLocked, reflowLocked,
\* hidePanelLocked, ClosePane).
THEOREM EveryPaneIsInItsPlace == TreeSpec => []ScreenIsThePlan
<1>1. ScreenKept => ScreenIsThePlan
  <2> SUFFICES ASSUME ScreenKept PROVE ScreenIsThePlan OBVIOUS
  <2> DEFINE c == Canvas(screen, screen.size)
  <2>1. Shows(tree, OnScreen, c) /\ FocusIsOnScreen BY DEF ScreenKept
  <2> HIDE DEF c
  <2>2. /\ ToSet(Leaves(tree.kids, tree.root)) = OnScreen /\ IsInjective(Leaves(tree.kids, tree.root))
        /\ IF tree.root = Nil THEN tree.box = <<>> ELSE tree.box = Plan(tree.kids, tree.root, c)
    BY <2>1, ShowsThePlan
  <2> QED BY <2>1, <2>2 DEF ScreenIsThePlan, LayoutIsThePlan, c
<1> QED BY <1>1, ScreenIsAlwaysKept, PTL

-----------------------------------------------------------------------------
\* A pane in the table whose goroutines have not begun is counted.
Owed ==
    /\ DOMAIN opens = Openers /\ \A o \in Openers : Opening(opens[o])
    /\ reader = [p \in Panes |-> reader[p]]
    /\ \A o \in Openers : opens[o].pc = "run" => reader[o] = "owed"

\* An open owes the WaitGroup its reader only before cleanup waits.
LEMMA OwedNext ==
    ASSUME Owed, ScreenKept, ScreenKept', [TreeNext]_paneVars
    PROVE  Owed' /\ (teardown = "waiting" => Counted' \subseteq Counted)
<1>0. /\ DOMAIN opens' = Openers /\ \A o \in Openers : Opening(opens'[o])
      /\ DOMAIN opens = Openers /\ \A o \in Openers : Opening(opens[o])
      /\ (\A o \in Openers : Opening(opens[o]))'
  BY DEF ScreenKept, PanesTyped, Opening
<1>00. Openers \subseteq Panes BY DEF Panes
<1>1. CASE UNCHANGED <<opens, reader>> BY <1>0, <1>1 DEF Owed, Counted
<1>2. CASE UNCHANGED reader /\ \E o \in Openers : \E pc \in {"publish", "done"} : opens' = [opens EXCEPT ![o].pc = pc]
  <2>1. PICK o \in Openers : \E pc \in {"publish", "done"} : opens' = [opens EXCEPT ![o].pc = pc]
      BY <1>2
  <2>2. PICK pc \in {"publish", "done"} : opens' = [opens EXCEPT ![o].pc = pc] BY <2>1
  <2>3. opens'[o].pc = pc
    <3>1. opens'[o] = [opens[o] EXCEPT !.pc = pc] BY <1>0, <2>2
    <3> QED BY <1>0, <3>1 DEF Opening
  <2>4. \A q \in Openers : q # o => opens'[q] = opens[q] BY <1>0, <2>2
  <2>5. \A q \in Openers : opens'[q].pc = "run" => reader'[q] = "owed" BY <1>2, <2>3, <2>4 DEF Owed
  <2> QED BY <1>0, <1>2, <2>5 DEF Owed, Counted
<1>3. ASSUME NEW o \in Openers, OpenReads(o) PROVE Owed' /\ Counted' \subseteq Counted
  <2>1. reader' = reader BY <1>3 DEF OpenReads, childVars
  <2>2. opens'[o].pc = "fork"
    <3>1. \E r : opens' = [opens EXCEPT ![o] = r] /\ r.pc = "fork"
      <4>1. PICK asked \in Requests :
              LET t == SplitTarget(asked.target)
                  b == tree.box[t]
                  type == IF asked.type # "auto" THEN asked.type
                          ELSE IF b.w >= 2 * b.h THEN "horizontal" ELSE "vertical"
              IN opens' = [opens EXCEPT ![o] =
                   [pc |-> "fork", target |-> t, type |-> type, percent |-> asked.percent, focus |-> asked.focus]]
        BY <1>3 DEF OpenReads
      <4> DEFINE t == SplitTarget(asked.target)
                 b == tree.box[t]
                 type == IF asked.type # "auto" THEN asked.type
                         ELSE IF b.w >= 2 * b.h THEN "horizontal" ELSE "vertical"
                 r == [pc |-> "fork", target |-> t, type |-> type, percent |-> asked.percent, focus |-> asked.focus]
      <4>2. r.pc = "fork" OBVIOUS
      <4>3. opens' = [opens EXCEPT ![o] = r] BY <4>1
      <4> HIDE DEF r
      <4> QED BY <4>2, <4>3
    <3>2. PICK r : opens' = [opens EXCEPT ![o] = r] /\ r.pc = "fork" BY <3>1
    <3> QED BY <1>0, <3>2
  <2>3. \A q \in Openers : q # o => opens'[q] = opens[q] BY <1>0, <1>3 DEF OpenReads
  <2> QED BY <1>0, <2>1, <2>2, <2>3 DEF Owed, Counted
<1>4. ASSUME NEW o \in Openers, OpenPublishes(o) PROVE Owed' /\ teardown # "waiting"
  <2>1. /\ reader' = [reader EXCEPT ![o] = "owed"] /\ opens' = [opens EXCEPT ![o].pc = "run"] /\ teardown = "no"
    BY <1>4 DEF OpenPublishes, Admits
  <2>2. reader' = [p \in Panes |-> reader'[p]] /\ \A q \in Panes : reader'[q] = IF q = o THEN "owed" ELSE reader[q]
    BY <1>00, <2>1 DEF Owed
  <2>3. \A q \in Openers : q # o => opens'[q] = opens[q] BY <1>0, <2>1
  <2>4. \A q \in Openers : opens'[q].pc = "run" => reader'[q] = "owed" BY <1>00, <2>2, <2>3 DEF Owed
  <2> QED BY <1>0, <2>1, <2>2, <2>4 DEF Owed
<1>5. ASSUME NEW o \in Openers, OpenRuns(o) PROVE Owed' /\ Counted' \subseteq Counted
  <2>1. /\ opens[o].pc = "run" /\ reader' = [reader EXCEPT ![o] = "reading"] /\ opens' = [opens EXCEPT ![o].pc = "done"]
    BY <1>5 DEF OpenRuns
  <2>2. reader' = [p \in Panes |-> reader'[p]] /\ \A q \in Panes : reader'[q] = IF q = o THEN "reading" ELSE reader[q]
    BY <1>00, <2>1 DEF Owed
  <2>3. \A q \in Openers : q # o => opens'[q] = opens[q] BY <1>0, <2>1
  <2>4. opens'[o].pc = "done"
    <3>1. opens'[o] = [opens[o] EXCEPT !.pc = "done"] BY <1>0, <2>1
    <3> QED BY <1>0, <3>1 DEF Opening
  <2>5. \A q \in Openers : opens'[q].pc = "run" => reader'[q] = "owed"
      BY <1>00, <2>2, <2>3, <2>4 DEF Owed
  <2>6. reader[o] = "owed" BY <2>1 DEF Owed
  <2>7. Counted' \subseteq Counted BY <1>00, <2>2, <2>6 DEF Counted
  <2> QED BY <1>0, <2>2, <2>5, <2>7 DEF Owed
<1>6. ASSUME NEW p \in Panes, ReaderEnds(p) PROVE Owed' /\ Counted' \subseteq Counted
  <2>1. reader[p] = "reading" /\ reader' = [reader EXCEPT ![p] = "done"] /\ opens' = opens
      BY <1>6 DEF ReaderEnds
  <2>2. reader' = [q \in Panes |-> reader'[q]] /\ \A q \in Panes : reader'[q] = IF q = p THEN "done" ELSE reader[q]
    BY <2>1 DEF Owed
  <2>3. \A q \in Openers : opens'[q].pc = "run" => reader'[q] = "owed" BY <1>00, <2>1, <2>2 DEF Owed
  <2>4. Counted' \subseteq Counted BY <2>2 DEF Counted
  <2> QED BY <1>0, <2>2, <2>3, <2>4 DEF Owed
<1>7. \/ UNCHANGED <<opens, reader>>
      \/ UNCHANGED reader /\ \E o \in Openers : \E pc \in {"publish", "done"} : opens' = [opens EXCEPT ![o].pc = pc]
      \/ \E o \in Openers : OpenReads(o) \/ OpenPublishes(o) \/ OpenRuns(o)
      \/ \E p \in Panes : ReaderEnds(p)
  <2>1. CASE UNCHANGED paneVars BY <2>1 DEF paneVars, childVars
  <2>2. CASE \E o \in Openers : OpenForks(o) BY <2>2 DEF OpenForks
  <2>3. CASE \E o \in Openers : OpenUnwinds(o) BY <2>3 DEF OpenUnwinds
  <2>4. CASE \E k \in Closers, p \in Panes : CloseDetaches(k, p)
      BY <2>4 DEF CloseDetaches, childVars
  <2>5. CASE HidePanel \/ ShowPanel \/ Reshapes \/ MoveFocus
    BY <2>5 DEF HidePanel, ShowPanel, Reshapes, MoveFocus, ToggleStatus, WindowChanges, Resize, Release, Changes, childVars
  <2>6. CASE Elsewhere
    BY <2>6 DEF Elsewhere, CloseGoesOn, CloseReaps, CloseTells, ChildEnds, Goroutine, Reap, Quits, Ending,
                CleanupBegins, Cleanup, CleanupReturns, childVars
  <2> QED BY <2>1, <2>2, <2>3, <2>4, <2>5, <2>6, NextCases
<1> QED BY <1>1, <1>2, <1>3, <1>4, <1>5, <1>6, <1>7

\* At the start nothing is owed.
LEMMA OwedInit ==
    ASSUME TreeInit
    PROVE  Owed
<1>1. ScreenKept BY ScreenInit
<1>2. opens = [o \in Openers |-> NoOpen] /\ reader = [p \in Panes |-> IF p = Session THEN "reading" ELSE "none"]
  BY DEF TreeInit
<1>3. \A o \in Openers : opens[o].pc = "start" BY <1>2 DEF NoOpen
<1> QED BY <1>1, <1>2, <1>3 DEF ScreenKept, PanesTyped, Owed

\* NobodyJoinsTheWait: no open adds a reader to the WaitGroup while cleanup waits on it
\* (OpenPane's second look at m.closing; cleanup).
THEOREM TheWaitIsClosed == TreeSpec => NobodyJoinsTheWait
<1>1. TreeInit => Owed BY OwedInit
<1>2. ScreenKept /\ ScreenKept' /\ Owed /\ [TreeNext]_paneVars => Owed' BY OwedNext
<1>3. TreeSpec => []Owed BY <1>1, <1>2, ScreenIsAlwaysKept, PTL DEF TreeSpec
<1>4. ScreenKept /\ ScreenKept' /\ Owed /\ [TreeNext]_paneVars => [teardown = "waiting" => Counted' \subseteq Counted]_paneVars
  BY OwedNext
<1> QED BY <1>3, <1>4, ScreenIsAlwaysKept, PTL DEF TreeSpec, NobodyJoinsTheWait

\* A close between its steps.
Closings == [pc : {"start", "reap", "tell", "done"}, pane : Panes \cup {Nil}, last : BOOLEAN]

\* When the last session is gone, magmux is told or will be.
LastIsTold ==
    /\ closes \in [Closers -> Closings] /\ quit \in BOOLEAN
    /\ Live \subseteq {Panel} =>
         quit \/ \E k \in Closers : closes[k].pc \in {"reap", "tell"} /\ closes[k].last

\* What is told of the last session stays when the panes do.
LEMMA LastStays ==
    ASSUME LastIsTold, UNCHANGED closes, UNCHANGED Live, quit' \in BOOLEAN, quit => quit'
    PROVE  LastIsTold'
BY DEF LastIsTold

\* Every step keeps it.
LEMMA LastNext ==
    ASSUME LastIsTold, ScreenKept, [TreeNext]_paneVars
    PROVE  LastIsTold'
<1>0. closes \in [Closers -> Closings] /\ quit \in BOOLEAN BY DEF LastIsTold
<1>1. CASE UNCHANGED paneVars
  <2>1. UNCHANGED <<closes, quit>> /\ UNCHANGED Live BY <1>1 DEF paneVars, treeVars, Live
  <2> QED BY <1>0, <2>1, LastStays
<1>2. CASE UNCHANGED <<closes, quit>> /\ UNCHANGED <<table, closed>>
  <2>1. UNCHANGED Live BY <1>2 DEF Live
  <2> QED BY <1>0, <1>2, <2>1, LastStays
<1>3. ASSUME NEW o \in Openers, OpenPublishes(o) PROVE LastIsTold'
  <2>1. Live' = Live \cup {o} BY <1>3, ScreenOpenPublishes
  <2>2. o # Panel BY PaneTreeBounds
  <2>3. ~ (Live' \subseteq {Panel}) BY <2>1, <2>2
  <2>4. UNCHANGED <<closes, quit>> BY <1>3 DEF OpenPublishes
  <2> QED BY <1>0, <2>3, <2>4 DEF LastIsTold
<1>4. ASSUME NEW k \in Closers, NEW p \in Panes, CloseDetaches(k, p) PROVE LastIsTold'
  <2>1. Live' = Live \ {p} BY <1>4, ScreenCloseDetaches
  <2>2. /\ closes' = [closes EXCEPT ![k] = [pc |-> "reap", pane |-> p, last |-> LastOne(closed')]]
        /\ quit' = quit /\ table' = table BY <1>4 DEF CloseDetaches
  <2>3. LastOne(closed') = (Live' \ {Panel} = {}) BY <2>2 DEF LastOne, Live
  <2> DEFINE r == [pc |-> "reap", pane |-> p, last |-> LastOne(closed')]
  <2>4. r \in Closings /\ r.pc = "reap" /\ r.last = LastOne(closed')
    <3>1. LastOne(closed') \in BOOLEAN BY DEF LastOne
    <3> QED BY <3>1 DEF Closings
  <2> HIDE DEF r
  <2>5. closes' \in [Closers -> Closings] /\ closes'[k] = r BY <1>0, <2>2, <2>4 DEF r
  <2>6. Live' \subseteq {Panel} => closes'[k].pc \in {"reap", "tell"} /\ closes'[k].last
    <3>1. Live' \subseteq {Panel} => Live' \ {Panel} = {} OBVIOUS
    <3>2. closes'[k].pc = "reap" /\ closes'[k].last = LastOne(closed') BY <2>4, <2>5
    <3> QED BY <2>3, <3>1, <3>2
  <2> QED BY <1>0, <2>2, <2>5, <2>6 DEF LastIsTold
<1>5. ASSUME NEW k \in Closers, CloseReaps(k) PROVE LastIsTold'
  <2>1. closes[k].pc = "reap" /\ closes' = [closes EXCEPT ![k].pc = "tell"] /\ quit' = quit
      BY <1>5 DEF CloseReaps
  <2>2. UNCHANGED Live BY <1>5 DEF CloseReaps, treeVars, Live
  <2>3. closes' \in [Closers -> Closings] BY <1>0, <2>1 DEF Closings
  <2>4. \A l \in Closers : closes'[l].last = closes[l].last /\ (l # k => closes'[l].pc = closes[l].pc)
    BY <1>0, <2>1 DEF Closings
  <2>5. closes'[k].pc = "tell" BY <1>0, <2>1 DEF Closings
  <2>6. \A l \in Closers : closes[l].pc \in {"reap", "tell"} /\ closes[l].last
                         => closes'[l].pc \in {"reap", "tell"} /\ closes'[l].last BY <2>4, <2>5
  <2> QED BY <1>0, <2>1, <2>2, <2>3, <2>6 DEF LastIsTold
<1>6. ASSUME NEW k \in Closers, CloseTells(k) PROVE LastIsTold'
  <2>1. /\ closes' = [closes EXCEPT ![k].pc = "done"] /\ quit' = (quit \/ closes[k].last)
      BY <1>6 DEF CloseTells
  <2>2. UNCHANGED Live BY <1>6 DEF CloseTells, treeVars, Live
  <2>3. closes' \in [Closers -> Closings] BY <1>0, <2>1 DEF Closings
  <2>4. \A l \in Closers : l # k => closes'[l] = closes[l] BY <1>0, <2>1
  <2>5. closes[k].last \in BOOLEAN BY <1>0 DEF Closings
  <2>6. quit' \in BOOLEAN BY <1>0, <2>1, <2>5
  <2>7. ASSUME Live' \subseteq {Panel}, ~ quit'
      PROVE \E l \in Closers : closes'[l].pc \in {"reap", "tell"} /\ closes'[l].last
    <3>1. ~ quit /\ ~ closes[k].last BY <1>0, <2>1, <2>5, <2>7
    <3>2. PICK l \in Closers : closes[l].pc \in {"reap", "tell"} /\ closes[l].last
        BY <2>2, <2>7, <3>1 DEF LastIsTold
    <3>3. l # k BY <3>1, <3>2
    <3> QED BY <2>4, <3>2, <3>3
  <2> QED BY <2>3, <2>6, <2>7 DEF LastIsTold
<1>7. CASE Quits
  <2>1. quit' = TRUE /\ UNCHANGED closes BY <1>7 DEF Quits
  <2>2. UNCHANGED Live BY <1>7 DEF Quits, treeVars, Live
  <2> QED BY <2>1, <2>2, LastStays
<1>8. \/ UNCHANGED paneVars \/ (UNCHANGED <<closes, quit>> /\ UNCHANGED <<table, closed>>)
      \/ \E o \in Openers : OpenPublishes(o)
      \/ \E k \in Closers, p \in Panes : CloseDetaches(k, p)
      \/ \E k \in Closers : CloseReaps(k) \/ CloseTells(k)
      \/ Quits
  <2>1. CASE \E o \in Openers : OpenReads(o) \/ OpenForks(o) \/ OpenUnwinds(o) \/ OpenRuns(o)
    BY <2>1 DEF OpenReads, OpenForks, OpenUnwinds, OpenRuns, treeVars
  <2>2. CASE HidePanel \/ ShowPanel \/ Reshapes \/ MoveFocus
    BY <2>2 DEF HidePanel, ShowPanel, Reshapes, MoveFocus, ToggleStatus, WindowChanges, Resize, Release, Changes
  <2>3. CASE Elsewhere
    BY <2>3 DEF Elsewhere, CloseGoesOn, ChildEnds, Goroutine, ReaderEnds, Reap, Ending,
                CleanupBegins, Cleanup, CleanupReturns, treeVars
  <2> QED BY <2>1, <2>2, <2>3, NextCases
<1> QED BY <1>1, <1>2, <1>3, <1>4, <1>5, <1>6, <1>7, <1>8

\* At the start there is a session.
LEMMA LastInit ==
    ASSUME TreeInit
    PROVE  LastIsTold
<1>1. table = <<Session, Panel>> /\ closed = {} /\ closes = [k \in Closers |-> NoClose] /\ quit = FALSE
  BY DEF TreeInit
<1>2. NoClose \in Closings BY DEF NoClose, Closings
<1>3. Session \in Live /\ Session # Panel BY <1>1, NamesApart DEF Live
<1> QED BY <1>1, <1>2, <1>3 DEF LastIsTold

\* LastOneQuits: when the last session is gone and no close is under way, magmux quits,
\* however the closes overlapped (ClosePane's lastOne).
THEOREM TheLastOneQuits == TreeSpec => []LastOneQuits
<1>1. TreeInit => LastIsTold BY LastInit
<1>2. LastIsTold /\ ScreenKept /\ [TreeNext]_paneVars => LastIsTold' BY LastNext
<1>3. LastIsTold => LastOneQuits
  <2> SUFFICES ASSUME LastIsTold, Live \subseteq {Panel}, \A k \in Closers : closes[k].pc \in {"start", "done"}
      PROVE quit
    BY DEF LastOneQuits
  <2> QED BY DEF LastIsTold
<1> QED BY <1>1, <1>2, <1>3, ScreenIsAlwaysKept, PTL DEF TreeSpec

-----------------------------------------------------------------------------
\* What a child may be.
Fates == {"none", "running", "eof", "hung", "exited", "reaped"}

\* Who looks after what: a reader that is owed has its open still to run, a child has
\* somebody who waits for it or will, the child of a closed pane is hung up on or will
\* be, and once cleanup waits nothing that is live still runs.
Tidy ==
    /\ child \in [Panes -> Fates] /\ reader \in [Panes -> {"none", "owed", "reading", "done"}]
    /\ teardown \in {"no", "closing", "waiting", "over"}
    /\ \A p \in Panes : reader[p] = "owed" => p \in Openers /\ opens[p].pc = "run"
    /\ \A p \in Panes : reader[p] # "none" => p \in Tabled
    /\ \A p \in Panes : child[p] # "none" => \/ p \in waiter
                                            \/ (p \in Openers /\ opens[p].pc \in {"publish", "run"})
    /\ \A p \in closed : child[p] = "running" =>
         \E k \in Closers : closes[k].pc = "reap" /\ closes[k].pane = p
    /\ teardown \in {"waiting", "over"} => \A p \in Live : child[p] # "running"

\* One open goes on.
LEMMA OpensMove ==
    ASSUME PanesTyped, NEW o \in Openers, NEW pc, opens' = [opens EXCEPT ![o].pc = pc]
    PROVE  opens'[o].pc = pc /\ \A q \in Openers : q # o => opens'[q] = opens[q]
<1>1. opens = [q \in Openers |-> opens[q]] /\ Opening(opens[o]) BY DEF PanesTyped
<1>2. opens'[o] = [opens[o] EXCEPT !.pc = pc] BY <1>1
<1> QED BY <1>1, <1>2 DEF Opening

\* One close goes on.
LEMMA ClosesMove ==
    ASSUME closes \in [Closers -> Closings], NEW k \in Closers, NEW pc,
           closes' = [closes EXCEPT ![k].pc = pc]
    PROVE  /\ closes'[k].pc = pc /\ closes'[k].pane = closes[k].pane
           /\ \A l \in Closers : l # k => closes'[l] = closes[l]
BY DEF Closings

\* What hangs up on a child leaves it running no more.
LEMMA HungIs ==
    ASSUME NEW p \in Panes, child \in [Panes -> Fates]
    PROVE  Hung(p) \in Fates /\ Hung(p) # "running" /\ (Hung(p) = "none" <=> child[p] = "none")
BY DEF Hung, Fates

\* Tidy is kept where the children, the readers and who looks after them are left alone.
LEMMA TidyStays ==
    ASSUME Tidy, UNCHANGED <<childVars, teardown, opens, closes, table, closed>>
    PROVE  Tidy'
<1>1. UNCHANGED <<child, reader, waiter>> /\ UNCHANGED Tabled /\ UNCHANGED Live
  BY DEF childVars, Tabled, Live
<1> QED BY <1>1 DEF Tidy

\* Every step of an open keeps it,
LEMMA TidyOpen ==
    ASSUME Tidy, Owed, ScreenKept, ScreenKept', NEW o \in Openers,
           OpenReads(o) \/ OpenForks(o) \/ OpenPublishes(o) \/ OpenUnwinds(o) \/ OpenRuns(o)
    PROVE  Tidy'
<1>0. PanesTyped /\ o \in Panes BY DEF ScreenKept, Panes
<1>01. /\ child \in [Panes -> Fates] /\ reader \in [Panes -> {"none", "owed", "reading", "done"}]
       /\ teardown \in {"no", "closing", "waiting", "over"} /\ closed \subseteq Tabled
  BY <1>0 DEF Tidy, PanesTyped
<1>02. opens[o].pc \in {"start", "fork", "publish"} => o \notin Tabled /\ o \notin closed /\ o \notin Live /\ reader[o] = "none"
  BY <1>0, <1>01 DEF Tidy, PanesTyped, Live, Tabled
<1>1. CASE OpenReads(o)
  <2>1. UNCHANGED <<child, reader, waiter, teardown, closes, table, closed>>
    BY <1>1 DEF OpenReads, childVars, treeVars
  <2>2. UNCHANGED Tabled /\ UNCHANGED Live BY <2>1 DEF Tabled, Live
  <2>3. \A q \in Openers : q # o => opens'[q] = opens[q] BY <1>0, <1>1 DEF OpenReads, PanesTyped
  <2>4. opens[o].pc = "start" BY <1>1 DEF OpenReads
  <2>5. \A p \in Panes : reader'[p] = "owed" => p \in Openers /\ opens'[p].pc = "run"
    BY <2>1, <2>3, <2>4 DEF Tidy
  <2>6. \A p \in Panes : child'[p] # "none" =>
          p \in waiter' \/ (p \in Openers /\ opens'[p].pc \in {"publish", "run"})
    BY <2>1, <2>3, <2>4 DEF Tidy
  <2> QED BY <2>1, <2>2, <2>5, <2>6 DEF Tidy
<1>2. CASE OpenForks(o)
  <2>1. UNCHANGED <<reader, waiter, teardown, closes, table, closed>> /\ opens[o].pc = "fork"
    BY <1>2 DEF OpenForks, treeVars
  <2>2. UNCHANGED Tabled /\ UNCHANGED Live BY <2>1 DEF Tabled, Live
  <2>3. PICK pc \in {"publish", "done"} :
          /\ opens' = [opens EXCEPT ![o].pc = pc]
          /\ child' = IF pc = "publish" THEN [child EXCEPT ![o] = "running"] ELSE child
    BY <1>2 DEF OpenForks
  <2>4. opens'[o].pc = pc /\ \A q \in Openers : q # o => opens'[q] = opens[q] BY <1>0, <2>3, OpensMove
  <2>5. child' \in [Panes -> Fates] /\ (\A p \in Panes : p # o => child'[p] = child[p])
        /\ (pc = "done" => child' = child)
    BY <1>01, <2>3 DEF Fates
  <2>6. \A p \in Panes : reader'[p] = "owed" => p \in Openers /\ opens'[p].pc = "run" BY <2>1, <2>4 DEF Tidy
  <2>7. \A p \in Panes : child'[p] # "none" =>
          p \in waiter' \/ (p \in Openers /\ opens'[p].pc \in {"publish", "run"})
    BY <2>1, <2>4, <2>5 DEF Tidy
  <2>8. \A p \in closed' : child'[p] = "running" => \E k \in Closers : closes'[k].pc = "reap" /\ closes'[k].pane = p
    <3>1. closed \subseteq Panes BY <1>0, <1>01, OnScreenPanes
    <3> QED BY <1>02, <2>1, <2>5, <3>1 DEF Tidy
  <2>9. teardown' \in {"waiting", "over"} => \A p \in Live' : child'[p] # "running"
    <3>1. Live \subseteq Panes BY <1>0, OnScreenPanes
    <3> QED BY <1>02, <2>1, <2>2, <2>5, <3>1 DEF Tidy
  <2> QED BY <2>1, <2>2, <2>5, <2>6, <2>7, <2>8, <2>9 DEF Tidy
<1>3. CASE OpenPublishes(o)
  <2>1. /\ opens' = [opens EXCEPT ![o].pc = "run"] /\ reader' = [reader EXCEPT ![o] = "owed"]
        /\ teardown = "no" /\ UNCHANGED <<child, waiter, teardown, closes, closed>>
    BY <1>3 DEF OpenPublishes, Admits
  <2>2. Tabled' = Tabled \cup {o} BY <1>3, ScreenOpenPublishes
  <2>3. opens'[o].pc = "run" /\ \A q \in Openers : q # o => opens'[q] = opens[q] BY <1>0, <2>1, OpensMove
  <2>4. reader' \in [Panes -> {"none", "owed", "reading", "done"}]
        /\ reader'[o] = "owed" /\ \A p \in Panes : p # o => reader'[p] = reader[p]
    BY <1>0, <1>01, <2>1
  <2>5. \A p \in Panes : reader'[p] = "owed" => p \in Openers /\ opens'[p].pc = "run"
    BY <2>3, <2>4 DEF Tidy
  <2>6. \A p \in Panes : reader'[p] # "none" => p \in Tabled' BY <2>2, <2>4 DEF Tidy
  <2>7. \A p \in Panes : child'[p] # "none" =>
          p \in waiter' \/ (p \in Openers /\ opens'[p].pc \in {"publish", "run"})
    BY <2>1, <2>3 DEF Tidy
  <2> QED BY <1>01, <2>1, <2>4, <2>5, <2>6, <2>7 DEF Tidy
<1>4. CASE OpenUnwinds(o)
  <2>1. /\ opens' = [opens EXCEPT ![o].pc = "done"] /\ child' = [child EXCEPT ![o] = Hung(o)]
        /\ waiter' = waiter \cup {o} /\ opens[o].pc = "publish"
        /\ UNCHANGED <<reader, teardown, closes, table, closed>>
    BY <1>4 DEF OpenUnwinds, Unwound, treeVars
  <2>2. UNCHANGED Tabled /\ UNCHANGED Live BY <2>1 DEF Tabled, Live
  <2>3. opens'[o].pc = "done" /\ \A q \in Openers : q # o => opens'[q] = opens[q] BY <1>0, <2>1, OpensMove
  <2>4. child' \in [Panes -> Fates] /\ child'[o] # "running" /\ (\A p \in Panes : p # o => child'[p] = child[p])
    BY <1>0, <1>01, <2>1, HungIs
  <2>5. closed \subseteq Panes /\ Live \subseteq Panes BY <1>0, <1>01, OnScreenPanes
  <2>6. \A p \in Panes : reader'[p] = "owed" => p \in Openers /\ opens'[p].pc = "run"
    BY <2>1, <2>3 DEF Tidy
  <2>7. \A p \in Panes : child'[p] # "none" =>
          p \in waiter' \/ (p \in Openers /\ opens'[p].pc \in {"publish", "run"})
    BY <2>1, <2>3, <2>4 DEF Tidy
  <2>8. \A p \in closed' : child'[p] = "running" => \E k \in Closers : closes'[k].pc = "reap" /\ closes'[k].pane = p
    BY <2>1, <2>4, <2>5 DEF Tidy
  <2>9. teardown' \in {"waiting", "over"} => \A p \in Live' : child'[p] # "running"
    BY <2>1, <2>2, <2>4, <2>5 DEF Tidy
  <2> QED BY <2>1, <2>2, <2>4, <2>6, <2>7, <2>8, <2>9 DEF Tidy
<1>5. CASE OpenRuns(o)
  <2>1. /\ opens' = [opens EXCEPT ![o].pc = "done"] /\ reader' = [reader EXCEPT ![o] = "reading"]
        /\ waiter' = waiter \cup {o} /\ opens[o].pc = "run"
        /\ UNCHANGED <<child, teardown, closes, table, closed>>
    BY <1>5 DEF OpenRuns, treeVars
  <2>2. UNCHANGED Tabled /\ UNCHANGED Live BY <2>1 DEF Tabled, Live
  <2>3. opens'[o].pc = "done" /\ \A q \in Openers : q # o => opens'[q] = opens[q] BY <1>0, <2>1, OpensMove
  <2>4. reader' \in [Panes -> {"none", "owed", "reading", "done"}]
        /\ reader'[o] = "reading" /\ \A p \in Panes : p # o => reader'[p] = reader[p]
    BY <1>0, <1>01, <2>1
  <2>5. \A p \in Panes : reader'[p] = "owed" => p \in Openers /\ opens'[p].pc = "run"
    BY <2>1, <2>3, <2>4 DEF Tidy
  <2>6. o \in Tabled
    <3>1. o \in Panes /\ reader[o] = "owed" BY <1>0, <2>1 DEF Owed
    <3> QED BY <3>1 DEF Tidy
  <2>7. \A p \in Panes : reader'[p] # "none" => p \in Tabled' BY <2>2, <2>4, <2>6 DEF Tidy
  <2>8. \A p \in Panes : child'[p] # "none" =>
          p \in waiter' \/ (p \in Openers /\ opens'[p].pc \in {"publish", "run"})
    BY <2>1, <2>3 DEF Tidy
  <2> QED BY <1>01, <2>1, <2>2, <2>4, <2>5, <2>7, <2>8 DEF Tidy
<1> QED BY <1>1, <1>2, <1>3, <1>4, <1>5

\* so does what the children and their goroutines do by themselves,
LEMMA TidyEnds ==
    ASSUME Tidy, NEW P \in SUBSET Panes, UNCHANGED <<table, closed, opens, closes, waiter>>,
           teardown' \in {"no", "closing", "waiting", "over"},
           child' \in [Panes -> Fates], reader' \in [Panes -> {"none", "owed", "reading", "done"}],
           \A p \in Panes : reader'[p] = reader[p] \/ (reader[p] # "none" /\ reader'[p] = "done"),
           \A p \in Panes : child'[p] = child[p] \/ (child[p] # "none" /\ child'[p] # "running"),
           teardown' \in {"waiting", "over"} =>
             teardown \in {"waiting", "over"} \/ \A p \in Live : child'[p] # "running",
           Live \subseteq Panes, closed \subseteq Panes
    PROVE  Tidy'
<1>1. UNCHANGED Tabled /\ UNCHANGED Live BY DEF Tabled, Live
<1>2. \A p \in Panes : reader'[p] = "owed" => p \in Openers /\ opens'[p].pc = "run" BY DEF Tidy
<1>3. \A p \in Panes : reader'[p] # "none" => p \in Tabled' BY <1>1 DEF Tidy
<1>4. \A p \in Panes : child'[p] # "none" =>
        p \in waiter' \/ (p \in Openers /\ opens'[p].pc \in {"publish", "run"}) BY DEF Tidy
<1>5. \A p \in closed' : child'[p] = "running" => \E k \in Closers : closes'[k].pc = "reap" /\ closes'[k].pane = p
  BY DEF Tidy
<1>6. teardown' \in {"waiting", "over"} => \A p \in Live' : child'[p] # "running" BY <1>1 DEF Tidy
<1> QED BY <1>2, <1>3, <1>4, <1>5, <1>6 DEF Tidy

\* and a close.
LEMMA TidyClose ==
    ASSUME Tidy, ScreenKept, closes \in [Closers -> Closings], NEW k \in Closers,
           (\E p \in Panes : CloseDetaches(k, p)) \/ CloseReaps(k) \/ CloseTells(k)
    PROVE  Tidy'
<1>0. PanesTyped /\ Live \subseteq Panes /\ closed \subseteq Panes
  BY OnScreenPanes DEF ScreenKept, PanesTyped
<1>1. ASSUME NEW p \in Panes, CloseDetaches(k, p) PROVE Tidy'
  <2>1. /\ closes[k].pc = "start" /\ closed' = closed \cup {p}
        /\ closes' = [closes EXCEPT ![k] = [pc |-> "reap", pane |-> p, last |-> LastOne(closed')]]
        /\ UNCHANGED <<child, reader, waiter, table, opens, teardown>>
    BY <1>1 DEF CloseDetaches, childVars
  <2>2. Live' = Live \ {p} /\ Tabled' = Tabled BY <1>1, <2>1, ScreenCloseDetaches DEF Tabled
  <2>3. closes'[k].pc = "reap" /\ closes'[k].pane = p /\ \A l \in Closers : l # k => closes'[l] = closes[l]
    BY <2>1
  <2>4. \A q \in closed' : child'[q] = "running" => \E l \in Closers : closes'[l].pc = "reap" /\ closes'[l].pane = q
    <3> SUFFICES ASSUME NEW q \in closed', child'[q] = "running"
        PROVE \E l \in Closers : closes'[l].pc = "reap" /\ closes'[l].pane = q OBVIOUS
    <3>1. CASE q = p BY <2>3, <3>1
    <3>2. CASE q # p
      <4>1. PICK l \in Closers : closes[l].pc = "reap" /\ closes[l].pane = q BY <2>1, <3>2 DEF Tidy
      <4>2. l # k BY <2>1, <4>1
      <4> QED BY <2>3, <4>1, <4>2
    <3> QED BY <3>1, <3>2
  <2> QED BY <2>1, <2>2, <2>4 DEF Tidy
<1>2. CASE CloseReaps(k)
  <2> DEFINE p == closes[k].pane
  <2>1. /\ closes' = [closes EXCEPT ![k].pc = "tell"] /\ child' = [child EXCEPT ![p] = Hung(p)]
        /\ UNCHANGED <<reader, waiter, table, closed, opens, teardown>>
    BY <1>2 DEF CloseReaps, treeVars
  <2>2. UNCHANGED Live /\ UNCHANGED Tabled BY <2>1 DEF Live, Tabled
  <2>3. closes'[k].pc = "tell" /\ \A l \in Closers : l # k => closes'[l] = closes[l] BY <2>1, ClosesMove
  <2> HIDE DEF p
  <2>4. /\ child' \in [Panes -> Fates]
        /\ p \in Panes => child'[p] # "running"
        /\ \A q \in Panes : child'[q] = child[q] \/ (child[q] # "none" /\ child'[q] # "running")
    <3>1. child \in [Panes -> Fates] BY DEF Tidy
    <3>2. CASE p \in Panes
      <4>1. Hung(p) \in Fates /\ Hung(p) # "running" /\ (child[p] = "none" => Hung(p) = child[p])
        BY <3>1, <3>2, HungIs
      <4> QED BY <2>1, <3>1, <3>2, <4>1
    <3>3. CASE p \notin Panes BY <2>1, <3>1, <3>3
    <3> QED BY <3>2, <3>3
  <2>5. \A q \in closed' : child'[q] = "running" => \E l \in Closers : closes'[l].pc = "reap" /\ closes'[l].pane = q
    <3> SUFFICES ASSUME NEW q \in closed, child'[q] = "running"
        PROVE \E l \in Closers : closes'[l].pc = "reap" /\ closes'[l].pane = q BY <2>1
    <3>1. q # p /\ child[q] = "running" BY <1>0, <2>4
    <3>2. PICK l \in Closers : closes[l].pc = "reap" /\ closes[l].pane = q BY <3>1 DEF Tidy
    <3>3. l # k BY <3>1, <3>2 DEF p
    <3> QED BY <2>3, <3>2, <3>3
  <2>6. \A q \in Panes : child'[q] # "none" =>
          q \in waiter' \/ (q \in Openers /\ opens'[q].pc \in {"publish", "run"})
    BY <2>1, <2>4 DEF Tidy
  <2>7. teardown' \in {"waiting", "over"} => \A q \in Live' : child'[q] # "running"
    BY <1>0, <2>1, <2>2, <2>4 DEF Tidy
  <2> QED BY <2>1, <2>2, <2>4, <2>5, <2>6, <2>7 DEF Tidy
<1>3. CASE CloseTells(k)
  <2>1. /\ closes[k].pc = "tell" /\ closes' = [closes EXCEPT ![k].pc = "done"]
        /\ UNCHANGED <<child, reader, waiter, table, closed, opens, teardown>>
    BY <1>3 DEF CloseTells, treeVars, childVars
  <2>2. UNCHANGED Live /\ UNCHANGED Tabled BY <2>1 DEF Live, Tabled
  <2>3. \A l \in Closers : l # k => closes'[l] = closes[l] BY <2>1, ClosesMove
  <2>4. \A q \in closed' : child'[q] = "running" => \E l \in Closers : closes'[l].pc = "reap" /\ closes'[l].pane = q
    <3> SUFFICES ASSUME NEW q \in closed, child[q] = "running"
        PROVE \E l \in Closers : closes'[l].pc = "reap" /\ closes'[l].pane = q BY <2>1
    <3>1. PICK l \in Closers : closes[l].pc = "reap" /\ closes[l].pane = q BY DEF Tidy
    <3> QED BY <2>1, <2>3, <3>1
  <2> QED BY <2>1, <2>2, <2>4 DEF Tidy
<1> QED BY <1>1, <1>2, <1>3

\* Every step keeps it.
LEMMA TidyNext ==
    ASSUME Tidy, Owed, LastIsTold, ScreenKept, ScreenKept', [TreeNext]_paneVars
    PROVE  Tidy'
<1>0. Live \subseteq Panes /\ closed \subseteq Panes BY OnScreenPanes DEF ScreenKept, PanesTyped
<1>00. /\ child \in [Panes -> Fates] /\ reader \in [Panes -> {"none", "owed", "reading", "done"}]
       /\ teardown \in {"no", "closing", "waiting", "over"}
  BY DEF Tidy
<1>1. CASE UNCHANGED paneVars BY <1>1, TidyStays DEF paneVars, treeVars
<1>2. CASE HidePanel \/ ShowPanel \/ Reshapes \/ MoveFocus
  <2>1. Changes BY <1>2 DEF HidePanel, ShowPanel, Reshapes, MoveFocus, ToggleStatus, WindowChanges, Resize, Release
  <2> QED BY <2>1, TidyStays DEF Changes
<1>3. ASSUME NEW k \in Closers, CloseGoesOn(k) PROVE Tidy'
  BY <1>3, TidyClose DEF CloseGoesOn, LastIsTold
<1>4. ASSUME NEW k \in Closers, NEW p \in Panes, CloseDetaches(k, p) PROVE Tidy'
  BY <1>4, TidyClose DEF LastIsTold
<1>5. ASSUME NEW p \in Panes, ChildEnds(p) \/ Reap(p) PROVE Tidy'
  <2>1. UNCHANGED <<table, closed, opens, closes, waiter, teardown, reader>>
    BY <1>5 DEF ChildEnds, Reap, treeVars
  <2>2. \E to \in {"eof", "exited", "reaped"} : child[p] # "none" /\ child' = [child EXCEPT ![p] = to]
    BY <1>5 DEF ChildEnds, Reap
  <2>3. /\ child' \in [Panes -> Fates]
        /\ \A q \in Panes : child'[q] = child[q] \/ (child[q] # "none" /\ child'[q] # "running")
    BY <1>00, <2>2 DEF Fates
  <2> QED BY <1>0, <1>00, <2>1, <2>3, TidyEnds
<1>6. ASSUME NEW p \in Panes, ReaderEnds(p) PROVE Tidy'
  <2>1. /\ UNCHANGED <<table, closed, opens, closes, waiter, teardown, child>>
        /\ reader[p] = "reading" /\ reader' = [reader EXCEPT ![p] = "done"]
    BY <1>6 DEF ReaderEnds, treeVars
  <2>2. /\ reader' \in [Panes -> {"none", "owed", "reading", "done"}]
        /\ \A q \in Panes : reader'[q] = reader[q] \/ (reader[q] # "none" /\ reader'[q] = "done")
    BY <1>00, <2>1
  <2> QED BY <1>0, <1>00, <2>1, <2>2, TidyEnds
<1>7. CASE Quits \/ CleanupBegins \/ CleanupReturns
  <2>1. /\ UNCHANGED <<table, closed, opens, closes, waiter, child, reader>>
        /\ teardown' \in {"no", "closing", "waiting", "over"}
        /\ teardown' \in {"waiting", "over"} => teardown \in {"waiting", "over"}
    BY <1>00, <1>7 DEF Quits, CleanupBegins, CleanupReturns, treeVars, childVars
  <2> QED BY <1>0, <1>00, <2>1, TidyEnds
<1>8. CASE Cleanup
  <2>1. /\ UNCHANGED <<table, closed, opens, closes, waiter, reader>> /\ teardown' = "waiting"
        /\ child' = [p \in Panes |-> IF p \in Live THEN Hung(p) ELSE child[p]]
    BY <1>8 DEF Cleanup, treeVars
  <2>2. \A p \in Panes : Hung(p) \in Fates /\ Hung(p) # "running" /\ (child[p] = "none" => Hung(p) = child[p])
    BY <1>00, HungIs
  <2>3. /\ child' \in [Panes -> Fates]
        /\ \A q \in Panes : child'[q] = child[q] \/ (child[q] # "none" /\ child'[q] # "running")
        /\ \A p \in Live : child'[p] # "running"
    BY <1>0, <1>00, <2>1, <2>2
  <2> QED BY <1>0, <1>00, <2>1, <2>3, TidyEnds
<1>9. CASE Elsewhere
  BY <1>3, <1>5, <1>6, <1>7, <1>8, <1>9 DEF Elsewhere, Goroutine, Ending
<1> QED BY <1>1, <1>2, <1>4, <1>9, TidyOpen, NextCases

\* At rest nothing that runs by itself can take a step.
LEMMA RestsAtRest ==
    ASSUME AtRest
    PROVE  ~ Running
BY DEF AtRest, Running, OpenGoesOn, OpenForks, OpenPublishes, OpenUnwinds, OpenRuns, CloseGoesOn, CloseReaps,
       CloseTells, Goroutine, ReaderEnds, Reap, Ending, CleanupBegins, Cleanup, CleanupReturns

\* EndsAreClean, for any number of opens and closes: the last session takes magmux with
\* it, every child that has ended is collected, and a cleanup that began returns
\* (ClosePane, unwindPane, waitForChild, cleanup).
THEOREM EveryEndIsClean == TreeSpec => []EndsAreClean
<1>1. TreeInit => Tidy
  <2> SUFFICES ASSUME TreeInit PROVE Tidy OBVIOUS
  <2>1. /\ table = <<Session, Panel>> /\ closed = {} /\ waiter = {Session} /\ teardown = "no"
        /\ child = [p \in Panes |-> IF p = Session THEN "running" ELSE "none"]
        /\ reader = [p \in Panes |-> IF p = Session THEN "reading" ELSE "none"]
    BY DEF TreeInit
  <2>2. Session \in Panes /\ Session \in Tabled BY <2>1 DEF Panes, Tabled
  <2> QED BY <2>1, <2>2 DEF Tidy, Fates
<1>2. TreeSpec => [](Owed /\ LastIsTold)
  BY OwedInit, OwedNext, LastInit, LastNext, ScreenIsAlwaysKept, PTL DEF TreeSpec
<1>3. Tidy /\ Owed /\ LastIsTold /\ ScreenKept /\ ScreenKept' /\ [TreeNext]_paneVars => Tidy' BY TidyNext
<1>4. Tidy /\ ScreenKept => NothingIsLeftOver
  <2> SUFFICES ASSUME Tidy, ScreenKept, AtRest
      PROVE  /\ teardown \in {"no", "over"}
             /\ teardown = "no" => \A p \in Panes : child[p] # "exited"
    BY DEF NothingIsLeftOver
  <2>1. \A p \in Panes : child[p] # "exited" BY DEF Tidy, AtRest
  <2>2. ASSUME teardown = "waiting" PROVE FALSE
    <3>1. PICK p \in Panes : reader[p] \in {"owed", "reading"} BY <2>2 DEF AtRest, Counted
    <3>2. reader[p] = "reading" BY <3>1 DEF Tidy, AtRest
    <3>3. child[p] = "running" BY <3>2 DEF AtRest
    <3>4. p \in Tabled BY <3>2 DEF Tidy
    <3>5. p \notin Live BY <2>2, <3>3 DEF Tidy
    <3>6. p \in closed BY <3>4, <3>5, OnScreenPanes DEF ScreenKept
    <3>7. PICK k \in Closers : closes[k].pc = "reap" BY <3>3, <3>6 DEF Tidy
    <3> QED BY <3>7 DEF AtRest
  <2>3. teardown \in {"no", "over"} BY <2>2 DEF Tidy, AtRest
  <2> QED BY <2>1, <2>3
<1> QED BY <1>1, <1>2, <1>3, <1>4, ScreenIsAlwaysKept, TheLastOneQuits, PTL DEF TreeSpec, EndsAreClean

-----------------------------------------------------------------------------
\* What the layout looks like with the panel back beside `node`.
PutBack(kids, root, a, id) ==
    Shape(SplicedKids(kids, a.node, id,
                      [type |-> a.type, percent |-> a.percent,
                       first |-> IF a.first THEN Panel ELSE a.node,
                       second |-> IF a.first THEN a.node ELSE Panel]),
          IF root = a.node THEN id ELSE root)

\* The anchor remembers where the panel was.
Remembers ==
    before # <<>> =>
      /\ hidden
      /\ \/ tree.root = Nil /\ before = <<<<Panel>>>>
         \/ /\ tree.root # Nil /\ anchor.node \in OnScreen \cup DOMAIN tree.kids
            /\ \A id \in Splits : id \notin DOMAIN tree.kids => PutBack(tree.kids, tree.root, anchor, id) = before

\* What the anchor remembers stays while the tree keeps its splits.
LEMMA RemembersStays ==
    ASSUME Remembers, UNCHANGED <<hidden, anchor, before>>, UNCHANGED OnScreen,
           tree'.kids = tree.kids, tree'.root = tree.root
    PROVE  Remembers'
BY DEF Remembers

\* A panel taken from its split and put back by another name leaves the same shape.
LEMMA ShapeBack ==
    ASSUME NEW kids, NEW root, NEW L, NEW par, NEW sib, Removes(kids, root, L, Panel, par, sib),
           NEW id \in Splits, id \notin DOMAIN RemovedKids(kids, par, sib)
    PROVE  Shape(SplicedKids(RemovedKids(kids, par, sib), sib, id, kids[par]),
                 IF (IF root = par THEN sib ELSE root) = sib THEN id ELSE IF root = par THEN sib ELSE root)
             = Shape(kids, root)
<1> DEFINE K == RemovedKids(kids, par, sib)
           top == IF root = par THEN sib ELSE root
           K2 == SplicedKids(K, sib, id, kids[par])
           now(n) == IF n = par THEN id ELSE n
           N == L \cup DOMAIN kids
<1>1. IsRemoval(K, kids, L, Panel, par, sib) /\ Rooted(K, top, L \ {Panel})
    BY RemovedIs, RemovedRooted
<1>2. /\ Rooted(kids, root, L) /\ Forest(kids) /\ par \in DOMAIN kids /\ Panel \in L /\ root \in N
      /\ {kids[par].first, kids[par].second} = {Panel, sib} /\ Panel # sib BY DEF Removes, Rooted
<1> HIDE DEF K, top
<1>3. /\ DOMAIN K = DOMAIN kids \ {par} /\ sib \in N \ {Panel, par}
      /\ Above(kids, sib) = {par} /\ Above(kids, Panel) = {par} BY <1>1 DEF IsRemoval
<1>4. kids[par].type \in Types /\ kids[par].percent \in Percents /\ kids[par].first # kids[par].second
      /\ par \notin Panes /\ kids[par] \in Halves(Nodes(kids)) BY <1>2, Kid
<1>5. kids[par] \in Halves({sib, Panel}) BY <1>2, <1>4 DEF Halves
<1>6. Splices(K, top, L \ {Panel}, sib, Panel, id, kids[par])
  <2>1. sib \in (L \ {Panel}) \cup DOMAIN K BY <1>3
  <2>2. id \notin DOMAIN K BY DEF K
  <2> QED BY <1>1, <1>4, <1>5, <2>1, <2>2, NamesApart DEF Splices
<1>7. Forest(K2) /\ IsSplice(K2, K, sib, Panel, id, kids[par]) BY <1>6, SplicedForest, SplicedIs
<1>70. id \notin DOMAIN K /\ id \notin Panes BY NamesApart DEF K
<1> HIDE DEF K2
<1>8. PICK f : f = Spelled(kids, Mark(kids), f) /\ \A n \in Nodes(kids) : Shape(kids, n) = f[n]
    BY <1>2, ShapeIs
<1>9. PICK g : g = Spelled(K2, Mark(K2), g) /\ \A n \in Nodes(K2) : Shape(K2, n) = g[n]
    BY <1>7, ShapeIs
<1>10. /\ DOMAIN K2 = DOMAIN K \cup {id} /\ K2[id] = kids[par] /\ Renames(K2, K, sib, id)
    BY <1>7 DEF IsSplice
<1>11. Nodes(K2) = Panes \cup DOMAIN K \cup {id} BY <1>10 DEF Nodes
<1>12. /\ \A n \in Nodes(kids) : f[n] = IF n \in Panes THEN <<<<n>>>>
                                       ELSE <<<<kids[n].type, kids[n].percent>>>> \o f[kids[n].first] \o f[kids[n].second]
       /\ \A n \in Nodes(K2) : g[n] = IF n \in Panes THEN <<<<n>>>>
                                     ELSE <<<<K2[n].type, K2[n].percent>>>> \o g[K2[n].first] \o g[K2[n].second]
  BY <1>8, <1>9 DEF Spelled, Mark
<1>13. N \subseteq Nodes(kids) /\ L \subseteq Panes BY <1>2, RootedNodes DEF Rooted
<1>14. ASSUME NEW m \in DOMAIN K
       PROVE  /\ K2[m].type = kids[m].type /\ K2[m].percent = kids[m].percent
              /\ K2[m].first = now(kids[m].first) /\ K2[m].second = now(kids[m].second)
  <2>1. /\ K2[m].type = K[m].type /\ K2[m].percent = K[m].percent
        /\ K2[m].first = IF K[m].first = sib THEN id ELSE K[m].first
        /\ K2[m].second = IF K[m].second = sib THEN id ELSE K[m].second BY <1>10 DEF Renames
  <2>2. /\ K[m].type = kids[m].type /\ K[m].percent = kids[m].percent
        /\ K[m].first = IF kids[m].first = par THEN sib ELSE kids[m].first
        /\ K[m].second = IF kids[m].second = par THEN sib ELSE kids[m].second BY <1>1 DEF IsRemoval
  <2>3. kids[m].first # sib /\ kids[m].second # sib
    <3>1. m \in DOMAIN kids /\ m \notin Above(kids, sib) BY <1>3
    <3> QED BY <3>1 DEF Above
  <2> QED BY <2>1, <2>2, <2>3
<1> DEFINE B == {n \in N : g[now(n)] # f[n]}
<1>15. ASSUME B # {} PROVE FALSE
  <2>1. B \in SUBSET Nodes(kids) BY <1>13
  <2>2. PICK m \in B : m \in DOMAIN kids => kids[m].first \notin B /\ kids[m].second \notin B
    <3> HIDE DEF B
    <3> QED BY <1>2, <1>15, <2>1, BottomOf
  <2>3. m \in Nodes(kids) BY <2>1
  <2>4. CASE m \in Panes
    <3>1. now(m) = m /\ m \in Nodes(K2) BY <1>4, <1>11, <2>4
    <3> QED BY <1>12, <2>2, <2>3, <2>4, <3>1
  <2>5. CASE m \notin Panes
    <3>1. m \in DOMAIN kids BY <2>3, <2>5 DEF Nodes
    <3>2. kids[m].first \in N /\ kids[m].second \in N BY <1>2, <3>1 DEF Rooted
    <3>3. g[now(kids[m].first)] = f[kids[m].first] /\ g[now(kids[m].second)] = f[kids[m].second]
      BY <2>2, <3>1, <3>2
    <3>4. f[m] = <<<<kids[m].type, kids[m].percent>>>> \o f[kids[m].first] \o f[kids[m].second]
        BY <1>12, <2>3, <2>5
    <3>5. CASE m = par
      <4>1. now(m) = id /\ id \in Nodes(K2) BY <1>11, <3>5
      <4>2. g[id] = <<<<K2[id].type, K2[id].percent>>>> \o g[K2[id].first] \o g[K2[id].second]
          BY <1>12, <1>70, <4>1
      <4>3. now(kids[par].first) = kids[par].first /\ now(kids[par].second) = kids[par].second
        <5>1. par # Panel /\ par # sib BY <1>3, <1>4, NamesApart
        <5> QED BY <1>2, <5>1
      <4>4. g[id] = f[m]
        <5> HIDE DEF now
        <5> QED BY <1>10, <3>3, <3>4, <3>5, <4>2, <4>3
      <4> QED BY <2>2, <4>1, <4>4
    <3>6. CASE m # par
      <4>1. m \in DOMAIN K /\ now(m) = m /\ m \in Nodes(K2) BY <1>3, <1>11, <3>1, <3>6
      <4>2. g[m] = <<<<K2[m].type, K2[m].percent>>>> \o g[K2[m].first] \o g[K2[m].second]
          BY <1>12, <2>5, <4>1
      <4>3. g[m] = f[m]
        <5> HIDE DEF now
        <5> QED BY <1>14, <3>3, <3>4, <4>1, <4>2
      <4> QED BY <2>2, <4>1, <4>3
    <3> QED BY <3>5, <3>6
  <2> QED BY <2>4, <2>5
<1>16. g[now(root)] = f[root] BY <1>2, <1>15
<1>17. (IF top = sib THEN id ELSE top) = now(root)
  <2>1. root # sib BY <1>2, <1>3, RootedNodes
  <2> QED BY <2>1 DEF top
<1>18. now(root) \in Nodes(K2)
  <2>1. root \in Panes \/ root \in DOMAIN kids BY <1>2, <1>13
  <2> QED BY <1>3, <1>4, <1>11, <2>1
<1>19. root \in Nodes(kids) BY <1>2, <1>13
<1>20. Shape(K2, IF top = sib THEN id ELSE top) = Shape(kids, root)
  <2> HIDE DEF now
  <2> QED BY <1>8, <1>9, <1>16, <1>17, <1>18, <1>19
<1> QED BY <1>20 DEF K2, K, top

\* Hiding the panel remembers where it was,
LEMMA RemembersHide ==
    ASSUME ScreenKept, HidePanel
    PROVE  Remembers'
<1> DEFINE c == Canvas(screen, screen.size)
<1>1. /\ Panel \in OnScreen /\ tree' = Removed(Panel) /\ hidden' = TRUE
      /\ anchor' = IF Parent(Panel) = {} THEN NoAnchor
                   ELSE AnchorIn(tree.kids[CHOOSE s \in Parent(Panel) : TRUE])
      /\ before' = Shape(tree.kids, tree.root)
  BY DEF HidePanel
<1>2. Shows(tree, OnScreen, c) BY DEF ScreenKept
<1>20. Panel \in Panes BY NamesApart
<1>3. OnScreen' = OnScreen \ {Panel} BY <1>1 DEF HidePanel, Changes, OnScreen, Live
<1> HIDE DEF c
<1>4. CASE Parent(Panel) = {}
  <2>1. tree.root = Panel
    <3>1. tree.root # Nil BY <1>1, <1>2 DEF Shows
    <3>2. Rooted(tree.kids, tree.root, OnScreen) BY <1>2, <3>1 DEF Shows
    <3> QED BY <1>1, <1>4, <3>2 DEF Rooted, Parent
  <2>2. Panel # Nil BY <1>20, NamesApart
  <2>3. tree'.root = Nil BY <1>1, <1>4, <2>1 DEF Removed
  <2>4. Forest(tree.kids) BY <1>2, <2>1, <2>2 DEF Shows, Rooted
  <2>5. PICK f : f = Spelled(tree.kids, Mark(tree.kids), f) /\ \A n \in Nodes(tree.kids) : Shape(tree.kids, n) = f[n]
    BY <2>4, ShapeIs
  <2>6. Panel \in Nodes(tree.kids) BY <1>20 DEF Nodes
  <2>7. f[Panel] = Mark(tree.kids)[Panel] BY <1>20, <2>5, <2>6 DEF Spelled
  <2>8. Mark(tree.kids)[Panel] = <<<<Panel>>>> BY <1>20, <2>6 DEF Mark
  <2>9. before' = <<<<Panel>>>> BY <1>1, <2>1, <2>5, <2>6, <2>7, <2>8
  <2> QED BY <1>1, <2>3, <2>9 DEF Remembers
<1>5. CASE Parent(Panel) # {}
  <2> DEFINE par == CHOOSE s \in Parent(Panel) : TRUE
             sib == Sibling(Panel)
             K == RemovedKids(tree.kids, par, sib)
             top == IF tree.root = par THEN sib ELSE tree.root
             a == AnchorIn(tree.kids[par])
             back == [type |-> a.type, percent |-> a.percent,
                      first |-> IF a.first THEN Panel ELSE a.node,
                      second |-> IF a.first THEN a.node ELSE Panel]
  <2>1. tree.root # Nil /\ Removes(tree.kids, tree.root, OnScreen, Panel, par, sib)
      BY <1>2, <1>5, <1>20, ParentIs
  <2>2. tree'.kids = K /\ tree'.root = top BY <1>1, <1>5 DEF Removed, RemovedKids
  <2>3. anchor' = a /\ a = [node |-> sib, type |-> tree.kids[par].type, percent |-> tree.kids[par].percent,
                            first |-> tree.kids[par].first = Panel] BY <1>1, <1>5 DEF AnchorIn
  <2> HIDE DEF par, sib, a
  <2>4. IsRemoval(K, tree.kids, OnScreen, Panel, par, sib) /\ Rooted(K, top, OnScreen \ {Panel})
    BY <2>1, RemovedIs, RemovedRooted
  <2>5. sib \in OnScreen' \cup DOMAIN K BY <1>3, <2>4 DEF IsRemoval
  <2>6. top # Nil
    <3>1. top \in Nodes(K) /\ DOMAIN K \subseteq Splits BY <2>4, RootedNodes DEF Rooted, Forest
    <3> HIDE DEF K, top
    <3> QED BY <3>1, NamesApart DEF Nodes
  <2>7. a.node = sib /\ back = tree.kids[par]
    <3>1. Forest(tree.kids) /\ par \in DOMAIN tree.kids /\ {tree.kids[par].first, tree.kids[par].second} = {Panel, sib}
          /\ Panel # sib BY <2>1 DEF Removes, Rooted
    <3>2. tree.kids[par] \in Halves(Nodes(tree.kids)) /\ tree.kids[par].first # tree.kids[par].second
        BY <3>1, Kid
    <3> DEFINE q == tree.kids[par]
    <3>3. q = [type |-> q.type, percent |-> q.percent, first |-> q.first, second |-> q.second]
        BY <3>2 DEF Halves
    <3>4. a.node = sib /\ a.type = q.type /\ a.percent = q.percent /\ a.first = (q.first = Panel)
        BY <2>3
    <3>5. {q.first, q.second} = {Panel, sib} /\ Panel # sib BY <3>1
    <3> HIDE DEF q
    <3>6. IF a.first THEN q.first = Panel /\ q.second = sib ELSE q.first = sib /\ q.second = Panel
      <4>1. CASE q.first = Panel BY <3>4, <3>5, <4>1
      <4>2. CASE q.first # Panel BY <3>4, <3>5, <4>2
      <4> QED BY <4>1, <4>2
    <3>7. back = q
      <4>1. CASE a.first BY <3>3, <3>4, <3>6, <4>1
      <4>2. CASE ~ a.first BY <3>3, <3>4, <3>6, <4>2
      <4> QED BY <4>1, <4>2
    <3> QED BY <3>4, <3>7 DEF q
  <2> HIDE DEF back
  <2>8. ASSUME NEW id \in Splits, id \notin DOMAIN K
        PROVE  PutBack(K, top, a, id) = Shape(tree.kids, tree.root)
    <3>1. Shape(SplicedKids(K, sib, id, tree.kids[par]), IF top = sib THEN id ELSE top) = Shape(tree.kids, tree.root)
      BY <2>1, <2>8, ShapeBack
    <3>2. PutBack(K, top, a, id) = Shape(SplicedKids(K, a.node, id, back), IF top = a.node THEN id ELSE top)
      BY DEF PutBack, back
    <3> HIDE DEF K, top
    <3> QED BY <2>7, <3>1, <3>2
  <2> HIDE DEF K, top
  <2>9. \A id \in Splits : id \notin DOMAIN tree'.kids => PutBack(tree'.kids, tree'.root, anchor', id) = before'
    BY <1>1, <2>2, <2>3, <2>8
  <2>10. hidden' /\ tree'.root # Nil /\ anchor'.node \in OnScreen' \cup DOMAIN tree'.kids
    BY <1>1, <2>2, <2>3, <2>5, <2>6, <2>7
  <2>11. (before # <<>> =>
      /\ hidden
      /\ \/ tree.root = Nil /\ before = <<<<Panel>>>>
         \/ /\ tree.root # Nil /\ anchor.node \in OnScreen \cup DOMAIN tree.kids
            /\ \A id \in Splits : id \notin DOMAIN tree.kids => PutBack(tree.kids, tree.root, anchor, id) = before)'
    BY <2>9, <2>10 DEF PutBack
  <2> QED BY <2>11 DEF Remembers
<1> QED BY <1>4, <1>5

\* and every step keeps it, or forgets that there is anything to remember.
LEMMA RemembersNext ==
    ASSUME Remembers, ScreenKept, [TreeNext]_paneVars
    PROVE  Remembers'
<1>1. CASE UNCHANGED <<treeVars, before>>
  <2>1. UNCHANGED <<hidden, anchor, before>> /\ UNCHANGED OnScreen /\ tree' = tree
      BY <1>1 DEF treeVars, OnScreen, Live
  <2> QED BY <2>1, RemembersStays
<1>2. CASE before' = <<>> BY <1>2 DEF Remembers
<1>3. CASE HidePanel BY <1>3, RemembersHide
<1>4. CASE Reshapes
  <2>1. /\ UNCHANGED <<table, closed, hidden, opens, anchor, focus, before>>
        /\ screen' \in Screens /\ tree' = Reflowed(tree, screen') BY <1>4, ReshapesIs
  <2>2. tree'.kids = tree.kids /\ tree'.root = tree.root BY <2>1, ScreenReflows
  <2>3. UNCHANGED OnScreen BY <2>1 DEF OnScreen, Live
  <2> QED BY <2>1, <2>2, <2>3, RemembersStays
<1>5. CASE MoveFocus
  <2>1. UNCHANGED <<table, closed, hidden, anchor, tree, before>> BY <1>5 DEF MoveFocus, Changes
  <2>2. UNCHANGED OnScreen BY <2>1 DEF OnScreen, Live
  <2> QED BY <2>1, <2>2, RemembersStays
<1>6. \/ UNCHANGED <<treeVars, before>> \/ before' = <<>> \/ HidePanel \/ Reshapes \/ MoveFocus
  <2>1. CASE UNCHANGED paneVars BY <2>1 DEF paneVars
  <2>2. CASE \E o \in Openers : OpenReads(o) \/ OpenForks(o) \/ OpenUnwinds(o) \/ OpenRuns(o)
    BY <2>2 DEF OpenReads, OpenForks, OpenUnwinds, OpenRuns
  <2>3. CASE \E o \in Openers : OpenPublishes(o) BY <2>3 DEF OpenPublishes
  <2>4. CASE \E k \in Closers, p \in Panes : CloseDetaches(k, p) BY <2>4 DEF CloseDetaches
  <2>5. CASE ShowPanel BY <2>5 DEF ShowPanel
  <2>6. CASE Elsewhere BY <2>6, ElsewhereIs
  <2> QED BY <2>1, <2>2, <2>3, <2>4, <2>5, <2>6, NextCases
<1> QED BY <1>1, <1>2, <1>3, <1>4, <1>5, <1>6

\* Showing the panel again brings the shape back.
LEMMA ShowsAgain ==
    ASSUME Remembers, ScreenKept, ShowPanel, before # <<>>
    PROVE  Shape(tree'.kids, tree'.root) = before
<1> DEFINE c == Canvas(screen, screen.size)
<1>1. \/ /\ PanelPlace = Nil
         /\ tree' = Reflowed([root |-> Panel, kids |-> <<>>, box |-> <<>>], screen)
      \/ /\ PanelPlace # Nil
         /\ tree' = Spliced(PanelPlace, Panel, anchor, anchor.first)
  BY DEF ShowPanel
<1>2. Shows(tree, OnScreen, c) BY DEF ScreenKept
<1>3. CASE tree.root = Nil
  <2>1. PanelPlace = Nil /\ before = <<<<Panel>>>> BY <1>3, PlaceIs DEF Remembers
  <2>2. tree' = Reflowed([root |-> Panel, kids |-> <<>>, box |-> <<>>], screen) BY <1>1, <2>1
  <2>3. Panel # Nil BY NamesApart
  <2>4. tree'.kids = <<>> /\ tree'.root = Panel BY <2>2, <2>3 DEF Reflowed
  <2>5. PICK f : f = Spelled(<<>>, Mark(<<>>), f) /\ \A n \in Nodes(<<>>) : Shape(<<>>, n) = f[n]
    BY NoHalves, ShapeIs
  <2>6. Panel \in Panes /\ Panel \in Nodes(<<>>) BY NoHalves, NamesApart
  <2>7. f[Panel] = Mark(<<>>)[Panel] BY <2>5, <2>6 DEF Spelled
  <2>8. Mark(<<>>)[Panel] = <<<<Panel>>>> BY <2>6 DEF Mark
  <2> QED BY <2>1, <2>4, <2>5, <2>6, <2>7, <2>8
<1>4. CASE tree.root # Nil
  <2> DEFINE id == CHOOSE s \in Splits \ {anchor.node} : s \notin DOMAIN tree.kids
  <2>1. anchor.node \in OnScreen \cup DOMAIN tree.kids
        /\ \A i \in Splits : i \notin DOMAIN tree.kids => PutBack(tree.kids, tree.root, anchor, i) = before
    BY <1>4 DEF Remembers
  <2>2. Rooted(tree.kids, tree.root, OnScreen) /\ DOMAIN tree.box = OnScreen \cup DOMAIN tree.kids
    BY <1>2, <1>4 DEF Shows, Placed
  <2>3. PanelPlace = anchor.node BY <2>1, <2>2 DEF PanelPlace
  <2>4. PanelPlace # Nil BY <1>4, PlaceIs
  <2>5. tree' = Spliced(anchor.node, Panel, anchor, anchor.first) BY <1>1, <2>3, <2>4
  <2>6. id \in Splits /\ id \notin DOMAIN tree.kids
    <3>1. Panel \notin OnScreen BY DEF Remembers, OnScreen
    <3>2. \E s \in Splits \ {anchor.node} : s \notin DOMAIN tree.kids
        BY <2>2, <3>1, FreshSplit, NamesApart
    <3> QED BY <3>2
  <2>7. Shape(tree'.kids, tree'.root) = PutBack(tree.kids, tree.root, anchor, id)
    BY <2>5 DEF Spliced, PutBack, SplicedKids
  <2> HIDE DEF id
  <2> QED BY <2>1, <2>6, <2>7
<1> QED BY <1>3, <1>4

\* PanelComesBack: a panel hidden and shown with nothing but resizes in between is where it
\* was, on its side and with its share (hidePanelLocked's anchor, showPanelLocked).
THEOREM ThePanelComesBack == TreeSpec => PanelComesBack
<1>1. TreeInit => Remembers BY DEF TreeInit, Remembers
<1>2. Remembers /\ ScreenKept /\ [TreeNext]_paneVars => Remembers' BY RemembersNext
<1>3. TreeSpec => []Remembers BY <1>1, <1>2, ScreenIsAlwaysKept, PTL DEF TreeSpec
<1>4. Remembers /\ ScreenKept /\ [TreeNext]_paneVars
        => [ShowPanel /\ before # <<>> => Shape(tree'.kids, tree'.root) = before]_paneVars
  BY ShowsAgain
<1> QED BY <1>3, <1>4, ScreenIsAlwaysKept, PTL DEF TreeSpec, PanelComesBack
=============================================================================
