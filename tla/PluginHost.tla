----------------------------- MODULE PluginHost -----------------------------
(***************************************************************************)
(* The plugin host (src/plugin/host.go, invoke.go, spawn.go): connections  *)
(* that register as plugins, the two ends that may notice a plugin is      *)
(* gone, the hub's op table, and invocations waiting for an answer.        *)
(*                                                                         *)
(* One action is one critical section of plugMu, hub.mu, plug.mu or        *)
(* Conn.mu, or one Publish.  A connection registers at most once, so the   *)
(* connection also names the plug it made.                                 *)
(***************************************************************************)
EXTENDS Naturals, FiniteSets

CONSTANTS
    Conns,       \* connections that ask to be plugins
    Names,       \* plugin names
    NoConn,
    NameOf,      \* the name each connection registers under
    OpsOf,       \* the ops it registers, before they are qualified
    Spawned,     \* the connections whose plugin magmux spawned itself
    Calls,       \* invocations of plugin ops
    MaxInFlight  \* MaxInFlight

ASSUME HostConstants ==
    /\ NameOf \in [Conns -> Names]
    /\ \A c \in Conns : OpsOf[c] # {}
    /\ NoConn \notin Conns /\ Spawned \subseteq Conns
    /\ MaxInFlight \in Nat \ {0}

VARIABLES
    plugins,   \* Host.plugins: which connection's plug has each name
    closing,   \* Host.closing
    ops,       \* Hub.ops: name, op, and (history) the connection it came from
    stale,     \* the op table has changed since the last ops_changed
    conn,      \* each connection's reader: registering, serving, closed
    plug,      \* Conn.p is set
    gone,      \* each unregister under way: by its reader, by reap
    process,   \* the processes magmux spawned
    exited,    \* history: the plugs whose plugin_exited has been published
    dead,      \* plugs whose dead channel is closed
    call, target,   \* each invoke: where it is and the plug it resolved
    slot,      \* plug.calls
    answer,    \* the answers in the calls' channels
    outcome    \* what each call returned

registry == <<plugins, closing, ops, stale>>
serving == <<conn, plug, gone, process, exited, dead>>
calls == <<call, target, slot, answer, outcome>>
vars == <<registry, serving, calls>>

OpRec == [name : Names, op : UNION {OpsOf[c] : c \in Conns}, from : Conns]
Enders == {"reader", "reap"}
Steps == {"idle", "ops", "changed", "exited", "dead", "done"}

-----------------------------------------------------------------------------
\* hub.Register: all or nothing, and no op that is already there.
Refuses(c) == \E o \in ops : o.name = NameOf[c] /\ o.op \in OpsOf[c]

\* Host.register, to the end of plugMu: the registry and the op table together.
Register(c) ==
    /\ conn[c] \in {"open", "refused"}
    /\ IF closing \/ plugins[NameOf[c]] # NoConn \/ Refuses(c)
       THEN conn' = [conn EXCEPT ![c] = "refused"] /\ UNCHANGED <<plugins, ops, stale>>
       ELSE /\ plugins' = [plugins EXCEPT ![NameOf[c]] = c]
            /\ ops' = ops \cup [name : {NameOf[c]}, op : OpsOf[c], from : {c}]
            /\ stale' = TRUE
            /\ conn' = [conn EXCEPT ![c] = "registered"]
    /\ UNCHANGED <<closing, plug, gone, process, exited, dead, calls>>

\* Conn.p is set under Conn.mu, after plugMu.
SetPlug(c) ==
    /\ conn[c] = "registered"
    /\ conn' = [conn EXCEPT ![c] = "set"]
    /\ plug' = plug \cup {c}
    /\ UNCHANGED <<registry, gone, process, exited, dead, calls>>

\* handleRegister replies and publishes ops_changed.
Announce(c) ==
    /\ conn[c] = "set"
    /\ conn' = [conn EXCEPT ![c] = "serving"]
    /\ stale' = FALSE
    /\ UNCHANGED <<plugins, closing, ops, plug, gone, process, exited, dead, calls>>

\* The connection ends: Conn.Close, on the reader.
Close(c) ==
    /\ conn[c] \in {"open", "serving", "refused"}
    /\ conn' = [conn EXCEPT ![c] = "closed"]
    /\ plug' = plug \ {c}
    /\ gone' = IF c \in plug THEN [gone EXCEPT ![c]["reader"] = "idle"] ELSE gone
    /\ UNCHANGED <<registry, process, exited, dead, calls>>

\* The process magmux spawned ends; reap lists what it had registered.
Exit(c) ==
    /\ c \in Spawned /\ c \in process
    /\ process' = process \ {c}
    /\ gone' = IF plugins[NameOf[c]] = c THEN [gone EXCEPT ![c]["reap"] = "idle"] ELSE gone
    /\ UNCHANGED <<registry, conn, plug, exited, dead, calls>>

\* Mutant: unregister does not look whether the name is still this plug's.
InPlaceAlways(c) == TRUE

InPlace(c) == plugins[NameOf[c]] = c

\* unregister: whoever finds the plug still there does the whole of it.
Withdraw(c, e) ==
    /\ gone[c][e] = "idle"
    /\ IF InPlace(c)
       THEN /\ plugins' = [plugins EXCEPT ![NameOf[c]] = NoConn]
            /\ gone' = [gone EXCEPT ![c][e] = "ops"]
       ELSE gone' = [gone EXCEPT ![c][e] = "done"] /\ UNCHANGED plugins
    /\ UNCHANGED <<closing, ops, stale, conn, plug, process, exited, dead, calls>>

\* Mutant: the change is not announced.
SkipsNews == "exited"

Without(n) == {o \in ops : o.name # n}
ThenNews == "changed"

\* hub.UnregisterSource goes by the name.
WithdrawOps(c, e) ==
    /\ gone[c][e] = "ops"
    /\ ops' = Without(NameOf[c])
    /\ stale' = (stale \/ ops' # ops)
    /\ gone' = [gone EXCEPT ![c][e] = ThenNews]
    /\ UNCHANGED <<plugins, closing, conn, plug, process, exited, dead, calls>>

PublishChanged(c, e) ==
    /\ gone[c][e] = "changed"
    /\ stale' = FALSE
    /\ gone' = [gone EXCEPT ![c][e] = "exited"]
    /\ UNCHANGED <<plugins, closing, ops, conn, plug, process, exited, dead, calls>>

PublishExited(c, e) ==
    /\ gone[c][e] = "exited"
    /\ exited' = exited \cup {c}
    /\ gone' = [gone EXCEPT ![c][e] = "dead"]
    /\ UNCHANGED <<registry, conn, plug, process, dead, calls>>

Bury(c, e) ==
    /\ gone[c][e] = "dead"
    /\ dead' = dead \cup {c}
    /\ gone' = [gone EXCEPT ![c][e] = "done"]
    /\ UNCHANGED <<registry, conn, plug, process, exited, calls>>

\* Shutdown stops registrations and invocations.
Shutdown ==
    /\ ~closing /\ closing' = TRUE
    /\ UNCHANGED <<plugins, ops, stale, serving, calls>>

-----------------------------------------------------------------------------
\* invoke, from an op of the table: the plug is resolved by its name.
Invoke(i) ==
    /\ call[i] = "idle"
    /\ \E o \in ops :
          LET c == plugins[o.name]
          IN IF c = NoConn \/ closing
             THEN /\ call' = [call EXCEPT ![i] = "done"]
                  /\ outcome' = [outcome EXCEPT ![i] = IF c = NoConn THEN "plugin_gone"
                                                                     ELSE "not_ready"]
                  /\ UNCHANGED target
             ELSE /\ call' = [call EXCEPT ![i] = "begin"]
                  /\ target' = [target EXCEPT ![i] = c]
                  /\ UNCHANGED outcome
    /\ UNCHANGED <<registry, serving, slot, answer>>

InFlight(c) == Cardinality({i \in slot : target[i] = c})

\* begin reserves a slot; the invoke is queued to the plugin.
Begin(i) ==
    /\ call[i] = "begin"
    /\ IF InFlight(target[i]) >= MaxInFlight
       THEN /\ call' = [call EXCEPT ![i] = "done"]
            /\ outcome' = [outcome EXCEPT ![i] = "busy"]
            /\ UNCHANGED slot
       ELSE /\ call' = [call EXCEPT ![i] = "waiting"]
            /\ slot' = slot \cup {i}
            /\ UNCHANGED outcome
    /\ UNCHANGED <<registry, serving, target, answer>>

\* invoke_result arrives on the plugin's connection while Conn.p is set; the
\* channel has room for one and a second answer is dropped.
Deliver(i) ==
    /\ i \in slot /\ target[i] \in plug /\ conn[target[i]] = "serving"
    /\ answer' = answer \cup {i}
    /\ UNCHANGED <<registry, serving, call, target, slot, outcome>>

Freed(i, why) == slot \ {i}

Returns(i, why) ==
    /\ call' = [call EXCEPT ![i] = "done"]
    /\ outcome' = [outcome EXCEPT ![i] = why]
    /\ slot' = Freed(i, why)
    /\ answer' = answer \ {i}
    /\ UNCHANGED <<registry, serving, target>>

Answered(i) == call[i] = "waiting" /\ i \in answer /\ Returns(i, "answered")

\* Mutant: only a call begun on a living plug is woken.
HeardOfRegistered(c) == c \in dead /\ plugins[NameOf[c]] = NoConn

HeardOf(c) == c \in dead
Woken(i) == call[i] = "waiting" /\ HeardOf(target[i]) /\ Returns(i, "plugin_gone")

\* The budget's timer, or the caller's context.
TimesOut(i) == call[i] = "waiting" /\ Returns(i, "timeout")

-----------------------------------------------------------------------------
\* Every variable of the host keeps its type: a name is its own plug's, and the
\* slots and answers are those of calls that wait.
TypeOK ==
    /\ plugins \in [Names -> Conns \cup {NoConn}]
    /\ \A n \in Names : plugins[n] # NoConn => NameOf[plugins[n]] = n
    /\ closing \in BOOLEAN /\ stale \in BOOLEAN
    /\ ops \subseteq OpRec
    /\ conn \in [Conns -> {"open", "registered", "set", "serving", "refused", "closed"}]
    /\ plug \subseteq Conns /\ process \subseteq Spawned
    /\ exited \subseteq Conns /\ dead \subseteq exited
    /\ gone \in [Conns -> [Enders -> Steps \cup {"no"}]]
    /\ call \in [Calls -> {"idle", "begin", "waiting", "done"}]
    /\ target \in [Calls -> Conns \cup {NoConn}]
    /\ slot \subseteq {i \in Calls : call[i] = "waiting"} /\ answer \subseteq slot
    /\ outcome \in [Calls -> {"none", "answered", "plugin_gone", "timeout",
                              "not_ready", "busy"}]

Init ==
    /\ plugins = [n \in Names |-> NoConn] /\ closing = FALSE
    /\ ops = {} /\ stale = FALSE
    /\ conn = [c \in Conns |-> "open"] /\ plug = {}
    /\ gone = [c \in Conns |-> [e \in Enders |-> "no"]]
    /\ process = Spawned /\ exited = {} /\ dead = {}
    /\ call = [i \in Calls |-> "idle"] /\ target = [i \in Calls |-> NoConn]
    /\ slot = {} /\ answer = {} /\ outcome = [i \in Calls |-> "none"]

Unregister(c, e) ==
    \/ Withdraw(c, e) \/ WithdrawOps(c, e) \/ PublishChanged(c, e)
    \/ PublishExited(c, e) \/ Bury(c, e)

Run(i) == Begin(i) \/ Answered(i) \/ Woken(i)

Next ==
    \/ \E c \in Conns : Register(c) \/ SetPlug(c) \/ Announce(c) \/ Close(c) \/ Exit(c)
    \/ \E c \in Conns, e \in Enders : Unregister(c, e)
    \/ \E i \in Calls : Invoke(i) \/ Deliver(i) \/ Run(i) \/ TimesOut(i)
    \/ Shutdown

Spec == Init /\ [][Next]_vars

\* Goroutines run; no plugin need answer, and no timer need fire.
FairSpec ==
    /\ Spec
    /\ \A c \in Conns, e \in Enders : WF_vars(Unregister(c, e))
    /\ \A i \in Calls : WF_vars(Run(i))

-----------------------------------------------------------------------------
\* ops_changed is how a client's copy of the op list stays true: whoever changed
\* the table last has still to announce it, or nobody's copy is out of date.
ChangesAreAnnounced ==
    stale => \/ \E c \in Conns : conn[c] \in {"registered", "set"}
             \/ \E c \in Conns, e \in Enders : gone[c][e] = "changed"

\* An op is in the table only while its plugin is registered or being withdrawn,
\* whichever end noticed first: when its exit is told, "a client that re-fetches
\* ops on ops_changed can never be handed the dead plugin's ops again"
\* (unregister, 478-482).
NoOpOutlivesItsPlugin ==
    \A o \in ops : \/ plugins[o.name] = o.from
                   \/ \E e \in Enders : gone[o.from][e] = "ops"

\* unregister, 510-511: a call whose plugin has gone returns without waiting out
\* its budget, whether it had begun before or begins after, and frees its slot.
GoneFailsFast ==
    \A i \in Calls : call[i] \in {"begin", "waiting"} /\ target[i] \in exited
        ~> call[i] = "done" /\ i \notin slot
=============================================================================
