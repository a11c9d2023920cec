----------------------------- MODULE Interfaces -----------------------------
(***************************************************************************)
(* What the start-ups of the interfaces share: the main task, which calls  *)
(* them one after the other from connect.c, and the default event loop,    *)
(* whose task runs their handlers one at a time.  The two meet on binary   *)
(* semaphores; the main task may be between any two of its calls when a    *)
(* handler runs.                                                           *)
(***************************************************************************)
EXTENDS Naturals, FiniteSets

CONSTANT Builds    \* configurations: [interfaces |-> ..., ipv6 |-> ...]

Names == {"eth", "wifi", "thread", "ppp"}

ASSUME BuildsAssumption ==
    Builds \subseteq [interfaces : SUBSET Names, ipv6 : BOOLEAN]

VARIABLES
    build,      \* the configuration that was built
    pc,         \* where the main task is: <<step, interface>>
    handlers,   \* interfaces whose handlers the event loop has
    netifs,     \* interfaces that exist and may raise events
    sems,       \* the semaphores
    got         \* history: what has come since each interface's connect

netVars == <<build, pc, handlers, netifs, sems, got>>

Chosen == build.interfaces

(* CONFIG_EXAMPLE_CONNECT_IPV4 is off in every build with Thread.          *)
Families == (IF "thread" \in Chosen THEN {} ELSE {"ip4"})
            \cup (IF build.ipv6 THEN {"ip6"} ELSE {})

SemNames == {"eth_ip4", "eth_ip6", "attached", "dns"}

NetInit ==
    /\ pc = <<"boot", "none">>
    /\ handlers = {}
    /\ netifs = {}
    /\ sems = [s \in SemNames |-> "null"]
    /\ got = [i \in Names |-> {}]

With(ss, v) == [s \in SemNames |-> IF s \in ss THEN v ELSE sems[s]]

(* The main task takes a step in its work on interface i.                  *)
Goes(i, from, to) == pc = <<from, i>> /\ pc' = <<to, i>>

(* No task runs once an assertion or an ESP_ERROR_CHECK has failed, until  *)
(* the chip has been reset.                                                *)
Alive == pc[1] # "aborted"
Abort(i) == pc' = <<"aborted", i>>

(* assert(netif): a second interface with the same key cannot be created.  *)
assertNetif(i) ==
    /\ i \in netifs
    /\ Goes(i, "connect", "aborted")
    /\ UNCHANGED <<build, handlers, netifs, sems, got>>

(* An ESP_ERROR_CHECK fails while interface i is set up or torn down.      *)
checkFails(i) ==
    /\ \E step \in {"connect", "stop", "shutdown", "delay"} : Goes(i, step, "aborted")
    /\ UNCHANGED <<build, handlers, netifs, sems, got>>

(* xSemaphoreTake without a timeout.                                       *)
Take(s) == sems[s] = "given" /\ sems' = With({s}, "empty")

(* Interface i's handler calls xSemaphoreGive, without a test for NULL: a  *)
(* null semaphore fails an assertion, a deleted one may do so.             *)
Give(i, s) ==
    /\ Alive
    /\ i \in handlers
    /\ \/ sems[s] \in {"empty", "given"} /\ sems' = With({s}, "given") /\ UNCHANGED pc
       \/ sems[s] = "deleted" /\ UNCHANGED <<pc, sems>>
       \/ sems[s] \in {"null", "deleted"} /\ Abort(i) /\ UNCHANGED sems
    /\ UNCHANGED handlers

Comes(i, what) == got' = [got EXCEPT ![i] = @ \cup {what}]
Nothing(i) == got' = [got EXCEPT ![i] = {}]
=============================================================================
