--------------------------- MODULE ThreadConnect ---------------------------
(***************************************************************************)
(* Thread (thread_connect.c): a task of its own runs the OpenThread stack, *)
(* whose events wake the main task.                                        *)
(***************************************************************************)
EXTENDS Interfaces

VARIABLE otTask    \* the task of s_ot_task_handle

ThreadSems == {"attached", "dns"}

example_thread_connect ==
    /\ Goes("thread", "connect", "take_attached")
    /\ sems' = With(ThreadSems, "empty")
    /\ handlers' = handlers \cup {"thread"}
    /\ otTask' = "created"
    /\ Nothing("thread")
    /\ UNCHANGED <<build, netifs>>

(* A semaphore or the task cannot be created; in the last case the         *)
(* semaphores go and their handler stays.                                  *)
threadFails ==
    /\ Goes("thread", "connect", "error")
    /\ \/ sems' = With({"attached"}, "null") /\ UNCHANGED handlers
       \/ sems' = [With(ThreadSems, "deleted") EXCEPT !["dns"] = "null"]
          /\ UNCHANGED handlers
       \/ sems' = With(ThreadSems, "deleted") /\ handlers' = handlers \cup {"thread"}
    /\ UNCHANGED <<build, netifs, got, otTask>>

takeAttached ==
    /\ Goes("thread", "take_attached", "take_dns")
    /\ Take("attached")
    /\ UNCHANGED <<build, handlers, netifs, got, otTask>>

(* The wait for a DNS server may time out, with a warning only.            *)
takeDnsServer ==
    /\ Goes("thread", "take_dns", "ok")
    /\ Take("dns") \/ UNCHANGED sems
    /\ UNCHANGED <<build, handlers, netifs, got, otTask>>

(* The task creates the netif, which must not exist yet, and runs the      *)
(* stack; when its main loop ends, it cleans up after itself.              *)
otTaskStarts ==
    /\ Alive
    /\ otTask = "created"
    /\ otTask' = "running"
    /\ netifs' = netifs \cup {"thread"}
    /\ IF "thread" \in netifs THEN Abort("thread") ELSE UNCHANGED pc
    /\ UNCHANGED <<build, handlers, sems, got>>

otTaskEnds ==
    /\ Alive
    /\ otTask = "running"
    /\ otTask' = "ended"
    /\ netifs' = netifs \ {"thread"}
    /\ UNCHANGED <<build, pc, handlers, sems, got>>

(* An event posted before the stack was torn down may come after it.       *)
thread_event_handler(s) ==
    /\ otTask \in {"running", "ended", "deleted"} \/ "thread" \in netifs
    /\ Give("thread", s)
    /\ Comes("thread", s)
    /\ UNCHANGED <<build, netifs, otTask>>

(* Deletes the task, which has perhaps ended already, then the semaphores, *)
(* but not the handler.                                                    *)
example_thread_shutdown ==
    /\ \/ Goes("thread", "shutdown", "down")
       \/ Goes("thread", "shutdown", "aborted") /\ otTask = "ended"
    /\ otTask' = "deleted"
    /\ netifs' = netifs \ {"thread"}
    /\ sems' = With(ThreadSems, "deleted")
    /\ UNCHANGED <<build, handlers, got>>

ThreadMain ==
    \/ example_thread_connect
    \/ threadFails
    \/ takeAttached
    \/ takeDnsServer
    \/ example_thread_shutdown

ThreadEvents == \E s \in ThreadSems : thread_event_handler(s)
=============================================================================
