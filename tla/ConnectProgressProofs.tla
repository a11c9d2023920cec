----------------------- MODULE ConnectProgressProofs -----------------------
(***************************************************************************)
(* What keeps the connection sequence going, for every choice of           *)
(* interfaces and addresses: the safety that NoLostWakeup and RestartEnds  *)
(* rest on.  Under the fairness of the main task, a wait whose semaphore   *)
(* stays given ends, and a sequence of shutdown handlers whose every step  *)
(* can be taken and gets nearer to the end comes to it.                    *)
(***************************************************************************)
EXTENDS ConnectProofs

Waiters == {"eth", "thread", "ppp"}

(* What the main task waits on for interface i is there to be taken.       *)
CanTake(i) ==
    CASE i = "eth" -> \A f \in {"ip4", "ip6"} :
                          pc[1] = TakePc(f) => sems[EthSem(f)] = "given"
      [] i = "thread" -> sems["attached"] = "given"
      [] i = "ppp" -> Woken

(* Everything an interface waits for has come: then the main task can go   *)
(* on, whether it came before the wait or during it.                       *)
WakeupKept == \A i \in Waiters : Waiting(i) /\ Promise(i) => CanTake(i)

(* How many steps are left of a restart, at least: four for an interface   *)
(* that is still to be shut down.                                          *)
Stages == [s \in Steps |->
    IF s = "shutdown" THEN 3 ELSE IF s = "down" THEN 1
    ELSE IF s \in {"stop", "delay"} THEN 2 ELSE 0]
Left(p) == 4 * Rank[p[2]] + Stages[p[1]]

Ended == pc[1] \in {"halted", "aborted"}

(* A restart is not given up, and every step of the main task brings it    *)
(* nearer to its end.                                                      *)
Descends ==
    restarting /\ ~Ended =>
        /\ restarting'
        /\ pc' = pc \/ Ended' \/ (Left(pc') < Left(pc) /\ Left(pc') \in Nat)

(* While interfaces are shut down, the next step can be taken: only Wi-Fi  *)
(* asks for a state, and only PPP waits, for a task that returns within a  *)
(* second.                                                                 *)
StepReady ==
    pc[1] \in Stopping =>
        \/ pc[1] = "shutdown" /\ (pc[2] = "wifi" => wifi = "up")
        \/ pc = <<"stop", "eth">>
        \/ pc = <<"delay", "ppp">>
        \/ pc[1] = "down"

-----------------------------------------------------------------------------
(* The inductive invariant, in addition to IInv.                           *)

(* What has come for a waiting main task, one address at a time.           *)
EthKept ==
    pc \in {<<"take_ip4", "eth">>, <<"take_ip6", "eth">>} =>
        /\ pc[1] = "take_ip4" =>
              "ip4" \in Families /\ ("ip4" \in got["eth"] => sems["eth_ip4"] = "given")
        /\ pc[1] = "take_ip6" => "ip6" \in Families
        /\ "ip6" \in Families /\ "ip6" \in got["eth"] => sems["eth_ip6"] = "given"

ThreadKept ==
    pc = <<"take_attached", "thread">> =>
        /\ otTask # "deleted"
        /\ "attached" \in got["thread"] => sems["attached"] = "given"

PppKept == pc = <<"wait", "ppp">> /\ got["ppp"] # {} => Woken

(* Who waits for what.                                                     *)
OwnWait ==
    /\ pc[1] \in {"take_ip4", "take_ip6"} => pc[2] = "eth"
    /\ pc[1] = "take_attached" => pc[2] = "thread"
    /\ pc[1] = "wait" => pc[2] \in {"wifi", "ppp"}

(* Which shutdown handlers are registered.                                 *)
Registered ==
    /\ pc[1] \in Connecting =>
          \A j \in Chosen : Rank[j] < Rank[pc[2]] => j \in shutdownHandlers
    /\ pc[1] = "connected" => Chosen \subseteq shutdownHandlers
    /\ pc[1] \in Stopping =>
          /\ pc[2] \in shutdownHandlers
          /\ ~restarting => \A j \in Disconnects :
                Rank[pc[2]] <= Rank[j] => j \in shutdownHandlers

(* A registered Wi-Fi is up until its shutdown.                            *)
WifiUp ==
    /\ pc = <<"ok", "wifi">> => wifi = "up"
    /\ /\ "wifi" \in shutdownHandlers
       /\ pc[1] \notin {"error", "aborted", "halted"}
       /\ pc # <<"down", "wifi">>
       /\ restarting => Rank["wifi"] <= Rank[pc[2]]
       => wifi = "up"
    /\ pc[1] = "stop" => pc[2] = "eth"
    /\ pc[1] = "delay" => pc[2] = "ppp"

PInv == EthKept /\ ThreadKept /\ PppKept /\ OwnWait /\ Registered /\ WifiUp

-----------------------------------------------------------------------------
(* For which address example_ethernet_connect waits next.                  *)
LEMMA EthWaitsFor ==
    /\ EthWaits({}) = "take_ip4" => "ip4" \in Families
    /\ EthWaits({}) = "take_ip6" => "ip6" \in Families
    /\ EthWaits({"ip4", "ip4"}) # "take_ip4"
    /\ EthWaits({"ip4", "ip4"}) = "take_ip6" => "ip6" \in Families
    /\ EthWaits({"ip4", "ip6"}) = "ok"
<1>1. /\ EthWaits({}) = "take_ip4" => "ip4" \in Families
      /\ EthWaits({}) = "take_ip6" => "ip6" \in Families
  <2>1. CASE "ip4" \in Families
        BY <2>1 DEF EthWaits
  <2>2. CASE "ip4" \notin Families
        BY <2>2 DEF EthWaits
  <2> QED
      BY <2>1, <2>2
<1>2. /\ EthWaits({"ip4", "ip4"}) # "take_ip4"
      /\ EthWaits({"ip4", "ip4"}) = "take_ip6" => "ip6" \in Families
  <2>1. "ip4" \notin Families \ {"ip4", "ip4"}
        OBVIOUS
  <2> QED
      BY <2>1 DEF EthWaits
<1> QED
    BY <1>1, <1>2, EthWaitsFacts

(* Where the main task goes in the steps of the other start-ups.           *)
LEMMA OwnInterface ==
    ASSUME TypeOK
    PROVE  /\ ThreadStep => pc'[2] = "thread" /\ UNCHANGED build
           /\ PppStep => pc'[2] = "ppp" /\ UNCHANGED build
           /\ WifiStep => pc'[2] = "wifi" /\ UNCHANGED build
           /\ EthStep => pc'[2] = "eth" /\ UNCHANGED build
<1>1. ThreadStep => pc'[2] = "thread" /\ UNCHANGED build
      BY DEF ThreadStep, ThreadMain, example_thread_connect, threadFails,
         takeAttached, takeDnsServer, example_thread_shutdown, Goes
<1>2. PppStep => pc'[2] = "ppp" /\ UNCHANGED build
      BY DEF PppStep, PppMain, example_ppp_connect, pppNoTask, assertNetif,
         waitBits, pppStopsTask, pppDestroys, Goes
<1>3. WifiStep => pc'[2] = "wifi" /\ UNCHANGED build
      BY DEF WifiStep, example_wifi_connect, example_wifi_shutdown,
         WifiUnchanged, Goes
<1>4. EthStep => pc'[2] = "eth" /\ UNCHANGED build
  <2>1. EthStep => UNCHANGED build
        BY DEF EthStep, EthMain, example_ethernet_connect, ethernetNoMemory,
           assertNetif, takeEthernet, example_ethernet_shutdown, eth_stop
  <2>2. EthStep => \E from, to : Goes("eth", from, to)
    <3> HIDE DEF Goes
    <3> QED
        BY DEF EthStep, EthMain, example_ethernet_connect, ethernetNoMemory,
           assertNetif, takeEthernet, example_ethernet_shutdown, eth_stop
  <2> QED
      BY <2>1, <2>2 DEF Goes
<1> QED
    BY <1>1, <1>2, <1>3, <1>4

(* The steps of connect.c and failed checks do not begin a wait.           *)
LEMMA NoWaitBegins ==
    ASSUME TypeOK, Sequence \/ Checks
    PROVE  pc'[1] \in {"boot", "connect", "connected", "disconnected", "shutdown",
                       "halted", "aborted"}
<1>1. CASE Checks
      BY <1>1 DEF Checks, checkFails, Goes
<1>2. CASE Sequence
      BY <1>2, ShutdownOrder DEF Sequence, example_connect, registerShutdownHandler,
         connectFailed, example_disconnect, unregisterShutdownHandler,
         esp_restart, boots, GoesThrough, Abort
<1> QED
    BY <1>1, <1>2

(* What xSemaphoreGive does to the semaphores, when it returns.            *)
LEMMA GiveKeeps ==
    ASSUME TypeOK, NEW i, NEW s \in SemNames, Give(i, s), pc' = pc
    PROVE  /\ i \in handlers
           /\ \A t \in SemNames : sems[t] = "given" => sems'[t] = "given"
           /\ sems[s] \in {"empty", "given"} => sems'[s] = "given"
<1>1. i \in handlers /\ pc[1] # "aborted"
      BY DEF Give, Alive
<1>2. CASE sems' = With({s}, "given")
      BY <1>1, <1>2, WithValue
<1>3. CASE sems[s] = "deleted" /\ UNCHANGED sems
      BY <1>1, <1>3
<1>4. ~Abort(i)
      BY <1>1 DEF Abort, TypeOK
<1> QED
    BY <1>2, <1>3, <1>4 DEF Give

(* Whatever an event brings while the semaphores exist, it wakes.          *)
Wakes ==
    /\ \A t \in SemNames : sems[t] = "given" => sems'[t] = "given"
    /\ pc[1] # "stop" => \A f \in Families :
          f \in got'["eth"] => f \in got["eth"] \/ sems'[EthSem(f)] = "given"
    /\ otTask # "deleted" =>
          ("attached" \in got'["thread"] =>
              "attached" \in got["thread"] \/ sems'["attached"] = "given")
    /\ Woken => Woken'
    /\ got'["ppp"] = got["ppp"] \/ Woken'

LEMMA EventsWake ==
    ASSUME TypeOK, Handled, Background, pc' = pc, ~Doomed
    PROVE  Wakes
<1> USE DEF TypeOK, netVars, pppVars
<1>0. "eth" \in Names /\ "thread" \in Names /\ "ppp" \in Names
      BY DEF Names
<1>1. CASE EthEvents /\ UNCHANGED <<otTask, pppVars, wifi, shutdownHandlers, restarting>>
  <2>1. CASE on_eth_event
        BY <1>1, <2>1 DEF on_eth_event, Wakes, Woken, PppBits
  <2>2. ASSUME NEW f \in {"ip4", "ip6"}, eth_on_got(f) PROVE Wakes
    <3>1. /\ Give("eth", EthSem(f)) /\ UNCHANGED build
          /\ got' = [got EXCEPT !["eth"] = @ \cup {f}]
          BY <2>2 DEF eth_on_got, Comes
    <3>2. EthSem(f) \in SemNames
          BY DEF EthSem, SemNames
    <3>3. /\ "eth" \in handlers
          /\ \A t \in SemNames : sems[t] = "given" => sems'[t] = "given"
          /\ sems[EthSem(f)] \in {"empty", "given"} => sems'[EthSem(f)] = "given"
          BY <3>1, <3>2, GiveKeeps
    <3>4. pc[1] # "stop" /\ f \in Families => sems[EthSem(f)] \in {"empty", "given"}
          BY <3>3 DEF Handled, HandlersMeetSemaphores, EthSems
    <3>5. \A g \in Families : g \in got'["eth"] => g \in got["eth"] \/ g = f
          BY <1>0, <3>1
    <3>6. got'["thread"] = got["thread"] /\ got'["ppp"] = got["ppp"]
          BY <1>0, <3>1
    <3>7. Woken => Woken'
          BY <1>1, <3>1 DEF Woken, PppBits
    <3> QED
        BY <3>3, <3>4, <3>5, <3>6, <3>7 DEF Wakes
  <2> QED
      BY <1>1, <2>1, <2>2 DEF EthEvents
<1>2. CASE ThreadEvents /\ UNCHANGED <<pppVars, wifi, shutdownHandlers, restarting>>
  <2>1. PICK s \in ThreadSems : thread_event_handler(s)
        BY <1>2 DEF ThreadEvents
  <2>2. /\ Give("thread", s) /\ UNCHANGED build /\ s \in SemNames
        /\ got' = [got EXCEPT !["thread"] = @ \cup {s}]
        BY <2>1 DEF thread_event_handler, Comes, ThreadSems, SemNames
  <2>3. /\ "thread" \in handlers
        /\ \A t \in SemNames : sems[t] = "given" => sems'[t] = "given"
        /\ sems[s] \in {"empty", "given"} => sems'[s] = "given"
        BY <2>2, GiveKeeps
  <2>4. otTask # "deleted" => sems[s] \in {"empty", "given"}
        BY <2>3 DEF Handled, HandlersMeetSemaphores
  <2>5. /\ got'["eth"] = got["eth"] /\ got'["ppp"] = got["ppp"]
        /\ "attached" \in got'["thread"] => "attached" \in got["thread"] \/ s = "attached"
        BY <1>0, <2>2
  <2>6. Woken => Woken'
        BY <1>2, <2>2 DEF Woken, PppBits
  <2> QED
      BY <2>3, <2>4, <2>5, <2>6 DEF Wakes
<1>3. CASE PppEvents /\ UNCHANGED <<otTask, wifi, shutdownHandlers, restarting>>
  <2>1. ASSUME NEW f \in {"ip4", "ip6"}, pppGotAddress(f) PROVE Wakes
    <3>1. /\ UNCHANGED <<build, sems>> /\ got' = [got EXCEPT !["ppp"] = @ \cup {f}]
          /\ f = "ip6" => build.ipv6
          /\ group' = (group \cup {IF f = "ip4" THEN "GOT_IPV4" ELSE "GOT_IPV6"}) \ {"null"}
          BY <2>1 DEF pppGotAddress, Comes, SetBit
    <3>2. Woken'
          BY <3>1 DEF Woken, PppBits
    <3>3. got'["eth"] = got["eth"] /\ got'["thread"] = got["thread"]
          BY <1>0, <3>1
    <3> QED
        BY <3>1, <3>2, <3>3 DEF Wakes
  <2>2. CASE pppLost
    <3>1. UNCHANGED <<build, sems, got>>
          BY <2>2 DEF pppLost
    <3>2. Woken => Woken'
      <4>1. group' = group \/ group' = (group \cup {"CONNECTION_FAILED"}) \ {"null"}
            BY <2>2 DEF pppLost, SetBit
      <4> QED
          BY <3>1, <4>1 DEF Woken, PppBits
    <3> QED
        BY <3>1, <3>2 DEF Wakes
  <2>3. CASE actionConnected
        BY <2>3 DEF actionConnected, Wakes, Woken, PppBits
  <2> QED
      BY <1>3, <2>1, <2>2, <2>3 DEF PppEvents
<1>4. CASE wifiGotAddress \/ wifiAborts
  <2>1. /\ UNCHANGED <<build, sems, group>>
        /\ got'["eth"] = got["eth"] /\ got'["thread"] = got["thread"]
        /\ got'["ppp"] = got["ppp"]
        BY <1>0, <1>4 DEF wifiGotAddress, wifiAborts, WifiUnchanged, Comes
  <2> QED
      BY <2>1 DEF Wakes, Woken, PppBits
<1>5. CASE Tasks
  <2>1. UNCHANGED <<build, sems, got, group>>
        BY <1>5 DEF Tasks, otTaskStarts, otTaskEnds, PppTask, pppTaskReceives,
           pppTaskFeeds
  <2> QED
      BY <2>1 DEF Wakes, Woken, PppBits
<1> QED
    BY <1>1, <1>2, <1>3, <1>4, <1>5 DEF Background, EventLoop

-----------------------------------------------------------------------------
(* An address of Ethernet that has come is not forgotten.                  *)
LEMMA EthKeptStep ==
    ASSUME TypeOK, Handled, EthKept, Next
    PROVE  EthKept'
<1> DEFINE waits == {<<"take_ip4", "eth">>, <<"take_ip6", "eth">>}
<1>1. CASE EthStep
  <2>1. UNCHANGED build /\ Families' = Families
        BY <1>1, OwnInterface DEF Families, Chosen
  <2>2. CASE example_ethernet_connect
    <3>1. pc' = <<EthWaits({}), "eth">> /\ got' = [got EXCEPT !["eth"] = {}]
          BY <2>2 DEF example_ethernet_connect, Goes, Nothing
    <3>2. got'["eth"] = {}
          BY <3>1 DEF TypeOK, Names
    <3> QED
        BY <2>1, <3>1, <3>2, EthWaitsFor DEF EthKept
  <2>3. ASSUME NEW f \in Families, takeEthernet(f) PROVE EthKept'
    <3>1. /\ pc = <<TakePc(f), "eth">> /\ pc' = <<EthWaits({"ip4", f}), "eth">>
          /\ got' = got /\ sems' = With({EthSem(f)}, "empty")
          BY <2>3 DEF takeEthernet, Goes, Take
    <3>2. CASE f = "ip4"
      <4>1. sems'["eth_ip6"] = sems["eth_ip6"] /\ pc[1] = "take_ip4"
            BY <3>1, <3>2, WithValue DEF EthSem, SemNames, TakePc
      <4> QED
          BY <2>1, <3>1, <3>2, <4>1, EthWaitsFor DEF EthKept
    <3>3. CASE f = "ip6"
          BY <3>1, <3>3, EthWaitsFor DEF EthKept
    <3> QED
        BY <3>2, <3>3, EthSemsFacts
  <2>4. CASE ethernetNoMemory \/ assertNetif("eth") \/ example_ethernet_shutdown \/ eth_stop
    <3>1. pc'[1] \in {"error", "aborted", "down", "stop"}
          BY <2>4 DEF ethernetNoMemory, assertNetif, example_ethernet_shutdown,
             eth_stop, Goes
    <3> QED
        BY <3>1 DEF EthKept
  <2> QED
      BY <1>1, <2>2, <2>3, <2>4 DEF EthStep, EthMain
<1>2. CASE ThreadStep \/ PppStep \/ WifiStep
  <2>1. pc'[2] # "eth"
        BY <1>2, OwnInterface
  <2> QED
      BY <2>1 DEF EthKept
<1>3. CASE Sequence \/ Checks
      BY <1>3, NoWaitBegins DEF EthKept
<1>4. CASE Background
  <2>1. UNCHANGED build /\ Families' = Families
        BY <1>4, BackgroundFacts DEF Families, Chosen
  <2>2. CASE pc' # pc
        BY <1>4, <2>2, BackgroundFacts DEF EthKept
  <2>3. CASE pc' = pc /\ pc \in waits
    <3>1. ~Doomed /\ pc[1] # "stop"
          BY <2>3 DEF Doomed
    <3>2. Wakes
          BY <1>4, <2>3, <3>1, EventsWake
    <3>3. /\ sems["eth_ip4"] = "given" => sems'["eth_ip4"] = "given"
          /\ sems["eth_ip6"] = "given" => sems'["eth_ip6"] = "given"
          /\ "ip4" \in Families /\ "ip4" \in got'["eth"] =>
                "ip4" \in got["eth"] \/ sems'["eth_ip4"] = "given"
          /\ "ip6" \in Families /\ "ip6" \in got'["eth"] =>
                "ip6" \in got["eth"] \/ sems'["eth_ip6"] = "given"
          BY <3>1, <3>2 DEF Wakes, SemNames, EthSem
    <3> QED
        BY <2>1, <2>3, <3>3 DEF EthKept
  <2> QED
      BY <2>2, <2>3 DEF EthKept
<1> QED
    BY <1>1, <1>2, <1>3, <1>4, StepKinds

(* Nor is the news of being attached to a Thread network.                  *)
LEMMA ThreadKeptStep ==
    ASSUME TypeOK, Handled, ThreadKept, Next
    PROVE  ThreadKept'
<1>1. CASE ThreadStep
  <2>1. CASE example_thread_connect
    <3>1. otTask' = "created" /\ got' = [got EXCEPT !["thread"] = {}]
          BY <2>1 DEF example_thread_connect, Nothing
    <3>2. got'["thread"] = {}
          BY <3>1 DEF TypeOK, Names
    <3> QED
        BY <3>1, <3>2 DEF ThreadKept
  <2>2. CASE threadFails \/ takeAttached \/ takeDnsServer \/ example_thread_shutdown
    <3>1. pc'[1] # "take_attached"
          BY <2>2 DEF threadFails, takeAttached, takeDnsServer,
             example_thread_shutdown, Goes
    <3> QED
        BY <3>1 DEF ThreadKept
  <2> QED
      BY <1>1, <2>1, <2>2 DEF ThreadStep, ThreadMain
<1>2. CASE EthStep \/ PppStep \/ WifiStep
  <2>1. pc'[2] # "thread"
        BY <1>2, OwnInterface
  <2> QED
      BY <2>1 DEF ThreadKept
<1>3. CASE Sequence \/ Checks
      BY <1>3, NoWaitBegins DEF ThreadKept
<1>4. CASE Background
  <2>1. CASE pc' # pc
        BY <1>4, <2>1, BackgroundFacts DEF ThreadKept
  <2>2. CASE pc' = pc /\ pc = <<"take_attached", "thread">>
    <3>1. ~Doomed
          BY <2>2 DEF Doomed
    <3>2. Wakes
          BY <1>4, <2>2, <3>1, EventsWake
    <3>3. otTask # "deleted" => otTask' # "deleted"
          BY <1>4 DEF Background, EventLoop, Tasks, EthEvents, eth_on_got, on_eth_event,
             ThreadEvents, thread_event_handler, otTaskStarts, otTaskEnds,
             wifiGotAddress, wifiAborts, WifiUnchanged
    <3> QED
        BY <2>2, <3>2, <3>3 DEF ThreadKept, Wakes, SemNames
  <2> QED
      BY <2>1, <2>2 DEF ThreadKept
<1> QED
    BY <1>1, <1>2, <1>3, <1>4, StepKinds

(* Nor is an address over PPP.                                             *)
LEMMA PppKeptStep ==
    ASSUME TypeOK, Handled, PppKept, Next
    PROVE  PppKept'
<1>1. CASE PppStep
  <2>1. CASE example_ppp_connect
    <3>1. got' = [got EXCEPT !["ppp"] = {}]
          BY <2>1 DEF example_ppp_connect, Nothing
    <3>2. got'["ppp"] = {}
          BY <3>1 DEF TypeOK, Names
    <3> QED
        BY <3>2 DEF PppKept
  <2>2. CASE pppNoTask \/ assertNetif("ppp") \/ waitBits \/ pppStopsTask \/ pppDestroys
    <3>1. pc'[1] # "wait"
          BY <2>2 DEF pppNoTask, assertNetif, waitBits, pppStopsTask,
             pppDestroys, Goes
    <3> QED
        BY <3>1 DEF PppKept
  <2> QED
      BY <1>1, <2>1, <2>2 DEF PppStep, PppMain
<1>2. CASE EthStep \/ ThreadStep \/ WifiStep
  <2>1. pc'[2] # "ppp"
        BY <1>2, OwnInterface
  <2> QED
      BY <2>1 DEF PppKept
<1>3. CASE Sequence \/ Checks
      BY <1>3, NoWaitBegins DEF PppKept
<1>4. CASE Background
  <2>1. CASE pc' # pc
        BY <1>4, <2>1, BackgroundFacts DEF PppKept
  <2>2. CASE pc' = pc /\ pc = <<"wait", "ppp">>
    <3>1. ~Doomed
          BY <2>2 DEF Doomed
    <3>2. Wakes
          BY <1>4, <2>2, <3>1, EventsWake
    <3> QED
        BY <2>2, <3>2 DEF PppKept, Wakes
  <2> QED
      BY <2>1, <2>2 DEF PppKept
<1> QED
    BY <1>1, <1>2, <1>3, <1>4, StepKinds

(* Each wait belongs to its interfaces.                                    *)
LEMMA OwnWaitStep ==
    ASSUME TypeOK, OwnWait, Next
    PROVE  OwnWait'
<1>1. CASE EthStep
  <2>1. pc'[2] = "eth"
        BY <1>1, OwnInterface
  <2>2. ASSUME NEW f \in Families, takeEthernet(f) PROVE pc'[1] \in {"take_ip6", "ok"}
    <3>1. EthWaits({"ip4", f}) \in {"take_ip6", "ok"}
          BY EthSemsFacts, EthWaitsFacts
    <3> QED
        BY <2>2, <3>1 DEF takeEthernet, Goes
  <2>3. example_ethernet_connect => pc'[1] \in {"take_ip4", "take_ip6", "ok"}
        BY EthWaitsFacts DEF example_ethernet_connect, Goes
  <2>4. ethernetNoMemory \/ assertNetif("eth") \/ example_ethernet_shutdown \/ eth_stop
        => pc'[1] \in {"error", "aborted", "down", "stop"}
        BY DEF ethernetNoMemory, assertNetif, example_ethernet_shutdown, eth_stop, Goes
  <2> QED
      BY <1>1, <2>1, <2>2, <2>3, <2>4 DEF EthStep, EthMain, OwnWait
<1>2. CASE ThreadStep
      BY <1>2 DEF ThreadStep, ThreadMain, example_thread_connect, threadFails,
         takeAttached, takeDnsServer, example_thread_shutdown, Goes, OwnWait
<1>3. CASE PppStep
      BY <1>3 DEF PppStep, PppMain, example_ppp_connect, pppNoTask, assertNetif,
         waitBits, pppStopsTask, pppDestroys, Goes, OwnWait
<1>4. CASE WifiStep
      BY <1>4 DEF WifiStep, example_wifi_connect, example_wifi_shutdown, Goes, OwnWait
<1>5. CASE Sequence \/ Checks
      BY <1>5, NoWaitBegins DEF OwnWait
<1>6. CASE Background
      BY <1>6, BackgroundFacts DEF OwnWait
<1> QED
    BY <1>1, <1>2, <1>3, <1>4, <1>5, <1>6, StepKinds

-----------------------------------------------------------------------------
(* A start-up or a shutdown stays with its interface.                      *)
OwnStep == EthStep \/ ThreadStep \/ PppStep \/ WifiStep

Stays ==
    /\ pc'[2] = pc[2]
    /\ UNCHANGED <<build, shutdownHandlers, restarting>>
    /\ \/ pc[1] \in Connecting /\ pc'[1] \in Connecting \cup {"error", "aborted"}
       \/ pc[1] \in Stopping /\ pc'[1] \in Stopping \cup {"aborted"}

LEMMA OwnStepStays ==
    ASSUME TypeOK, OwnStep
    PROVE  Stays
<1> USE DEF Connecting, Stopping, Goes
<1>1. CASE EthStep
  <2>1. UNCHANGED <<build, shutdownHandlers, restarting>>
        BY <1>1, OwnInterface DEF EthStep
  <2>2. ASSUME NEW f \in Families, takeEthernet(f) PROVE Stays
    <3>1. pc = <<TakePc(f), "eth">> /\ pc' = <<EthWaits({"ip4", f}), "eth">>
          BY <2>2 DEF takeEthernet
    <3>2. TakePc(f) \in {"take_ip4", "take_ip6"}
          BY DEF TakePc
    <3>3. EthWaits({"ip4", f}) \in {"take_ip6", "ok"}
          BY EthSemsFacts, EthWaitsFacts
    <3> QED
        BY <2>1, <3>1, <3>2, <3>3 DEF Stays
  <2>3. CASE example_ethernet_connect
    <3>1. pc = <<"connect", "eth">> /\ pc' = <<EthWaits({}), "eth">>
          BY <2>3 DEF example_ethernet_connect
    <3> QED
        BY <2>1, <3>1, EthWaitsFacts DEF Stays
  <2>4. CASE ethernetNoMemory \/ assertNetif("eth") \/ example_ethernet_shutdown \/ eth_stop
        BY <2>1, <2>4 DEF ethernetNoMemory, assertNetif,
           example_ethernet_shutdown, eth_stop, Stays
  <2> QED
      BY <1>1, <2>2, <2>3, <2>4 DEF EthStep, EthMain
<1>2. CASE ThreadStep
      BY <1>2 DEF ThreadStep, ThreadMain, example_thread_connect, threadFails,
         takeAttached, takeDnsServer, example_thread_shutdown, Stays
<1>3. CASE PppStep
      BY <1>3 DEF PppStep, PppMain, example_ppp_connect, pppNoTask, assertNetif,
         waitBits, pppStopsTask, pppDestroys, Stays
<1>4. CASE WifiStep
      BY <1>4 DEF WifiStep, example_wifi_connect, example_wifi_shutdown,
         WifiUnchanged, Stays
<1> QED
    BY <1>1, <1>2, <1>3, <1>4 DEF OwnStep

(* The next shutdown handler is of an interface that comes before.         *)
LEMMA NextIsEarlier ==
    ASSUME NEW i \in Chosen, nextShutdownHandler(i)
    PROVE  \/ pc' = <<"halted", "none">>
           \/ \E j \in shutdownHandlers : Rank[j] < Rank[i] /\ pc' = <<"shutdown", j>>
    BY DEF nextShutdownHandler

(* What is connected is registered, and only that is shut down.            *)
LEMMA RegisteredStep ==
    ASSUME IInv, Registered, Next
    PROVE  Registered'
<1> USE BuildFacts, RankFacts
<1>0. TypeOK /\ Placed
      BY DEF IInv
<1>1. CASE OwnStep
  <2>1. Stays
        BY <1>0, <1>1, OwnStepStays
  <2> QED
      BY <2>1 DEF Stays, Registered, Connecting, Stopping, Chosen, Disconnects
<1>2. CASE Checks
      BY <1>2 DEF Checks, checkFails, Goes, Registered, Connecting, Stopping
<1>3. CASE Background
  <2>1. pc' = pc \/ pc'[1] = "aborted"
        BY <1>0, <1>3, BackgroundFacts
  <2>2. UNCHANGED <<build, shutdownHandlers, restarting>>
        BY <1>0, <1>3, BackgroundFacts
  <2> QED
      BY <2>1, <2>2 DEF Registered, Connecting, Stopping, Chosen, Disconnects
<1>4. CASE example_connect
  <2>1. UNCHANGED <<build, shutdownHandlers>>
        BY <1>4 DEF example_connect
  <2>2. CASE Chosen = {} /\ pc' = <<"connected", "none">>
        BY <2>1, <2>2 DEF Registered, Connecting, Stopping, Chosen
  <2>3. CASE \E k \in Chosen : /\ \A j \in Chosen : Rank[k] <= Rank[j]
                               /\ pc' = <<"connect", k>>
    <3>1. PICK k \in Chosen : /\ \A j \in Chosen : Rank[k] <= Rank[j]
                              /\ pc' = <<"connect", k>>
          BY <2>3
    <3>2. \A j \in Chosen : ~(Rank[j] < Rank[k])
          BY <1>0, <3>1 DEF TypeOK
    <3> QED
        BY <2>1, <3>1, <3>2 DEF Registered, Connecting, Stopping, Chosen
  <2> QED
      BY <1>4, <2>2, <2>3 DEF example_connect, GoesThrough
<1>5. ASSUME NEW i \in Chosen, registerShutdownHandler(i) PROVE Registered'
  <2>1. pc = <<"ok", i>> /\ UNCHANGED build
        BY <1>5 DEF registerShutdownHandler
  <2>2. CASE pc'[1] = "aborted"
        BY <2>2 DEF Registered, Connecting, Stopping
  <2>3. CASE /\ shutdownHandlers' = shutdownHandlers \cup {i}
             /\ GoesThrough(Later(i), "connect", "connected")
    <3>1. \A j \in Chosen \ Later(i) : j \in shutdownHandlers'
      <4>1. \A j \in Chosen \ Later(i) : j = i \/ Rank[j] < Rank[i]
            BY <1>0 DEF Later, TypeOK
      <4> QED
          BY <2>1, <2>3, <4>1 DEF Registered, Connecting
    <3>2. CASE Later(i) = {} /\ pc' = <<"connected", "none">>
          BY <2>1, <3>1, <3>2 DEF Registered, Connecting, Stopping, Chosen
    <3>3. CASE \E k \in Later(i) : /\ \A j \in Later(i) : Rank[k] <= Rank[j]
                                   /\ pc' = <<"connect", k>>
      <4>1. PICK k \in Later(i) : /\ \A j \in Later(i) : Rank[k] <= Rank[j]
                                  /\ pc' = <<"connect", k>>
            BY <3>3
      <4>2. \A j \in Chosen : Rank[j] < Rank[k] => j \notin Later(i)
            BY <1>0, <4>1 DEF TypeOK, Later
      <4> QED
          BY <2>1, <3>1, <4>1, <4>2 DEF Registered, Connecting, Stopping, Chosen
    <3> QED
        BY <2>3, <3>2, <3>3 DEF GoesThrough
  <2> QED
      BY <1>5, <2>2, <2>3 DEF registerShutdownHandler, Abort
<1>6. CASE connectFailed \/ boots
  <2>1. pc'[1] \in {"aborted", "boot"}
        BY <1>6 DEF connectFailed, boots, Abort
  <2> QED
      BY <2>1 DEF Registered, Connecting, Stopping
<1>7. CASE example_disconnect
  <2>1. /\ UNCHANGED <<build, shutdownHandlers, restarting>>
        /\ \A j \in Disconnects : j \in shutdownHandlers
        /\ \/ pc' = <<"disconnected", "none">>
           \/ \E k \in Disconnects : pc' = <<"shutdown", k>>
        BY <1>7 DEF example_disconnect, GoesThrough, Registered, Disconnects
  <2> QED
      BY <2>1 DEF Registered, Connecting, Stopping, Chosen, Disconnects
<1>8. ASSUME NEW i \in Chosen, unregisterShutdownHandler(i) PROVE Registered'
  <2>1. /\ UNCHANGED <<build, restarting>> /\ pc = <<"down", i>> /\ ~restarting
        /\ shutdownHandlers' = shutdownHandlers \ {i}
        BY <1>8 DEF unregisterShutdownHandler
  <2>2. \A j \in Disconnects \cap Later(i) : j \in shutdownHandlers'
    <3>1. \A j \in Disconnects \cap Later(i) : j # i /\ Rank[i] <= Rank[j]
          BY <1>0 DEF Later, TypeOK
    <3> QED
        BY <2>1, <3>1 DEF Registered, Stopping
  <2>3. CASE pc' = <<"disconnected", "none">>
        BY <2>1, <2>3 DEF Registered, Connecting, Stopping
  <2>4. CASE \E k \in Disconnects \cap Later(i) :
                /\ \A j \in Disconnects \cap Later(i) : Rank[k] <= Rank[j]
                /\ pc' = <<"shutdown", k>>
    <3>1. PICK k \in Disconnects \cap Later(i) : pc' = <<"shutdown", k>>
          BY <2>4
    <3>2. \A j \in Disconnects : Rank[k] <= Rank[j] => j \in Later(i)
          BY <1>0, <3>1 DEF Later, TypeOK, Disconnects
    <3> QED
        BY <2>1, <2>2, <3>1, <3>2 DEF Registered, Connecting, Stopping, Chosen, Disconnects
  <2> QED
      BY <1>8, <2>3, <2>4 DEF unregisterShutdownHandler, GoesThrough
<1>9. CASE esp_restart
      BY <1>9 DEF esp_restart, Registered, Connecting, Stopping
<1>10. ASSUME NEW i \in Chosen, nextShutdownHandler(i) PROVE Registered'
  <2>1. restarting /\ UNCHANGED <<shutdownHandlers, restarting>>
        BY <1>0, <1>10, ShutdownOrder
  <2>2. \/ pc' = <<"halted", "none">>
        \/ \E j \in shutdownHandlers : pc' = <<"shutdown", j>>
        BY <1>10, NextIsEarlier
  <2> QED
      BY <2>1, <2>2 DEF Registered, Connecting, Stopping
<1> QED
    BY <1>1, <1>2, <1>3, <1>4, <1>5, <1>6, <1>7, <1>8, <1>9, <1>10, StepKinds
       DEF Sequence, OwnStep

(* A registered Wi-Fi is up until its shutdown.                            *)
LEMMA WifiUpStep ==
    ASSUME IInv, WifiUp, Next
    PROVE  WifiUp'
<1> USE BuildFacts, RankFacts
<1>0. TypeOK /\ Placed /\ Unregistered
      BY DEF IInv
<1>1. CASE EthStep \/ ThreadStep \/ PppStep
  <2>1. Stays
        BY <1>0, <1>1, OwnStepStays DEF OwnStep
  <2>2. pc'[2] # "wifi" /\ UNCHANGED wifi
        BY <1>0, <1>1, OwnInterface DEF EthStep, ThreadStep, PppStep
  <2>3. (pc'[1] = "stop" => pc'[2] = "eth") /\ (pc'[1] = "delay" => pc'[2] = "ppp")
    <3>1. EthStep => pc'[1] # "delay"
      <4>1. ASSUME NEW f \in Families, takeEthernet(f) PROVE pc'[1] \in {"take_ip6", "ok"}
        <5>1. EthWaits({"ip4", f}) \in {"take_ip6", "ok"}
              BY EthSemsFacts, EthWaitsFacts
        <5> QED
            BY <4>1, <5>1 DEF takeEthernet, Goes
      <4>2. example_ethernet_connect => pc'[1] \in {"take_ip4", "take_ip6", "ok"}
            BY EthWaitsFacts DEF example_ethernet_connect, Goes
      <4>3. ethernetNoMemory \/ assertNetif("eth") \/ example_ethernet_shutdown \/ eth_stop
            => pc'[1] \in {"error", "aborted", "down", "stop"}
            BY DEF ethernetNoMemory, assertNetif, example_ethernet_shutdown,
               eth_stop, Goes
      <4> QED
          BY <4>1, <4>2, <4>3 DEF EthStep, EthMain
    <3>2. ThreadStep => pc'[1] \notin {"stop", "delay"}
          BY DEF ThreadStep, ThreadMain, example_thread_connect, threadFails,
             takeAttached, takeDnsServer, example_thread_shutdown, Goes
    <3>3. PppStep => pc'[1] # "stop"
          BY DEF PppStep, PppMain, example_ppp_connect, pppNoTask, assertNetif,
             waitBits, pppStopsTask, pppDestroys, Goes
    <3> QED
        BY <1>0, <1>1, <3>1, <3>2, <3>3, OwnInterface
  <2> QED
      BY <2>1, <2>2, <2>3 DEF WifiUp, Stays, Connecting, Stopping
<1>2. CASE example_wifi_shutdown
      BY <1>2 DEF example_wifi_shutdown, Goes, WifiUp
<1>3. CASE example_wifi_connect
  <2>1. UNCHANGED <<shutdownHandlers, restarting, build>>
        BY <1>3 DEF example_wifi_connect, WifiUnchanged
  <2>2. pc[1] \in {"connect", "wait"} /\ pc[2] = "wifi"
        BY <1>3 DEF example_wifi_connect, Goes
  <2>3. "wifi" \notin shutdownHandlers
        BY <1>0, <2>2 DEF Unregistered, Placed, Connecting, Disconnects
  <2>4. /\ pc'[1] \in {"wait", "ok", "error"}
        /\ pc' = <<"ok", "wifi">> => wifi' = "up"
        BY <1>3 DEF example_wifi_connect, Goes, Wifi!Succeed
  <2> QED
      BY <2>1, <2>3, <2>4 DEF WifiUp
<1>4. CASE Checks
      BY <1>4 DEF Checks, checkFails, Goes, WifiUp
<1>5. CASE Background
  <2>1. pc' = pc \/ pc'[1] = "aborted"
        BY <1>0, <1>5, BackgroundFacts
  <2>2. UNCHANGED <<wifi, shutdownHandlers, restarting>>
        BY <1>0, <1>5, BackgroundFacts
  <2> QED
      BY <2>1, <2>2 DEF WifiUp
<1>6. CASE example_connect \/ example_disconnect \/ esp_restart
  <2>1. ~restarting /\ pc[1] \in {"boot", "connected", "disconnected"}
        BY <1>0, <1>6 DEF Placed, Stopping, example_connect, example_disconnect, esp_restart
  <2>2. /\ UNCHANGED <<wifi, shutdownHandlers>>
        /\ pc'[1] \in {"connect", "connected", "shutdown", "disconnected", "halted"}
        BY <1>6 DEF example_connect, example_disconnect, esp_restart, GoesThrough
  <2> QED
      BY <2>1, <2>2 DEF WifiUp
<1>7. ASSUME NEW i \in Chosen, registerShutdownHandler(i) PROVE WifiUp'
  <2>1. pc = <<"ok", i>> /\ UNCHANGED <<wifi, restarting>>
        BY <1>7 DEF registerShutdownHandler
  <2>2. /\ pc'[1] \in {"aborted", "connect", "connected"}
        /\ shutdownHandlers' \subseteq shutdownHandlers \cup {i}
        BY <1>7 DEF registerShutdownHandler, Abort, GoesThrough
  <2>3. ~restarting
        BY <1>0, <2>1 DEF Placed, Stopping
  <2> QED
      BY <2>1, <2>2, <2>3 DEF WifiUp
<1>8. ASSUME NEW i \in Chosen, unregisterShutdownHandler(i) PROVE WifiUp'
  <2>1. /\ pc = <<"down", i>> /\ UNCHANGED <<wifi, restarting>> /\ ~restarting
        /\ shutdownHandlers' = shutdownHandlers \ {i}
        /\ pc'[1] \in {"shutdown", "disconnected"}
        BY <1>8 DEF unregisterShutdownHandler, GoesThrough
  <2> QED
      BY <2>1 DEF WifiUp
<1>9. ASSUME NEW i \in Chosen, nextShutdownHandler(i) PROVE WifiUp'
  <2>1. /\ pc = <<"down", i>> /\ restarting
        /\ UNCHANGED <<wifi, shutdownHandlers, restarting>>
        BY <1>0, <1>9, ShutdownOrder DEF netVars, pppVars
  <2>2. \/ pc' = <<"halted", "none">>
        \/ \E j \in shutdownHandlers : Rank[j] < Rank[i] /\ pc' = <<"shutdown", j>>
        BY <1>9, NextIsEarlier
  <2>3. CASE pc' = <<"halted", "none">>
        BY <2>3 DEF WifiUp
  <2>4. ASSUME NEW j \in shutdownHandlers, Rank[j] < Rank[i], pc' = <<"shutdown", j>>
        PROVE  WifiUp'
    <3>1. j \in Names /\ i \in Names /\ Rank[j] \in 1..4 /\ Rank[i] \in 1..4
          BY <1>0 DEF TypeOK
    <3>2. Rank["wifi"] <= Rank[j] => Rank["wifi"] <= Rank[i] /\ i # "wifi"
          BY <2>4, <3>1
    <3> QED
        BY <2>1, <2>4, <3>2 DEF WifiUp
  <2> QED
      BY <2>2, <2>3, <2>4
<1>10. CASE connectFailed \/ boots
      BY <1>10 DEF connectFailed, boots, Abort, WifiUp
<1> QED
    BY <1>1, <1>2, <1>3, <1>4, <1>5, <1>6, <1>7, <1>8, <1>9, <1>10, StepKinds
       DEF Sequence, WifiStep

-----------------------------------------------------------------------------
(* The invariant of what keeps going.                                      *)
CInv == IInv /\ PInv

LEMMA InitCInv == ASSUME Init PROVE CInv
<1> USE DEF Init, NetInit
<1>1. EthKept /\ ThreadKept /\ PppKept
      BY DEF EthKept, ThreadKept, PppKept
<1>2. OwnWait /\ Registered /\ WifiUp
      BY DEF OwnWait, Registered, WifiUp, Connecting, Stopping
<1> QED
    BY <1>1, <1>2, InitIInv DEF CInv, PInv

LEMMA IdleCInv == ASSUME CInv, UNCHANGED vars PROVE CInv'
<1> USE DEF CInv, PInv, vars, netVars, pppVars
<1>1. IInv'
      BY IdleStep
<1>2. EthKept' /\ ThreadKept' /\ PppKept'
      BY DEF EthKept, ThreadKept, PppKept, Woken, PppBits, Families, Chosen
<1>3. OwnWait' /\ Registered' /\ WifiUp'
      BY DEF OwnWait, Registered, WifiUp, Disconnects, Chosen
<1> QED
    BY <1>1, <1>2, <1>3

LEMMA StepCInv == ASSUME CInv, Next PROVE CInv'
<1>1. IInv /\ TypeOK /\ Handled
      BY DEF CInv, IInv
<1>2. IInv'
      BY <1>1, TypeStep, PlacedStep, RetriedStep, SignalsStep, WaitedStep,
         UnregisteredStep, HandledStep, RunningStep DEF IInv
<1>3. PInv'
      BY <1>1, EthKeptStep, ThreadKeptStep, PppKeptStep, OwnWaitStep,
         RegisteredStep, WifiUpStep DEF CInv, PInv
<1> QED
    BY <1>2, <1>3 DEF CInv

(* Both parts together are inductive.                                      *)
THEOREM KeepsGoing == Spec => []CInv
<1>1. CInv /\ [Next]_vars => CInv'
      BY StepCInv, IdleCInv
<1> QED
    BY <1>1, InitCInv, PTL DEF Spec

(* No wake-up is lost: the semaphore that the main task waits for, or a    *)
(* bit of its event group, is set whenever all that the interface's        *)
(* connect function waits for has come, also when an event came before the *)
(* wait had begun.                                                         *)
THEOREM NoWakeupLost == Spec => []WakeupKept
<1>1. ASSUME CInv PROVE WakeupKept
  <2> SUFFICES ASSUME NEW i \in Waiters, Waiting(i), Promise(i) PROVE CanTake(i)
      BY DEF WakeupKept
  <2>0. OwnWait
        BY <1>1 DEF CInv, PInv
  <2>1. TypeOK /\ EthKept /\ ThreadKept /\ PppKept
        BY <1>1 DEF CInv, IInv, PInv
  <2>2. CASE i = "eth"
    <3>1. Families \subseteq got["eth"] /\ Families \subseteq {"ip4", "ip6"}
          BY <2>2, EthSemsFacts DEF Promise
    <3>2. pc[2] = "eth"
          BY <2>2 DEF Waiting
    <3>3. pc[1] = "take_ip4" => sems["eth_ip4"] = "given"
          BY <2>1, <3>1, <3>2 DEF EthKept, TypeOK
    <3>4. pc[1] = "take_ip6" => sems["eth_ip6"] = "given"
          BY <2>1, <3>1, <3>2 DEF EthKept, TypeOK
    <3> QED
        BY <2>2, <3>3, <3>4 DEF CanTake, TakePc, EthSem
  <2>3. CASE i = "thread" /\ pc = <<"take_attached", "thread">>
        BY <2>1, <2>3 DEF ThreadKept, CanTake, Promise
  <2>4. CASE i = "ppp" /\ pc = <<"wait", "ppp">>
        BY <2>1, <2>4 DEF PppKept, CanTake, Promise
  <2> QED
      BY <2>0, <2>1, <2>2, <2>3, <2>4 DEF Waiters, Waiting, OwnWait, TypeOK
<1> QED
    BY <1>1, KeepsGoing, PTL

(* What has come stays: while the main task waits on an interface, no step *)
(* takes back what it waits for, so that the wait, which is fair, ends.    *)
PromiseStays ==
    \A i \in Waiters : Waiting(i) /\ Promise(i) => Promise(i)' \/ ~Waiting(i)'

THEOREM PromisesStay == Spec => [][PromiseStays]_vars
<1>1. ASSUME CInv, Next PROVE PromiseStays
  <2> SUFFICES ASSUME NEW i \in Waiters, Waiting(i), Promise(i), Waiting(i)'
               PROVE  Promise(i)'
      BY DEF PromiseStays
  <2>1. TypeOK /\ OwnWait /\ OwnWait'
        BY <1>1, StepCInv DEF CInv, IInv, PInv
  <2>2. UNCHANGED build /\ got[i] \subseteq got'[i]
    <3>1. CASE EthStep
      <4>1. i = "eth" /\ pc[1] # "connect"
            BY <2>1, <3>1, OwnInterface DEF Waiting
      <4>2. ~example_ethernet_connect
            BY <4>1 DEF example_ethernet_connect, Goes
      <4>3. UNCHANGED <<build, got>>
            BY <3>1, <4>2 DEF EthStep, EthMain, ethernetNoMemory, assertNetif,
               takeEthernet, example_ethernet_shutdown, eth_stop
      <4> QED
          BY <4>3
    <3>2. CASE ThreadStep
      <4>1. i = "thread" /\ pc[1] # "connect"
            BY <2>1, <3>2, OwnInterface DEF Waiting
      <4> QED
          BY <2>1, <3>2, <4>1 DEF ThreadStep, ThreadMain, example_thread_connect,
             threadFails, takeAttached, takeDnsServer, example_thread_shutdown, Goes
    <3>3. CASE PppStep
      <4>1. i = "ppp" /\ pc[1] # "connect"
            BY <2>1, <3>3, OwnInterface DEF Waiting
      <4> QED
          BY <2>1, <3>3, <4>1 DEF PppStep, PppMain, example_ppp_connect, pppNoTask,
             assertNetif, waitBits, pppStopsTask, pppDestroys, Goes
    <3>4. CASE WifiStep
          BY <2>1, <3>4, OwnInterface DEF Waiting, Waiters
    <3>5. CASE Sequence \/ Checks
          BY <2>1, <3>5, NoWaitBegins DEF Waiting
    <3>6. CASE Background
          BY <2>1, <3>6, BackgroundFacts DEF Waiters, Names
    <3> QED
        BY <1>1, <3>1, <3>2, <3>3, <3>4, <3>5, <3>6, StepKinds
  <2>3. i \in Names
        BY DEF Waiters, Names
  <2> QED
      BY <2>1, <2>2, <2>3, PromiseKept
<1> QED
    BY <1>1, KeepsGoing, PTL DEF Spec

-----------------------------------------------------------------------------
(* esp_restart, and example_disconnect, never meet a shutdown that cannot  *)
(* go on: Wi-Fi, which must be up, is, because a handler is registered     *)
(* only for what is connected and taken away with it.                      *)
THEOREM ShutdownsProceed == Spec => []StepReady
<1>1. CInv => StepReady
  <2> SUFFICES ASSUME CInv, pc[1] \in Stopping
               PROVE  \/ pc[1] = "shutdown" /\ (pc[2] = "wifi" => wifi = "up")
                      \/ pc = <<"stop", "eth">>
                      \/ pc = <<"delay", "ppp">>
                      \/ pc[1] = "down"
      BY DEF StepReady
  <2>1. TypeOK /\ Registered /\ WifiUp
        BY DEF CInv, IInv, PInv
  <2>2. CASE pc[1] = "shutdown"
        BY <2>1, <2>2, RankFacts DEF Registered, WifiUp, Stopping, Names
  <2>3. CASE pc[1] \in {"stop", "delay"}
        BY <2>1, <2>3 DEF WifiUp, TypeOK
  <2> QED
      BY <2>2, <2>3 DEF Stopping
<1> QED
    BY <1>1, KeepsGoing, PTL

(* The measure of a restart.                                               *)
LEMMA LeftFacts ==
    ASSUME TypeOK, pc[2] \in Names, pc[1] \in Stopping
    PROVE  Left(pc) = 4 * Rank[pc[2]] + (IF pc[1] = "shutdown" THEN 3
                                         ELSE IF pc[1] = "down" THEN 1 ELSE 2)
<1>1. pc[1] \in Steps
      BY DEF TypeOK
<1> QED
    BY <1>1 DEF Left, Stages, Stopping

(* Once begun, a restart goes on to its end: each step of the main task    *)
(* gets nearer to it, a handler that has been called is not called again,  *)
(* and no event leads it back.                                             *)
THEOREM RestartGetsDone == Spec => [][Descends]_vars
<1>1. ASSUME CInv, Next PROVE Descends
  <2> SUFFICES ASSUME restarting, ~Ended
               PROVE  /\ restarting'
                      /\ \/ pc' = pc \/ Ended'
                         \/ Left(pc') < Left(pc) /\ Left(pc') \in Nat
      BY DEF Descends
  <2>1. TypeOK /\ Placed /\ TypeOK' /\ Placed'
        BY <1>1, StepCInv DEF CInv, IInv
  <2>2. pc[1] \in Stopping /\ pc[2] \in Names
        BY <2>1, BuildFacts DEF Placed, Ended, TypeOK
  <2>3. restarting' /\ (pc' = pc \/ Ended' \/
            /\ pc'[1] \in Stopping /\ pc'[2] \in Names
            /\ Left(pc') < Left(pc))
    <3>1. CASE OwnStep
      <4>1. Stays
            BY <2>1, <3>1, OwnStepStays
      <4>2. restarting' /\ pc'[2] = pc[2] /\ (Ended' \/ pc'[1] \in Stopping)
            BY <2>2, <4>1 DEF Stays, Stopping, Connecting, Ended
      <4>3. \/ pc'[1] \in {"stop", "delay", "down"} /\ pc[1] = "shutdown"
            \/ pc'[1] = "down" /\ pc[1] \in {"stop", "delay"}
            \/ Ended'
        <5>1. CASE EthStep
          <6>1. \A f \in Families : takeEthernet(f) => pc[1] \in {"take_ip4", "take_ip6"}
                BY DEF takeEthernet, Goes, TakePc
          <6>2. example_ethernet_connect \/ ethernetNoMemory \/ assertNetif("eth")
                => pc[1] = "connect"
                BY DEF example_ethernet_connect, ethernetNoMemory, assertNetif, Goes
          <6>3. example_ethernet_shutdown \/ eth_stop
            <7>1. pc[1] \notin {"take_ip4", "take_ip6", "connect"}
                  BY <2>2 DEF Stopping
            <7> QED
                BY <5>1, <6>1, <6>2, <7>1 DEF EthStep, EthMain
          <6> QED
              BY <6>3 DEF example_ethernet_shutdown, eth_stop, Goes
        <5>2. CASE ThreadStep
              BY <2>2, <5>2 DEF Stopping, ThreadStep, ThreadMain,
                 example_thread_connect, threadFails, takeAttached, takeDnsServer,
                 example_thread_shutdown, Goes, Ended
        <5>3. CASE PppStep
              BY <2>2, <5>3 DEF Stopping, PppStep, PppMain, example_ppp_connect,
                 pppNoTask, assertNetif, waitBits, pppStopsTask, pppDestroys, Goes
        <5>4. CASE WifiStep
              BY <2>2, <5>4 DEF Stopping, WifiStep, example_wifi_connect,
                 example_wifi_shutdown, Goes
        <5> QED
            BY <3>1, <5>1, <5>2, <5>3, <5>4 DEF OwnStep
      <4>4. CASE Ended'
            BY <4>2, <4>4
      <4>5. CASE ~Ended'
        <5>1. Rank[pc[2]] \in 1..4
              BY <2>2, RankFacts
        <5>2. Left(pc) = 4 * Rank[pc[2]] + (IF pc[1] = "shutdown" THEN 3
                                            ELSE IF pc[1] = "down" THEN 1 ELSE 2)
              BY <2>1, <2>2, LeftFacts
        <5>3. pc'[1] \in Stopping /\ pc'[1] \in Steps /\ pc'[2] = pc[2]
              BY <2>1, <4>2, <4>5 DEF TypeOK
        <5>4. Left(pc') = 4 * Rank[pc[2]] + (IF pc'[1] = "shutdown" THEN 3
                                             ELSE IF pc'[1] = "down" THEN 1 ELSE 2)
              BY <5>3 DEF Left, Stages, Stopping
        <5> QED
            BY <2>2, <4>2, <4>3, <4>5, <5>1, <5>2, <5>3, <5>4
      <4> QED
          BY <4>4, <4>5
    <3>2. CASE Checks
          BY <3>2 DEF Checks, checkFails, Goes, Ended
    <3>3. CASE Background
          BY <2>1, <3>3, BackgroundFacts DEF Ended
    <3>4. CASE Sequence
      <4>1. PICK i \in Chosen : nextShutdownHandler(i)
        <5>1. /\ example_connect => pc[1] \in {"boot", "disconnected"}
              /\ example_disconnect => pc[1] = "connected"
              /\ esp_restart => pc[1] \in {"connected", "disconnected"}
              /\ connectFailed => pc[1] = "error"
              /\ boots => pc[1] \in {"halted", "aborted"}
          <6>1. example_connect => pc[1] \in {"boot", "disconnected"}
                BY DEF example_connect
          <6>2. example_disconnect => pc[1] = "connected"
                BY DEF example_disconnect
          <6>3. esp_restart => pc[1] \in {"connected", "disconnected"}
                BY DEF esp_restart
          <6>4. connectFailed => pc[1] = "error"
                BY DEF connectFailed
          <6>5. boots => pc[1] \in {"halted", "aborted"}
                BY DEF boots
          <6> QED
              BY <6>1, <6>2, <6>3, <6>4, <6>5
        <5>2. \A i \in Chosen : /\ registerShutdownHandler(i) => pc[1] = "ok"
                                /\ ~unregisterShutdownHandler(i)
          <6>1. \A i \in Chosen : registerShutdownHandler(i) => pc[1] = "ok"
                BY DEF registerShutdownHandler
          <6>2. \A i \in Chosen : ~unregisterShutdownHandler(i)
                BY Zenon DEF unregisterShutdownHandler
          <6> QED
              BY <6>1, <6>2
        <5>3. pc[1] \notin {"boot", "connected", "disconnected", "error", "halted",
                            "aborted", "ok"}
              BY <2>2 DEF Stopping
        <5> QED
            BY <3>4, <5>1, <5>2, <5>3 DEF Sequence
      <4>2. pc = <<"down", i>> /\ restarting'
            BY <4>1 DEF nextShutdownHandler
      <4>3. CASE pc' = <<"halted", "none">>
            BY <4>2, <4>3 DEF Ended
      <4>4. ASSUME NEW j \in shutdownHandlers, Rank[j] < Rank[i], pc' = <<"shutdown", j>>
            PROVE  pc'[1] \in Stopping /\ pc'[2] \in Names /\ Left(pc') < Left(pc)
        <5>1. j \in Names /\ i \in Names
              BY <2>1, BuildFacts DEF TypeOK
        <5>2. Rank[j] \in 1..4 /\ Rank[i] \in 1..4
              BY <5>1, RankFacts
        <5>3. Left(pc) = 4 * Rank[i] + 1 /\ Left(pc') = 4 * Rank[j] + 3
              BY <4>2, <4>4 DEF Left, Stages, Steps
        <5> QED
            BY <4>4, <5>1, <5>2, <5>3 DEF Stopping
      <4> QED
          BY <4>1, <4>2, <4>3, <4>4, NextIsEarlier
    <3> QED
        BY <1>1, <3>1, <3>2, <3>3, <3>4, StepKinds DEF OwnStep
  <2>4. pc'[1] \in Stopping /\ pc'[2] \in Names => Left(pc') \in Nat
    <3> SUFFICES ASSUME pc'[1] \in Stopping, pc'[2] \in Names PROVE Left(pc') \in Nat
        OBVIOUS
    <3>1. pc'[1] \in Steps /\ Rank[pc'[2]] \in 1..4
          BY <2>1, RankFacts DEF TypeOK
    <3> QED
        BY <3>1 DEF Left, Stages
  <2> QED
      BY <2>3, <2>4
<1> QED
    BY <1>1, KeepsGoing, PTL DEF Spec
=============================================================================
