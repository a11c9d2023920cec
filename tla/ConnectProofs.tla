--------------------------- MODULE ConnectProofs ---------------------------
(***************************************************************************)
(* Proofs about the connection sequence, for every choice of interfaces    *)
(* and addresses, and every limit of retries.                              *)
(*                                                                         *)
(* The argument: at each step of the main task the interfaces before the   *)
(* one it works on have kept their promises; the ones that it has yet to   *)
(* connect, or has already disconnected, have no shutdown handler; and an  *)
(* interface that runs has one, so that a restart comes by it.             *)
(***************************************************************************)
EXTENDS ExampleConnect, TLAPS

Connecting == {"connect", "take_ip4", "take_ip6", "take_attached", "take_dns", "wait", "ok"}
Stopping == {"shutdown", "stop", "delay", "down"}

(* Which interface the main task works on.                                 *)
Placed ==
    /\ pc[1] \in Connecting \cup Stopping => pc[2] \in Chosen
    /\ pc[1] \in Stopping /\ ~restarting => pc[2] \in Disconnects
    /\ restarting => pc[1] \in Stopping \cup {"halted", "aborted"}

(* A semaphore, or a bit, that is set tells of something that has come.    *)
SignalsTell ==
    /\ sems["eth_ip4"] = "given" => "ip4" \in got["eth"]
    /\ sems["eth_ip6"] = "given" => "ip6" \in got["eth"]
    /\ "ip4" \notin Families => sems["eth_ip4"] = "null"
    /\ "ip6" \notin Families => sems["eth_ip6"] = "null"
    /\ sems["attached"] = "given" => "attached" \in got["thread"]
    /\ "GOT_IPV4" \in group \/ "GOT_IPV6" \in group => got["ppp"] # {}

(* What has been waited for has come.                                      *)
Waited ==
    /\ pc = <<"take_ip6", "eth">> /\ "ip4" \in Families => "ip4" \in got["eth"]
    /\ pc = <<"take_dns", "thread">> => "attached" \in got["thread"]
    /\ \A j \in Chosen :
          \/ pc = <<"ok", j>>
          \/ pc[1] \in Connecting /\ Rank[j] < Rank[pc[2]]
          \/ pc[1] = "connected"
          => Promise(j)

(* Which shutdown handlers are not registered.                             *)
Unregistered ==
    /\ pc[1] = "boot" => shutdownHandlers = {}
    /\ pc[1] \in Connecting =>
          \A j \in Disconnects : Rank[pc[2]] <= Rank[j] => j \notin shutdownHandlers
    /\ pc[1] = "disconnected" => shutdownHandlers \cap Disconnects = {}
    /\ pc[1] \in Stopping /\ ~restarting =>
          \A j \in Disconnects : Rank[j] < Rank[pc[2]] => j \notin shutdownHandlers
    /\ "ppp" \in shutdownHandlers /\ ~restarting => "ppp" \in netifs
    /\ pc \in {<<"wait", "ppp">>, <<"ok", "ppp">>} =>
          "ppp" \in netifs /\ "ppp" \notin shutdownHandlers

(* Handlers are registered while their semaphores exist.                   *)
Handled ==
    /\ HandlersMeetSemaphores
    /\ "eth" \in netifs => "eth" \in handlers
    /\ pc = <<"delay", "ppp">> => "ppp" \notin handlers

(* Interface i runs, and its shutdown would stop it.                       *)
Runs(i) ==
    \/ i = "eth" /\ "eth" \in netifs /\ "ip4" \in Families
    \/ i = "wifi" /\ wifi # "down"
    \/ i = "thread" /\ (otTask \in {"created", "running"} \/ "thread" \in netifs)
    \/ i = "ppp" /\ "ppp" \in netifs

Running ==
    Doomed \/ \A i \in Names : Runs(i) =>
        /\ i \notin shutdownHandlers =>
              pc[1] \in Connecting \ {"connect"} /\ pc[2] = i
        /\ pc[1] = "down" => pc[2] # i
        /\ pc[1] \in Stopping /\ restarting => Rank[i] <= Rank[pc[2]]
        /\ pc[1] # "halted"

(* The connection over PPP is tried again until the limit is reached.      *)
Retried ==
    /\ link = "negotiating" => retryNum <= PppMaxRetry
    /\ "ppp" \notin netifs => link = "none" /\ (restarting \/ retryNum = 0)

IInv == /\ TypeOK
        /\ Placed
        /\ Retried
        /\ SignalsTell
        /\ Waited
        /\ Unregistered
        /\ Handled
        /\ Running

-----------------------------------------------------------------------------
(* The order of the interfaces.                                            *)
LEMMA RankFacts ==
    /\ \A i \in Names : Rank[i] \in 1..4
    /\ \A i, j \in Names : Rank[i] = Rank[j] => i = j
    /\ Rank["eth"] = 1 /\ Rank["wifi"] = 2 /\ Rank["thread"] = 3 /\ Rank["ppp"] = 4
    BY DEF Rank, Names

(* What a configuration may choose.                                        *)
LEMMA BuildFacts ==
    ASSUME build \in Builds
    PROVE  Chosen \subseteq Names /\ Disconnects \subseteq Names
    BY BuildsAssumption DEF Chosen, Disconnects

(* What the steps are, for the proofs: the start-ups' own, ...             *)
EthStep == EthMain /\ UNCHANGED <<otTask, pppVars, wifi, shutdownHandlers, restarting>>
ThreadStep == ThreadMain /\ UNCHANGED <<pppVars, wifi, shutdownHandlers, restarting>>
PppStep == PppMain /\ UNCHANGED <<otTask, wifi, shutdownHandlers, restarting>>
WifiStep == example_wifi_connect \/ example_wifi_shutdown

(* ... those of connect.c and of esp_restart, ...                          *)
Sequence ==
    \/ example_connect
    \/ \E i \in Chosen : registerShutdownHandler(i)
    \/ connectFailed
    \/ example_disconnect
    \/ \E i \in Chosen : unregisterShutdownHandler(i)
    \/ esp_restart
    \/ \E i \in Chosen : nextShutdownHandler(i)
    \/ boots

(* ... and what goes on beside the main task.                              *)
Background == EventLoop \/ Tasks

LEMMA StepKinds ==
    Next => \/ EthStep \/ ThreadStep \/ PppStep \/ WifiStep
            \/ Sequence \/ Checks \/ Background
    BY DEF Next, Main, Application, EthStep, ThreadStep, PppStep, WifiStep,
       Sequence, Background

(* An interface that shuts down next is registered, and is the last one.   *)
LEMMA ShutdownOrder ==
    ASSUME TypeOK, NEW i \in Chosen, nextShutdownHandler(i)
    PROVE  /\ pc = <<"down", i>> /\ restarting
           /\ UNCHANGED <<build, handlers, netifs, sems, got, otTask, pppVars,
                          wifi, shutdownHandlers, restarting>>
           /\ \/ \E j \in shutdownHandlers :
                    /\ pc' = <<"shutdown", j>>
                    /\ \A k \in shutdownHandlers :
                          Rank[k] < Rank[i] => Rank[k] <= Rank[j]
              \/ /\ pc' = <<"halted", "none">>
                 /\ \A k \in shutdownHandlers : ~(Rank[k] < Rank[i])
<1> DEFINE left == {j \in shutdownHandlers : Rank[j] < Rank[i]}
<1>1. /\ pc = <<"down", i>> /\ restarting
      /\ UNCHANGED <<build, handlers, netifs, sems, got, otTask, pppVars,
                     wifi, shutdownHandlers, restarting>>
      /\ \/ \E j \in left : Latest(left, j) /\ pc' = <<"shutdown", j>>
         \/ left = {} /\ pc' = <<"halted", "none">>
      BY DEF nextShutdownHandler
<1>2. CASE left = {} /\ pc' = <<"halted", "none">>
  <2>1. \A k \in shutdownHandlers : ~(Rank[k] < Rank[i])
        BY <1>2
  <2> QED
      BY <1>1, <1>2, <2>1
<1>3. CASE \E j \in left : Latest(left, j) /\ pc' = <<"shutdown", j>>
  <2>1. PICK j \in left : Latest(left, j) /\ pc' = <<"shutdown", j>>
        BY <1>3
  <2>2. j \in shutdownHandlers /\ \A k \in left : Rank[k] <= Rank[j]
        BY <2>1 DEF Latest
  <2>3. \A k \in shutdownHandlers : Rank[k] < Rank[i] => Rank[k] <= Rank[j]
        BY <2>2
  <2> QED
      BY <1>1, <2>1, <2>2, <2>3
<1> QED
    BY <1>1, <1>2, <1>3

(* A promise that was kept is still kept when nothing has gone.            *)
LEMMA PromiseKept ==
    ASSUME TypeOK, NEW i \in Names, UNCHANGED build, got[i] \subseteq got'[i], Promise(i)
    PROVE  Promise(i)'
<1>1. CASE i \in {"eth", "wifi"}
      BY <1>1 DEF Promise, Families, Chosen
<1>2. CASE i = "thread"
      BY <1>2 DEF Promise
<1>3. CASE i = "ppp"
      BY <1>3 DEF Promise
<1> QED
    BY <1>1, <1>2, <1>3 DEF Names

(* What goes on beside the main task leaves it where it is, or aborts.     *)
LEMMA BackgroundFacts ==
    ASSUME TypeOK, Background
    PROVE  /\ pc' = pc \/ pc'[1] = "aborted"
           /\ UNCHANGED <<build, handlers, wifi, shutdownHandlers, restarting>>
           /\ \A i \in Names : got[i] \subseteq got'[i]
           /\ \A i \in Names : Runs(i)' => Runs(i)
           /\ \A i \in {"eth", "ppp"} : i \in netifs <=> i \in netifs'
<1> USE DEF TypeOK, Abort, Alive, Comes, netVars, pppVars, Runs, Families,
            Chosen
<1>1. CASE EthEvents /\ UNCHANGED <<otTask, pppVars, wifi, shutdownHandlers, restarting>>
      BY <1>1 DEF EthEvents, eth_on_got, on_eth_event, Give
<1>2. CASE ThreadEvents /\ UNCHANGED <<pppVars, wifi, shutdownHandlers, restarting>>
      BY <1>2 DEF ThreadEvents, thread_event_handler, Give
<1>3. CASE PppEvents /\ UNCHANGED <<otTask, wifi, shutdownHandlers, restarting>>
      BY <1>3 DEF PppEvents, pppGotAddress, pppLost, actionConnected
<1>4. CASE wifiGotAddress \/ wifiAborts
      BY <1>4 DEF wifiGotAddress, wifiAborts, WifiUnchanged, Wifi!GetAddress
<1>5. CASE \/ (otTaskStarts \/ otTaskEnds)
              /\ UNCHANGED <<pppVars, wifi, shutdownHandlers, restarting>>
           \/ PppTask /\ UNCHANGED <<otTask, wifi, shutdownHandlers, restarting>>
      BY <1>5 DEF otTaskStarts, otTaskEnds, PppTask, pppTaskReceives,
         pppTaskFeeds
<1> QED
    BY <1>1, <1>2, <1>3, <1>4, <1>5 DEF Background, EventLoop, Tasks

-----------------------------------------------------------------------------
(* The main task works on an interface that the build has chosen.          *)
LEMMA PlacedStep ==
    ASSUME TypeOK, Placed, Next
    PROVE  Placed'
<1> USE DEF TypeOK, Placed, Connecting, Stopping, Goes, Abort, Chosen,
            Disconnects, netVars, pppVars
<1>1. CASE EthStep
      BY <1>1 DEF EthStep, EthMain, example_ethernet_connect, ethernetNoMemory,
         assertNetif, takeEthernet, TakePc, EthWaits, example_ethernet_shutdown,
         eth_stop
<1>2. CASE ThreadStep
      BY <1>2 DEF ThreadStep, ThreadMain, example_thread_connect, threadFails,
         takeAttached, takeDnsServer, example_thread_shutdown
<1>3. CASE PppStep
      BY <1>3 DEF PppStep, PppMain, example_ppp_connect, pppNoTask, assertNetif,
         waitBits, pppStopsTask, pppDestroys
<1>4. CASE WifiStep
      BY <1>4 DEF WifiStep, example_wifi_connect, example_wifi_shutdown,
         WifiUnchanged
<1>5. CASE Checks
      BY <1>5 DEF Checks, checkFails
<1>6. CASE Background
      BY <1>6, BackgroundFacts
<1>7. CASE example_connect \/ connectFailed \/ example_disconnect \/ esp_restart \/ boots
      BY <1>7 DEF example_connect, connectFailed, example_disconnect,
         esp_restart, boots, GoesThrough
<1>8. CASE \E i \in Chosen : registerShutdownHandler(i) \/ unregisterShutdownHandler(i)
      BY <1>8 DEF registerShutdownHandler, unregisterShutdownHandler,
         GoesThrough, Later
<1>9. CASE \E i \in Chosen : nextShutdownHandler(i)
  <2>1. PICK i \in Chosen : nextShutdownHandler(i)
        BY <1>9
  <2> QED
      BY <2>1, ShutdownOrder
<1> QED
    BY <1>1, <1>2, <1>3, <1>4, <1>5, <1>6, <1>7, <1>8, <1>9, StepKinds
       DEF Sequence

(* The variables keep their types, in four parts.                          *)
PcTypeOK ==
    /\ build \in Builds
    /\ pc \in Steps \X (Names \cup {"none"})

LoopTypeOK ==
    /\ handlers \subseteq {"eth", "thread", "ppp"}
    /\ netifs \subseteq {"eth", "thread", "ppp"}

EventsTypeOK ==
    /\ sems \in [SemNames -> {"null", "empty", "given", "deleted"}]
    /\ got \in [Names -> SUBSET {"ip4", "ip6", "attached", "dns"}]

RestTypeOK ==
    /\ otTask \in {"none", "created", "running", "ended", "deleted"}
    /\ group = {"null"} \/ group \subseteq PppBits
    /\ retryNum \in 0..(PppMaxRetry + 1)
    /\ link \in {"none", "negotiating", "given_up"}
    /\ stopTask \in BOOLEAN
    /\ pppTask \in {"none", "receiving", "feeding", "ended"}
    /\ wifi \in {"down", "connecting", "up", "failed"}
    /\ shutdownHandlers \subseteq Chosen
    /\ restarting \in BOOLEAN

(* What a semaphore can be.                                                *)
SemStates == {"null", "empty", "given", "deleted"}

(* Setting semaphores keeps their type.                                    *)
LEMMA WithType ==
    ASSUME TypeOK, NEW ss, NEW v \in SemStates
    PROVE  With(ss, v) \in [SemNames -> SemStates]
    BY DEF TypeOK, With, SemStates

LEMMA TypeStep ==
    ASSUME TypeOK, Retried, Next
    PROVE  TypeOK'
<1> USE BuildFacts, PppMaxRetryAssumption
<1> USE DEF TypeOK, Retried, Steps, Goes, Abort, Comes, Nothing, With, SemNames,
            Chosen, Names, PppBits, netVars, pppVars
<1>1. CASE EthStep
  <2>1. PcTypeOK'
    <3>1. \A fs : EthWaits(fs) \in Steps
          BY DEF EthWaits
    <3>2. build' = build
          BY <1>1 DEF EthStep, EthMain, example_ethernet_connect,
             ethernetNoMemory, assertNetif, takeEthernet,
             example_ethernet_shutdown, eth_stop
    <3>3. \E step \in Steps : pc' = <<step, "eth">>
      <4> HIDE DEF Steps
      <4>1. {"aborted", "down", "error", "stop"} \subseteq Steps
            BY DEF Steps
      <4> QED
          BY <1>1, <3>1, <4>1 DEF EthStep, EthMain, example_ethernet_connect,
             ethernetNoMemory, assertNetif, takeEthernet,
             example_ethernet_shutdown, eth_stop
    <3> QED
        BY <3>2, <3>3 DEF PcTypeOK
  <2>2. LoopTypeOK'
        BY <1>1 DEF LoopTypeOK, EthStep, EthMain, example_ethernet_connect,
           ethernetNoMemory, assertNetif, takeEthernet, TakePc, EthWaits,
           example_ethernet_shutdown, eth_stop, Take, EthSems, EthSem, Families
  <2>3. EventsTypeOK'
    <3>1. CASE example_ethernet_connect
      <4>1. sems' = With(EthSems, "empty") /\ got' = [got EXCEPT !["eth"] = {}]
            BY <3>1 DEF example_ethernet_connect
      <4> HIDE DEF With
      <4> QED
          BY <4>1, WithType DEF EventsTypeOK, SemStates
    <3>2. CASE ethernetNoMemory
      <4> DEFINE deleted == With(EthSems, "deleted")
      <4>1. /\ sems' = With({"eth_ip4"}, "null") \/ sems' = [deleted EXCEPT !["eth_ip6"] = "null"]
            /\ got' = got
            BY <3>2 DEF ethernetNoMemory
      <4>2. deleted \in [SemNames -> SemStates]
            BY WithType DEF SemStates
      <4>3. With({"eth_ip4"}, "null") \in [SemNames -> SemStates]
            BY WithType DEF SemStates
      <4> HIDE DEF With, deleted
      <4>4. [deleted EXCEPT !["eth_ip6"] = "null"] \in [SemNames -> SemStates]
            BY <4>2 DEF SemStates
      <4>5. sems' \in [SemNames -> SemStates]
            BY <4>1, <4>2, <4>3, <4>4, Zenon
      <4> QED
          BY <4>1, <4>5, Zenon DEF EventsTypeOK, SemStates
    <3>3. CASE \E f \in Families : takeEthernet(f)
      <4>1. got' = got /\ \E ss : sems' = With(ss, "empty")
            BY <3>3 DEF takeEthernet, Take
      <4> HIDE DEF With
      <4> QED
          BY <4>1, WithType DEF EventsTypeOK, SemStates
    <3>4. CASE example_ethernet_shutdown
      <4>1. got' = got /\ (sems' = sems \/ sems' = With(EthSems, "null"))
            BY <3>4 DEF example_ethernet_shutdown
      <4> HIDE DEF With
      <4> QED
          BY <4>1, WithType DEF EventsTypeOK, SemStates
    <3>5. CASE assertNetif("eth") \/ eth_stop
          BY <3>5 DEF assertNetif, eth_stop, EventsTypeOK
    <3> QED
        BY <1>1, <3>1, <3>2, <3>3, <3>4, <3>5 DEF EthStep, EthMain
  <2>4. RestTypeOK'
        BY <1>1 DEF RestTypeOK, EthStep, EthMain, example_ethernet_connect,
           ethernetNoMemory, assertNetif, takeEthernet, TakePc, EthWaits,
           example_ethernet_shutdown, eth_stop, Take, EthSems, EthSem, Families
  <2> QED
      BY <2>1, <2>2, <2>3, <2>4 DEF PcTypeOK, LoopTypeOK, EventsTypeOK,
         RestTypeOK
<1>2. CASE ThreadStep
  <2>1. PcTypeOK'
        BY <1>2 DEF PcTypeOK, ThreadStep, ThreadMain, example_thread_connect,
           threadFails, takeAttached, takeDnsServer, example_thread_shutdown,
           Take, ThreadSems
  <2>2. LoopTypeOK'
        BY <1>2 DEF LoopTypeOK, ThreadStep, ThreadMain, example_thread_connect,
           threadFails, takeAttached, takeDnsServer, example_thread_shutdown,
           Take, ThreadSems
  <2>3. EventsTypeOK'
    <3>1. sems' \in [SemNames -> SemStates]
      <4> HIDE DEF With, SemNames
      <4> QED
          BY <1>2, WithType DEF SemStates, ThreadStep, ThreadMain,
             example_thread_connect, threadFails, takeAttached, takeDnsServer,
             example_thread_shutdown, Take
    <3>2. got' \in [Names -> SUBSET {"ip4", "ip6", "attached", "dns"}]
          BY <1>2 DEF ThreadStep, ThreadMain, example_thread_connect,
             threadFails, takeAttached, takeDnsServer, example_thread_shutdown
    <3> QED
        BY <3>1, <3>2 DEF EventsTypeOK, SemStates
  <2>4. RestTypeOK'
        BY <1>2 DEF RestTypeOK, ThreadStep, ThreadMain, example_thread_connect,
           threadFails, takeAttached, takeDnsServer, example_thread_shutdown,
           Take, ThreadSems
  <2> QED
      BY <2>1, <2>2, <2>3, <2>4 DEF PcTypeOK, LoopTypeOK, EventsTypeOK,
         RestTypeOK
<1>3. CASE PppStep
  <2>1. PcTypeOK'
        BY <1>3 DEF PcTypeOK, PppStep, PppMain, example_ppp_connect, pppNoTask,
           assertNetif, waitBits, pppStopsTask, pppDestroys
  <2>2. LoopTypeOK'
        BY <1>3 DEF LoopTypeOK, PppStep, PppMain, example_ppp_connect,
           pppNoTask, assertNetif, waitBits, pppStopsTask, pppDestroys
  <2>3. EventsTypeOK'
        BY <1>3 DEF EventsTypeOK, PppStep, PppMain, example_ppp_connect,
           pppNoTask, assertNetif, waitBits, pppStopsTask, pppDestroys
  <2>4. RestTypeOK'
    <3>1. stopTask' \in BOOLEAN
      <4>1. stopTask' = stopTask \/ stopTask' = FALSE \/ stopTask' = TRUE
            BY <1>3 DEF PppStep, PppMain, example_ppp_connect, pppNoTask,
               assertNetif, waitBits, pppStopsTask, pppDestroys
      <4> QED
          BY <4>1, Zenon
    <3>2. /\ UNCHANGED <<build, otTask, wifi, shutdownHandlers, restarting, retryNum>>
          /\ group' = group \/ group' = {} \/ group' = {"null"}
          /\ link' \in {link, "negotiating", "none"}
          /\ pppTask' \in {pppTask, "receiving"}
          BY <1>3 DEF PppStep, PppMain, example_ppp_connect, pppNoTask,
             assertNetif, waitBits, pppStopsTask, pppDestroys
    <3> QED
        BY <3>1, <3>2 DEF RestTypeOK
  <2> QED
      BY <2>1, <2>2, <2>3, <2>4 DEF PcTypeOK, LoopTypeOK, EventsTypeOK,
         RestTypeOK
<1>4. CASE WifiStep
  <2>1. PcTypeOK'
        BY <1>4 DEF PcTypeOK, WifiStep, example_wifi_connect,
           example_wifi_shutdown, WifiUnchanged, Wifi!Connect, Wifi!Succeed,
           Wifi!Fail, Wifi!Shutdown
  <2>2. LoopTypeOK'
        BY <1>4 DEF LoopTypeOK, WifiStep, example_wifi_connect,
           example_wifi_shutdown, WifiUnchanged, Wifi!Connect, Wifi!Succeed,
           Wifi!Fail, Wifi!Shutdown
  <2>3. EventsTypeOK'
        BY <1>4 DEF EventsTypeOK, WifiStep, example_wifi_connect,
           example_wifi_shutdown, WifiUnchanged, Wifi!Connect, Wifi!Succeed,
           Wifi!Fail, Wifi!Shutdown
  <2>4. RestTypeOK'
        BY <1>4 DEF RestTypeOK, WifiStep, example_wifi_connect,
           example_wifi_shutdown, WifiUnchanged, Wifi!Connect, Wifi!Succeed,
           Wifi!Fail, Wifi!Shutdown
  <2> QED
      BY <2>1, <2>2, <2>3, <2>4 DEF PcTypeOK, LoopTypeOK, EventsTypeOK,
         RestTypeOK
<1>5. CASE Checks
  <2>1. PcTypeOK'
        BY <1>5 DEF PcTypeOK, Checks, checkFails
  <2>2. LoopTypeOK'
        BY <1>5 DEF LoopTypeOK, Checks, checkFails
  <2>3. EventsTypeOK'
        BY <1>5 DEF EventsTypeOK, Checks, checkFails
  <2>4. RestTypeOK'
        BY <1>5 DEF RestTypeOK, Checks, checkFails
  <2> QED
      BY <2>1, <2>2, <2>3, <2>4 DEF PcTypeOK, LoopTypeOK, EventsTypeOK,
         RestTypeOK
<1>6. CASE Tasks
  <2>1. PcTypeOK'
        BY <1>6 DEF PcTypeOK, Tasks, otTaskStarts, otTaskEnds, PppTask,
           pppTaskReceives, pppTaskFeeds
  <2>2. LoopTypeOK'
        BY <1>6 DEF LoopTypeOK, Tasks, otTaskStarts, otTaskEnds, PppTask,
           pppTaskReceives, pppTaskFeeds
  <2>3. EventsTypeOK'
        BY <1>6 DEF EventsTypeOK, Tasks, otTaskStarts, otTaskEnds, PppTask,
           pppTaskReceives, pppTaskFeeds
  <2>4. RestTypeOK'
        BY <1>6 DEF RestTypeOK, Tasks, otTaskStarts, otTaskEnds, PppTask,
           pppTaskReceives, pppTaskFeeds
  <2> QED
      BY <2>1, <2>2, <2>3, <2>4 DEF PcTypeOK, LoopTypeOK, EventsTypeOK,
         RestTypeOK
<1>7. CASE EthEvents /\ UNCHANGED <<otTask, pppVars, wifi, shutdownHandlers, restarting>>
  <2>1. PcTypeOK'
        BY <1>7 DEF PcTypeOK, EthEvents, eth_on_got, on_eth_event, Give, EthSem
  <2>2. LoopTypeOK'
        BY <1>7 DEF LoopTypeOK, EthEvents, eth_on_got, on_eth_event, Give,
           EthSem
  <2>3. EventsTypeOK'
        BY <1>7 DEF EventsTypeOK, EthEvents, eth_on_got, on_eth_event, Give,
           EthSem
  <2>4. RestTypeOK'
        BY <1>7 DEF RestTypeOK, EthEvents, eth_on_got, on_eth_event, Give,
           EthSem
  <2> QED
      BY <2>1, <2>2, <2>3, <2>4 DEF PcTypeOK, LoopTypeOK, EventsTypeOK,
         RestTypeOK
<1>8. CASE ThreadEvents /\ UNCHANGED <<pppVars, wifi, shutdownHandlers, restarting>>
  <2>1. PcTypeOK'
        BY <1>8 DEF PcTypeOK, ThreadEvents, thread_event_handler, Give,
           ThreadSems
  <2>2. LoopTypeOK'
        BY <1>8 DEF LoopTypeOK, ThreadEvents, thread_event_handler, Give,
           ThreadSems
  <2>3. EventsTypeOK'
        BY <1>8 DEF EventsTypeOK, ThreadEvents, thread_event_handler, Give,
           ThreadSems
  <2>4. RestTypeOK'
        BY <1>8 DEF RestTypeOK, ThreadEvents, thread_event_handler, Give,
           ThreadSems
  <2> QED
      BY <2>1, <2>2, <2>3, <2>4 DEF PcTypeOK, LoopTypeOK, EventsTypeOK,
         RestTypeOK
<1>9. CASE PppEvents /\ UNCHANGED <<otTask, wifi, shutdownHandlers, restarting>>
  <2>1. PcTypeOK'
        BY <1>9 DEF PcTypeOK, PppEvents, pppGotAddress, pppLost, actionConnected,
           SetBit
  <2>2. LoopTypeOK'
        BY <1>9 DEF LoopTypeOK, PppEvents, pppGotAddress, pppLost, actionConnected,
           SetBit
  <2>3. EventsTypeOK'
        BY <1>9 DEF EventsTypeOK, PppEvents, pppGotAddress, pppLost, actionConnected,
           SetBit
  <2>4. RestTypeOK'
        BY <1>9 DEF RestTypeOK, PppEvents, pppGotAddress, pppLost, actionConnected,
           SetBit
  <2> QED
      BY <2>1, <2>2, <2>3, <2>4 DEF PcTypeOK, LoopTypeOK, EventsTypeOK,
         RestTypeOK
<1>10. CASE wifiGotAddress \/ wifiAborts
  <2>1. PcTypeOK'
        BY <1>10 DEF PcTypeOK, wifiGotAddress, wifiAborts, WifiUnchanged,
           Wifi!GetAddress, Families
  <2>2. LoopTypeOK'
        BY <1>10 DEF LoopTypeOK, wifiGotAddress, wifiAborts, WifiUnchanged,
           Wifi!GetAddress, Families
  <2>3. EventsTypeOK'
        BY <1>10 DEF EventsTypeOK, wifiGotAddress, wifiAborts, WifiUnchanged,
           Wifi!GetAddress, Families
  <2>4. RestTypeOK'
        BY <1>10 DEF RestTypeOK, wifiGotAddress, wifiAborts, WifiUnchanged,
           Wifi!GetAddress, Families
  <2> QED
      BY <2>1, <2>2, <2>3, <2>4 DEF PcTypeOK, LoopTypeOK, EventsTypeOK,
         RestTypeOK
<1>11. CASE example_connect \/ connectFailed \/ example_disconnect \/ esp_restart \/ boots
  <2>1. PcTypeOK'
        BY <1>11 DEF PcTypeOK, example_connect, connectFailed,
           example_disconnect, esp_restart, boots, GoesThrough, Disconnects
  <2>2. LoopTypeOK'
        BY <1>11 DEF LoopTypeOK, example_connect, connectFailed,
           example_disconnect, esp_restart, boots, GoesThrough, Disconnects
  <2>3. EventsTypeOK'
        BY <1>11 DEF EventsTypeOK, example_connect, connectFailed,
           example_disconnect, esp_restart, boots, GoesThrough, Disconnects
  <2>4. RestTypeOK'
    <3>1. restarting' = restarting \/ restarting' = FALSE \/ restarting' = TRUE
          BY <1>11 DEF example_connect, connectFailed, example_disconnect,
             esp_restart, boots
    <3>2. stopTask' = stopTask \/ stopTask' = FALSE
          BY <1>11 DEF example_connect, connectFailed, example_disconnect,
             esp_restart, boots
    <3>3. restarting' \in BOOLEAN /\ stopTask' \in BOOLEAN
          BY <3>1, <3>2, Zenon
    <3>4. /\ UNCHANGED build
          /\ otTask' \in {otTask, "none"} /\ wifi' \in {wifi, "down"}
          /\ shutdownHandlers' = shutdownHandlers \/ shutdownHandlers' = {}
          /\ group' = group \/ group' = {"null"}
          /\ retryNum' \in {retryNum, 0} /\ link' \in {link, "none"}
          /\ pppTask' \in {pppTask, "none"}
          BY <1>11 DEF example_connect, connectFailed, example_disconnect,
             esp_restart, boots
    <3> QED
        BY <3>3, <3>4 DEF RestTypeOK
  <2> QED
      BY <2>1, <2>2, <2>3, <2>4 DEF PcTypeOK, LoopTypeOK, EventsTypeOK,
         RestTypeOK
<1>12. CASE \E i \in Chosen : registerShutdownHandler(i) \/ unregisterShutdownHandler(i)
  <2>1. PcTypeOK'
        BY <1>12 DEF PcTypeOK, registerShutdownHandler,
           unregisterShutdownHandler, GoesThrough, Later, Disconnects
  <2>2. LoopTypeOK'
        BY <1>12 DEF LoopTypeOK, registerShutdownHandler,
           unregisterShutdownHandler, GoesThrough, Later, Disconnects
  <2>3. EventsTypeOK'
        BY <1>12 DEF EventsTypeOK, registerShutdownHandler,
           unregisterShutdownHandler, GoesThrough, Later, Disconnects
  <2>4. RestTypeOK'
        BY <1>12 DEF RestTypeOK, registerShutdownHandler,
           unregisterShutdownHandler, GoesThrough, Later, Disconnects
  <2> QED
      BY <2>1, <2>2, <2>3, <2>4 DEF PcTypeOK, LoopTypeOK, EventsTypeOK,
         RestTypeOK
<1>13. CASE \E i \in Chosen : nextShutdownHandler(i)
  <2>1. PICK i \in Chosen : nextShutdownHandler(i)
        BY <1>13
  <2>2. UNCHANGED <<build, handlers, netifs, sems, got, otTask, pppVars, wifi,
                    shutdownHandlers, restarting>>
        BY <2>1, ShutdownOrder
  <2>3. PcTypeOK'
    <3>1. pc' = <<"halted", "none">> \/ \E j \in Names : pc' = <<"shutdown", j>>
          BY <2>1, ShutdownOrder
    <3> QED
        BY <2>2, <3>1 DEF PcTypeOK
  <2>4. LoopTypeOK' /\ EventsTypeOK' /\ RestTypeOK'
        BY <2>2 DEF LoopTypeOK, EventsTypeOK, RestTypeOK
  <2> QED
      BY <2>3, <2>4 DEF PcTypeOK, LoopTypeOK, EventsTypeOK, RestTypeOK
<1> QED
    BY <1>1, <1>2, <1>3, <1>4, <1>5, <1>6, <1>7, <1>8, <1>9, <1>10, <1>11,
       <1>12, <1>13, StepKinds DEF Background, EventLoop, Sequence

(* Which semaphores a build has for Ethernet.                              *)
LEMMA EthSemsFacts ==
    /\ Families \subseteq {"ip4", "ip6"}
    /\ "eth_ip4" \in EthSems <=> "ip4" \in Families
    /\ "eth_ip6" \in EthSems <=> "ip6" \in Families
    /\ "attached" \notin EthSems /\ "dns" \notin EthSems
<1>1. Families \subseteq {"ip4", "ip6"}
      BY DEF Families
<1> QED
    BY <1>1 DEF EthSems, EthSem

(* Each address of Ethernet has a semaphore of its own.                    *)
LEMMA EthSemValue ==
    ASSUME NEW f \in {"ip4", "ip6"}
    PROVE  (EthSem(f) = "eth_ip4" /\ f = "ip4") \/ (EthSem(f) = "eth_ip6" /\ f = "ip6")
    BY DEF EthSem

(* What With sets, and what it leaves alone.                               *)
LEMMA WithValue ==
    ASSUME NEW ss, NEW v
    PROVE  \A s \in SemNames : With(ss, v)[s] = IF s \in ss THEN v ELSE sems[s]
    BY DEF With

(* What is set tells of what has come, and a new connection starts afresh. *)
LEMMA SignalsStep ==
    ASSUME TypeOK, SignalsTell, Next
    PROVE  SignalsTell'
<1> USE EthSemsFacts, WithValue
<1> USE DEF TypeOK, SignalsTell, Comes, Nothing, SemNames, Names, netVars,
            pppVars
<1>1. CASE EthStep
  <2>1. UNCHANGED <<build, group>> /\ Families' = Families
    <3>1. UNCHANGED <<build, group>>
          BY <1>1 DEF EthStep, EthMain, example_ethernet_connect,
             ethernetNoMemory, assertNetif, takeEthernet,
             example_ethernet_shutdown, eth_stop
    <3> QED
        BY <3>1 DEF Families, Chosen
  <2>2. CASE example_ethernet_connect
    <3>1. sems' = With(EthSems, "empty") /\ got' = [got EXCEPT !["eth"] = {}]
          BY <2>2 DEF example_ethernet_connect
    <3> QED
        BY <2>1, <3>1
  <2>3. CASE ethernetNoMemory
    <3> DEFINE deleted == With(EthSems, "deleted")
    <3>1. /\ got' = got
          /\ \/ sems' = With({"eth_ip4"}, "null")
             \/ "ip6" \in Families /\ sems' = [deleted EXCEPT !["eth_ip6"] = "null"]
          BY <2>3 DEF ethernetNoMemory
    <3>2. deleted \in [SemNames -> SemStates]
          BY WithType DEF SemStates
    <3>3. \A s \in SemNames : deleted[s] = IF s \in EthSems THEN "deleted" ELSE sems[s]
          OBVIOUS
    <3> HIDE DEF deleted
    <3> QED
        BY <2>1, <3>1, <3>2, <3>3
  <2>4. ASSUME NEW f \in Families, takeEthernet(f)
        PROVE  SignalsTell'
    <3>1. got' = got /\ sems' = With({EthSem(f)}, "empty")
          BY <2>4 DEF takeEthernet, Take
    <3>2. (EthSem(f) = "eth_ip4" /\ f = "ip4") \/ (EthSem(f) = "eth_ip6" /\ f = "ip6")
          BY EthSemValue
    <3> QED
        BY <2>1, <3>1, <3>2
  <2>5. CASE example_ethernet_shutdown
    <3>1. got' = got /\ (sems' = sems \/ sems' = With(EthSems, "null"))
          BY <2>5 DEF example_ethernet_shutdown
    <3> QED
        BY <2>1, <3>1
  <2>6. CASE assertNetif("eth") \/ eth_stop
        BY <2>1, <2>6 DEF assertNetif, eth_stop
  <2> QED
      BY <1>1, <2>2, <2>3, <2>4, <2>5, <2>6 DEF EthStep, EthMain
<1>2. CASE ThreadStep
  <2>1. UNCHANGED <<build, group>> /\ Families' = Families
        BY <1>2 DEF ThreadStep, ThreadMain, example_thread_connect, threadFails,
           takeAttached, takeDnsServer, example_thread_shutdown, Families,
           Chosen
  <2>2. CASE example_thread_connect
    <3>1. sems' = With(ThreadSems, "empty") /\ got' = [got EXCEPT !["thread"] = {}]
          BY <2>2 DEF example_thread_connect
    <3> QED
        BY <2>1, <3>1 DEF ThreadSems
  <2>3. CASE threadFails
    <3> DEFINE deleted == With(ThreadSems, "deleted")
    <3>1. /\ got' = got
          /\ \/ sems' = With({"attached"}, "null")
             \/ sems' = [deleted EXCEPT !["dns"] = "null"]
             \/ sems' = deleted
          BY <2>3 DEF threadFails
    <3>2. deleted \in [SemNames -> SemStates]
          BY WithType DEF SemStates
    <3>3. \A s \in SemNames : deleted[s] = IF s \in ThreadSems THEN "deleted" ELSE sems[s]
          OBVIOUS
    <3> HIDE DEF deleted
    <3> QED
        BY <2>1, <3>1, <3>2, <3>3 DEF ThreadSems
  <2>4. CASE takeAttached \/ takeDnsServer \/ example_thread_shutdown
    <3>1. /\ got' = got
          /\ \/ sems' = sems \/ sems' = With({"attached"}, "empty")
             \/ sems' = With({"dns"}, "empty") \/ sems' = With(ThreadSems, "deleted")
          BY <2>4 DEF takeAttached, takeDnsServer, example_thread_shutdown, Take
    <3> QED
        BY <2>1, <3>1 DEF ThreadSems
  <2> QED
      BY <1>2, <2>2, <2>3, <2>4 DEF ThreadStep, ThreadMain
<1>3. CASE PppStep
      BY <1>3 DEF PppStep, PppMain, example_ppp_connect, pppNoTask, assertNetif,
         waitBits, pppStopsTask, pppDestroys, Families, Chosen
<1>4. CASE WifiStep
      BY <1>4 DEF WifiStep, example_wifi_connect, example_wifi_shutdown,
         WifiUnchanged, Families, Chosen
<1>5. CASE Checks
      BY <1>5 DEF Checks, checkFails, Families, Chosen
<1>6. CASE EthEvents /\ UNCHANGED <<otTask, pppVars, wifi, shutdownHandlers, restarting>>
  <2>1. UNCHANGED <<build, group>> /\ Families' = Families
        BY <1>6 DEF EthEvents, eth_on_got, on_eth_event, Families, Chosen
  <2>2. CASE on_eth_event
        BY <2>1, <2>2 DEF on_eth_event
  <2>3. ASSUME NEW f \in {"ip4", "ip6"}, eth_on_got(f)
        PROVE  SignalsTell'
    <3>1. /\ got' = [got EXCEPT !["eth"] = @ \cup {f}]
          /\ \/ sems' = sems
             \/ sems[EthSem(f)] # "null" /\ sems' = With({EthSem(f)}, "given")
      <4>1. Give("eth", EthSem(f)) /\ Comes("eth", f)
            BY <2>3 DEF eth_on_got
      <4> QED
          BY <4>1 DEF Give
    <3>2. (EthSem(f) = "eth_ip4" /\ f = "ip4") \/ (EthSem(f) = "eth_ip6" /\ f = "ip6")
          BY EthSemValue
    <3> QED
        BY <2>1, <3>1, <3>2
  <2> QED
      BY <1>6, <2>2, <2>3 DEF EthEvents
<1>7. CASE ThreadEvents /\ UNCHANGED <<pppVars, wifi, shutdownHandlers, restarting>>
  <2>1. PICK s \in ThreadSems : thread_event_handler(s)
        BY <1>7 DEF ThreadEvents
  <2>2. /\ UNCHANGED <<build, group>> /\ Families' = Families
        /\ got' = [got EXCEPT !["thread"] = @ \cup {s}]
        /\ sems' = sems \/ sems' = With({s}, "given")
        BY <1>7, <2>1 DEF thread_event_handler, Give, Families, Chosen
  <2> QED
      BY <2>1, <2>2 DEF ThreadSems
<1>8. CASE PppEvents /\ UNCHANGED <<otTask, wifi, shutdownHandlers, restarting>>
      BY <1>8 DEF PppEvents, pppGotAddress, pppLost, actionConnected, SetBit,
         Families, Chosen
<1>9. CASE wifiGotAddress \/ wifiAborts
      BY <1>9 DEF wifiGotAddress, wifiAborts, WifiUnchanged, Families, Chosen
<1>10. CASE Tasks
      BY <1>10 DEF Tasks, otTaskStarts, otTaskEnds, PppTask, pppTaskReceives,
         pppTaskFeeds, Families, Chosen
<1>11. CASE boots
      BY <1>11 DEF boots, Families, Chosen
<1>12. CASE Sequence /\ ~boots
  <2>1. UNCHANGED <<build, sems, got, group>>
        BY <1>12, ShutdownOrder DEF Sequence, example_connect,
           registerShutdownHandler, connectFailed, example_disconnect,
           unregisterShutdownHandler, esp_restart
  <2> QED
      BY <2>1 DEF Families, Chosen
<1> QED
    BY <1>1, <1>2, <1>3, <1>4, <1>5, <1>6, <1>7, <1>8, <1>9, <1>10, <1>11,
       <1>12, StepKinds DEF Background, EventLoop

(* For which address example_ethernet_connect waits next.                  *)
LEMMA EthWaitsFacts ==
    /\ \/ EthWaits({}) = "take_ip4"
       \/ EthWaits({}) = "take_ip6" /\ Families = {"ip6"}
       \/ EthWaits({}) = "ok" /\ Families = {}
    /\ \/ EthWaits({"ip4", "ip4"}) = "take_ip6"
       \/ EthWaits({"ip4", "ip4"}) = "ok" /\ Families \subseteq {"ip4"}
    /\ EthWaits({"ip4", "ip6"}) = "ok"
<1>1. Families \subseteq {"ip4", "ip6"}
      BY EthSemsFacts
<1>2. \/ EthWaits({}) = "take_ip4"
      \/ EthWaits({}) = "take_ip6" /\ Families = {"ip6"}
      \/ EthWaits({}) = "ok" /\ Families = {}
      BY <1>1 DEF EthWaits
<1>3. \/ EthWaits({"ip4", "ip4"}) = "take_ip6"
      \/ EthWaits({"ip4", "ip4"}) = "ok" /\ Families \subseteq {"ip4"}
  <2>1. "ip4" \notin Families \ {"ip4", "ip4"}
        OBVIOUS
  <2> QED
      BY <1>1, <2>1 DEF EthWaits
<1>4. EthWaits({"ip4", "ip6"}) = "ok"
  <2>1. Families \ {"ip4", "ip6"} = {}
        BY <1>1
  <2> QED
      BY <2>1 DEF EthWaits
<1> QED
    BY <1>2, <1>3, <1>4

(* The promises kept while the main task works on interface i.             *)
LEMMA WaitedGoesOn ==
    ASSUME TypeOK, Placed, Waited, UNCHANGED build,
           NEW i \in Chosen, NEW from \in Connecting \ {"ok"}, NEW to,
           Goes(i, from, to),
           \A j \in Names \ {i} : got[j] \subseteq got'[j],
           to = "ok" => Promise(i)',
           to = "connected" => FALSE,
           to = "take_ip6" /\ i = "eth" /\ "ip4" \in Families => "ip4" \in got'["eth"],
           to = "take_dns" /\ i = "thread" => "attached" \in got'["thread"]
    PROVE  Waited'
<1>1. pc = <<from, i>> /\ pc' = <<to, i>>
      BY DEF Goes
<1>2. \A j \in Chosen : j # i /\ Promise(j) => Promise(j)'
      BY PromiseKept, BuildFacts DEF TypeOK
<1>3. Chosen' = Chosen /\ Families' = Families /\ Chosen \subseteq Names
      BY BuildFacts DEF Chosen, Families, TypeOK
<1>4. ASSUME NEW j \in Chosen, Rank[j] < Rank[i]
      PROVE  Promise(j)'
  <2>1. Promise(j)
        BY <1>1, <1>4 DEF Waited
  <2>2. j # i
        BY <1>3, <1>4, RankFacts
  <2> QED
      BY <1>2, <2>1, <2>2
<1> QED
    BY <1>1, <1>3, <1>4 DEF Waited

(* Where nothing is waited for, there is nothing to keep.                  *)
LEMMA WaitedIdle ==
    ASSUME UNCHANGED build, pc'[1] \notin Connecting \cup {"connected"}
    PROVE  Waited'
    BY DEF Waited, Connecting

(* Each interface is done with before the next one is begun.               *)
LEMMA WaitedStep ==
    ASSUME TypeOK, Placed, SignalsTell, Waited, Next
    PROVE  Waited'
<1> USE BuildFacts
<1> USE DEF TypeOK
<1>1. CASE EthStep
  <2>1. \A j \in Names \ {"eth"} : got[j] \subseteq got'[j]
        BY <1>1 DEF EthStep, EthMain, example_ethernet_connect,
           ethernetNoMemory, assertNetif, takeEthernet,
           example_ethernet_shutdown, eth_stop, Nothing
  <2>2. UNCHANGED build
        BY <1>1 DEF EthStep, EthMain, example_ethernet_connect,
           ethernetNoMemory, assertNetif, takeEthernet,
           example_ethernet_shutdown, eth_stop
  <2>3. CASE example_ethernet_connect
    <3>1. Goes("eth", "connect", EthWaits({})) /\ "eth" \in Chosen
          BY <2>3 DEF example_ethernet_connect, Goes, Placed, Connecting
    <3>2. EthWaits({}) = "ok" => Promise("eth")'
          BY <2>2, EthWaitsFacts DEF Promise, Families, Chosen
    <3> QED
        BY <2>1, <2>2, <3>1, <3>2, EthWaitsFacts, WaitedGoesOn DEF Connecting
  <2>4. CASE takeEthernet("ip4")
    <3>1. Goes("eth", "take_ip4", EthWaits({"ip4", "ip4"})) /\ "eth" \in Chosen
          BY <2>4 DEF takeEthernet, TakePc, Goes, Placed, Connecting
    <3>2. "ip4" \in got["eth"] /\ got' = got
          BY <2>4 DEF takeEthernet, Take, EthSem, SignalsTell
    <3>3. EthWaits({"ip4", "ip4"}) = "ok" => Promise("eth")'
          BY <2>2, <3>2, EthWaitsFacts DEF Promise, Families, Chosen
    <3> QED
        BY <2>1, <2>2, <3>1, <3>2, <3>3, EthWaitsFacts, WaitedGoesOn
           DEF Connecting
  <2>5. CASE takeEthernet("ip6")
    <3>1. Goes("eth", "take_ip6", EthWaits({"ip4", "ip6"})) /\ "eth" \in Chosen
          BY <2>5 DEF takeEthernet, TakePc, Goes, Placed, Connecting
    <3>2. "ip6" \in got["eth"] /\ got' = got
          BY <2>5 DEF takeEthernet, Take, EthSem, SignalsTell
    <3>3. "ip4" \in Families => "ip4" \in got["eth"]
          BY <3>1 DEF Waited, Goes
    <3>4. Promise("eth")'
      <4>1. Families' = Families
            BY <2>2 DEF Families, Chosen
      <4> QED
          BY <3>2, <3>3, <4>1, EthSemsFacts DEF Promise
    <3> QED
        BY <2>1, <2>2, <3>1, <3>4, EthWaitsFacts, WaitedGoesOn DEF Connecting
  <2>6. CASE ethernetNoMemory \/ assertNetif("eth") \/ example_ethernet_shutdown \/ eth_stop
    <3>1. pc'[1] \in {"error", "aborted", "down", "stop"}
          BY <2>6 DEF ethernetNoMemory, assertNetif, example_ethernet_shutdown,
             eth_stop, Goes
    <3> QED
        BY <2>2, <3>1, WaitedIdle DEF Connecting
  <2>7. Families \subseteq {"ip4", "ip6"}
        BY EthSemsFacts
  <2> QED
      BY <1>1, <2>3, <2>4, <2>5, <2>6, <2>7 DEF EthStep, EthMain
<1>2. CASE ThreadStep
  <2>1. /\ \A j \in Names \ {"thread"} : got[j] \subseteq got'[j]
        /\ UNCHANGED build
        BY <1>2 DEF ThreadStep, ThreadMain, example_thread_connect, threadFails,
           takeAttached, takeDnsServer, example_thread_shutdown, Nothing
  <2>2. CASE example_thread_connect
    <3>1. Goes("thread", "connect", "take_attached") /\ "thread" \in Chosen
          BY <2>2 DEF example_thread_connect, Goes, Placed, Connecting
    <3> QED
        BY <2>1, <3>1, WaitedGoesOn DEF Connecting
  <2>3. CASE takeAttached
    <3>1. /\ Goes("thread", "take_attached", "take_dns") /\ "thread" \in Chosen
          /\ "attached" \in got'["thread"]
          BY <2>3 DEF takeAttached, Take, Goes, Placed, Connecting, SignalsTell
    <3> QED
        BY <2>1, <3>1, WaitedGoesOn DEF Connecting
  <2>4. CASE takeDnsServer
    <3>1. /\ Goes("thread", "take_dns", "ok") /\ "thread" \in Chosen
          /\ "attached" \in got'["thread"]
          BY <2>4 DEF takeDnsServer, Goes, Placed, Connecting, Waited
    <3>2. Promise("thread")'
          BY <3>1 DEF Promise
    <3> QED
        BY <2>1, <3>1, <3>2, WaitedGoesOn DEF Connecting
  <2>5. CASE threadFails \/ example_thread_shutdown
    <3>1. pc'[1] \in {"error", "aborted", "down"}
          BY <2>5 DEF threadFails, example_thread_shutdown, Goes
    <3> QED
        BY <2>1, <3>1, WaitedIdle DEF Connecting
  <2> QED
      BY <1>2, <2>2, <2>3, <2>4, <2>5 DEF ThreadStep, ThreadMain
<1>3. CASE PppStep
  <2>1. /\ \A j \in Names \ {"ppp"} : got[j] \subseteq got'[j]
        /\ UNCHANGED build
        BY <1>3 DEF PppStep, PppMain, example_ppp_connect, pppNoTask,
           assertNetif, waitBits, pppStopsTask, pppDestroys, Nothing
  <2>2. CASE example_ppp_connect
    <3>1. Goes("ppp", "connect", "wait") /\ "ppp" \in Chosen
          BY <2>2 DEF example_ppp_connect, Goes, Placed, Connecting
    <3> QED
        BY <2>1, <3>1, WaitedGoesOn DEF Connecting
  <2>3. CASE waitBits /\ "CONNECTION_FAILED" \notin group
    <3>1. /\ Goes("ppp", "wait", "ok") /\ "ppp" \in Chosen
          /\ got' = got
          BY <2>3 DEF waitBits, Goes, Placed, Connecting
    <3>2. got["ppp"] # {}
          BY <2>3 DEF waitBits, Woken, PppBits, SignalsTell
    <3>3. Promise("ppp")'
          BY <3>1, <3>2 DEF Promise
    <3> QED
        BY <2>1, <3>1, <3>3, WaitedGoesOn DEF Connecting
  <2>4. CASE \/ waitBits /\ "CONNECTION_FAILED" \in group
             \/ pppNoTask \/ assertNetif("ppp") \/ pppStopsTask \/ pppDestroys
    <3>1. pc'[1] \in {"error", "aborted", "down", "delay"}
          BY <2>4 DEF waitBits, pppNoTask, assertNetif, pppStopsTask,
             pppDestroys, Goes
    <3> QED
        BY <2>1, <3>1, WaitedIdle DEF Connecting
  <2> QED
      BY <1>3, <2>2, <2>3, <2>4 DEF PppStep, PppMain
<1>4. CASE WifiStep
  <2>1. /\ \A j \in Names \ {"wifi"} : got[j] \subseteq got'[j]
        /\ UNCHANGED build
        BY <1>4 DEF WifiStep, example_wifi_connect, example_wifi_shutdown,
           WifiUnchanged, Nothing
  <2>2. CASE example_wifi_shutdown \/ pc'[1] = "error"
    <3>1. pc'[1] \in {"down", "error"}
          BY <2>2 DEF example_wifi_shutdown, Goes
    <3> QED
        BY <2>1, <3>1, WaitedIdle DEF Connecting
  <2>3. CASE example_wifi_connect /\ Goes("wifi", "connect", "wait")
    <3>1. "wifi" \in Chosen
          BY <2>3 DEF Goes, Placed, Connecting
    <3> QED
        BY <2>1, <2>3, <3>1, WaitedGoesOn DEF Connecting
  <2>4. CASE got' = got /\ Goes("wifi", "wait", "ok") /\ Wifi!Succeed
    <3>1. "wifi" \in Chosen
          BY <2>4 DEF Goes, Placed, Connecting
    <3>2. Families \subseteq got'["wifi"] /\ Families' = Families
          BY <2>1, <2>4 DEF Wifi!Succeed, Families, Chosen
    <3>3. Promise("wifi")'
          BY <3>2 DEF Promise
    <3> QED
        BY <2>1, <2>4, <3>1, <3>3, WaitedGoesOn DEF Connecting
  <2> QED
      BY <1>4, <2>2, <2>3, <2>4 DEF WifiStep, example_wifi_connect, Goes
<1>5. CASE Checks
  <2>1. pc'[1] = "aborted" /\ UNCHANGED build
        BY <1>5 DEF Checks, checkFails, Goes
  <2> QED
      BY <2>1, WaitedIdle DEF Connecting
<1>6. CASE Background
  <2>1. UNCHANGED build /\ \A j \in Chosen : Promise(j) => Promise(j)'
        BY <1>6, BackgroundFacts, PromiseKept
  <2>2. Chosen' = Chosen /\ Families' = Families
        BY <2>1 DEF Chosen, Families
  <2>3. CASE pc' = pc
    <3>1. \A i \in Names : got[i] \subseteq got'[i]
          BY <1>6, BackgroundFacts
    <3> QED
        BY <2>1, <2>2, <2>3, <3>1 DEF Waited, Names
  <2>4. CASE pc'[1] = "aborted"
        BY <2>1, <2>4, WaitedIdle DEF Connecting
  <2> QED
      BY <1>6, <2>3, <2>4, BackgroundFacts
<1>7. CASE \E i \in Chosen : registerShutdownHandler(i)
  <2>1. PICK i \in Chosen : registerShutdownHandler(i)
        BY <1>7
  <2>2. UNCHANGED <<build, got>> /\ pc = <<"ok", i>>
        BY <2>1 DEF registerShutdownHandler
  <2>3. \A j \in Chosen : Promise(j) => Promise(j)'
        BY <2>2, PromiseKept
  <2>4. \A j \in Chosen \ Later(i) : Promise(j)
    <3> SUFFICES ASSUME NEW j \in Chosen \ Later(i) PROVE Promise(j)
        OBVIOUS
    <3>1. ~(Rank[j] > Rank[i]) /\ i \in Names /\ j \in Names
          BY DEF Later
    <3>2. j = i \/ Rank[j] < Rank[i]
          BY <3>1, RankFacts
    <3> QED
        BY <2>2, <3>2 DEF Waited, Connecting
  <2>5. \/ pc'[1] = "aborted"
        \/ Later(i) = {} /\ pc' = <<"connected", "none">>
        \/ \E k \in Later(i) : /\ pc' = <<"connect", k>>
                               /\ \A j \in Later(i) : Rank[k] <= Rank[j]
        BY <2>1 DEF registerShutdownHandler, Abort, GoesThrough
  <2>6. CASE pc'[1] = "aborted"
        BY <2>2, <2>6, WaitedIdle DEF Connecting
  <2>7. CASE Later(i) = {} /\ pc' = <<"connected", "none">>
        BY <2>2, <2>3, <2>4, <2>7 DEF Waited, Connecting, Chosen
  <2>8. ASSUME NEW k \in Later(i), pc' = <<"connect", k>>,
               \A j \in Later(i) : Rank[k] <= Rank[j]
        PROVE  Waited'
    <3>1. \A j \in Chosen : Rank[j] < Rank[k] => j \notin Later(i)
          BY <2>8, RankFacts DEF Later
    <3> QED
        BY <2>2, <2>3, <2>4, <2>8, <3>1 DEF Waited, Chosen
  <2> QED
      BY <2>5, <2>6, <2>7, <2>8
<1>8. CASE example_connect
  <2>1. UNCHANGED build
        BY <1>8 DEF example_connect
  <2>2. CASE Chosen = {}
        BY <1>8, <2>1, <2>2 DEF example_connect, GoesThrough, Waited,
           Connecting, Chosen
  <2>3. CASE \E i \in Chosen : /\ \A j \in Chosen : Rank[i] <= Rank[j]
                               /\ pc' = <<"connect", i>>
        BY <2>1, <2>3, RankFacts DEF Waited, Chosen
  <2> QED
      BY <1>8, <2>2, <2>3 DEF example_connect, GoesThrough
<1>9. CASE connectFailed \/ example_disconnect \/ esp_restart \/ boots
  <2>1. pc'[1] \in {"aborted", "shutdown", "disconnected", "halted", "boot"} /\ UNCHANGED build
        BY <1>9 DEF connectFailed, Abort, example_disconnect, esp_restart,
           boots, GoesThrough
  <2> QED
      BY <2>1, WaitedIdle DEF Connecting
<1>10. CASE \E i \in Chosen : unregisterShutdownHandler(i) \/ nextShutdownHandler(i)
  <2>1. pc'[1] \in {"shutdown", "disconnected", "halted"} /\ UNCHANGED build
        BY <1>10, ShutdownOrder DEF unregisterShutdownHandler, GoesThrough
  <2> QED
      BY <2>1, WaitedIdle DEF Connecting
<1> QED
    BY <1>1, <1>2, <1>3, <1>4, <1>5, <1>6, <1>7, <1>8, <1>9, <1>10, StepKinds
       DEF Sequence

(* No shutdown handler is registered twice.                                *)
LEMMA UnregisteredStep ==
    ASSUME TypeOK, Placed, Unregistered, Next
    PROVE  Unregistered'
<1> USE BuildFacts, RankFacts
<1> USE DEF TypeOK, Placed, Unregistered, Connecting, Stopping, Goes, Abort,
            Chosen, Disconnects, Names, netVars, pppVars
<1>1. CASE EthStep
      BY <1>1 DEF EthStep, EthMain, example_ethernet_connect, ethernetNoMemory,
         assertNetif, takeEthernet, TakePc, EthWaits, example_ethernet_shutdown,
         eth_stop
<1>2. CASE ThreadStep
      BY <1>2 DEF ThreadStep, ThreadMain, example_thread_connect, threadFails,
         takeAttached, takeDnsServer, example_thread_shutdown
<1>3. CASE PppStep
      BY <1>3 DEF PppStep, PppMain, example_ppp_connect, pppNoTask, assertNetif,
         waitBits, pppStopsTask, pppDestroys
<1>4. CASE WifiStep
      BY <1>4 DEF WifiStep, example_wifi_connect, example_wifi_shutdown,
         WifiUnchanged
<1>5. CASE Checks
      BY <1>5 DEF Checks, checkFails
<1>6. CASE Background
      BY <1>6, BackgroundFacts
<1>7. CASE example_connect
  <2>1. shutdownHandlers \cap Disconnects = {} /\ ~restarting
        BY <1>7 DEF example_connect
  <2>2. pc' = <<"connected", "none">> \/ \E k \in Chosen : pc' = <<"connect", k>>
        BY <1>7 DEF example_connect, GoesThrough
  <2> QED
      BY <1>7, <2>1, <2>2 DEF example_connect
<1>8. CASE \E i \in Chosen : registerShutdownHandler(i)
  <2>1. PICK i \in Chosen : registerShutdownHandler(i)
        BY <1>8
  <2>2. pc = <<"ok", i>> /\ UNCHANGED <<build, netifs, restarting>>
        BY <2>1 DEF registerShutdownHandler
  <2>3. CASE pc'[1] = "aborted" /\ UNCHANGED shutdownHandlers
        BY <2>2, <2>3
  <2>4. CASE /\ shutdownHandlers' = shutdownHandlers \cup {i}
             /\ \/ pc' = <<"connected", "none">>
                \/ \E k \in Later(i) : pc' = <<"connect", k>>
    <3>1. \A j \in Disconnects, k \in Later(i) :
              Rank[k] <= Rank[j] => j \notin shutdownHandlers \cup {i}
          BY <2>2 DEF Later
    <3>2. "ppp" \in shutdownHandlers' /\ ~restarting => "ppp" \in netifs
          BY <2>2, <2>4
    <3> QED
        BY <2>2, <2>4, <3>1, <3>2
  <2> QED
      BY <2>1, <2>3, <2>4 DEF registerShutdownHandler, GoesThrough
<1>9. CASE \E i \in Chosen : unregisterShutdownHandler(i)
  <2>1. PICK i \in Chosen : unregisterShutdownHandler(i)
        BY <1>9
  <2>2. /\ pc = <<"down", i>> /\ ~restarting /\ UNCHANGED <<build, netifs, restarting>>
        /\ shutdownHandlers' = shutdownHandlers \ {i}
        BY <2>1 DEF unregisterShutdownHandler
  <2>3. \A j \in Disconnects \ Later(i) : j \notin shutdownHandlers'
    <3>1. \A j \in Disconnects \ Later(i) : j = i \/ Rank[j] < Rank[i]
          BY DEF Later
    <3> QED
        BY <2>2, <3>1
  <2>4. CASE Disconnects \cap Later(i) = {} /\ pc' = <<"disconnected", "none">>
        BY <2>2, <2>3, <2>4
  <2>5. CASE \E k \in Disconnects \cap Later(i) :
                /\ pc' = <<"shutdown", k>>
                /\ \A j \in Disconnects \cap Later(i) : Rank[k] <= Rank[j]
    <3>1. PICK k \in Disconnects \cap Later(i) :
                /\ pc' = <<"shutdown", k>>
                /\ \A j \in Disconnects \cap Later(i) : Rank[k] <= Rank[j]
          BY <2>5
    <3>2. \A j \in Disconnects : Rank[j] < Rank[k] => j \notin Later(i)
          BY <3>1
    <3> QED
        BY <2>2, <2>3, <3>1, <3>2
  <2> QED
      BY <2>1, <2>4, <2>5 DEF unregisterShutdownHandler, GoesThrough
<1>10. CASE example_disconnect
  <2>1. UNCHANGED <<build, netifs, shutdownHandlers, restarting>>
        BY <1>10 DEF example_disconnect
  <2>2. CASE Disconnects = {} /\ pc' = <<"disconnected", "none">>
        BY <2>1, <2>2
  <2>3. CASE \E k \in Disconnects : /\ pc' = <<"shutdown", k>>
                                    /\ \A j \in Disconnects : Rank[k] <= Rank[j]
        BY <2>1, <2>3
  <2> QED
      BY <1>10, <2>2, <2>3 DEF example_disconnect, GoesThrough
<1>11. CASE esp_restart \/ connectFailed \/ boots
      BY <1>11 DEF esp_restart, connectFailed, boots
<1>12. CASE \E i \in Chosen : nextShutdownHandler(i)
  <2>1. /\ restarting /\ UNCHANGED <<build, netifs, shutdownHandlers, restarting>>
        /\ pc'[1] \in {"shutdown", "halted"}
        BY <1>12, ShutdownOrder
  <2> QED
      BY <2>1
<1> QED
    BY <1>1, <1>2, <1>3, <1>4, <1>5, <1>6, <1>7, <1>8, <1>9, <1>10, <1>11,
       <1>12, StepKinds DEF Sequence

(* What xSemaphoreGive does: the chip may abort, or a semaphore is given.  *)
LEMMA GiveFacts ==
    ASSUME NEW i, NEW s, Give(i, s)
    PROVE  /\ handlers' = handlers
           /\ \/ pc'[1] = "aborted"
              \/ pc' = pc /\ \A t \in SemNames : sems'[t] = sems[t] \/ sems'[t] = "given"
<1>1. CASE sems' = With({s}, "given") /\ UNCHANGED <<pc, handlers>>
      BY <1>1 DEF With
<1>2. CASE UNCHANGED <<pc, sems, handlers>>
      BY <1>2
<1>3. CASE Abort(i) /\ UNCHANGED handlers
      BY <1>3 DEF Abort
<1> QED
    BY <1>1, <1>2, <1>3 DEF Give

(* Semaphores outlive their handlers.                                      *)
LEMMA HandledStep ==
    ASSUME TypeOK, SignalsTell, Handled, Next
    PROVE  Handled'
<1> USE DEF TypeOK, Handled, HandlersMeetSemaphores, Doomed, Goes, Abort, With,
            SemNames, EthSems, EthSem, ThreadSems, Chosen, Families, netVars,
            pppVars
<1>1. CASE EthStep
      BY <1>1 DEF EthStep, EthMain, example_ethernet_connect, ethernetNoMemory,
         assertNetif, takeEthernet, TakePc, EthWaits, example_ethernet_shutdown,
         eth_stop, Take
<1>2. CASE ThreadStep
      BY <1>2 DEF ThreadStep, ThreadMain, example_thread_connect, threadFails,
         takeAttached, takeDnsServer, example_thread_shutdown, Take
<1>3. CASE PppStep
      BY <1>3 DEF PppStep, PppMain, example_ppp_connect, pppNoTask, assertNetif,
         waitBits, pppStopsTask, pppDestroys
<1>4. CASE WifiStep
      BY <1>4 DEF WifiStep, example_wifi_connect, example_wifi_shutdown,
         WifiUnchanged
<1>5. CASE Checks
      BY <1>5 DEF Checks, checkFails
<1>6. CASE EthEvents /\ UNCHANGED <<otTask, pppVars, wifi, shutdownHandlers, restarting>>
  <2>1. UNCHANGED <<build, netifs, handlers, otTask, group>>
        BY <1>6 DEF EthEvents, eth_on_got, on_eth_event, Give
  <2>2. \/ pc'[1] = "aborted"
        \/ pc' = pc /\ \A t \in SemNames : sems'[t] = sems[t] \/ sems'[t] = "given"
    <3>1. CASE on_eth_event
          BY <3>1 DEF on_eth_event
    <3>2. ASSUME NEW f \in {"ip4", "ip6"}, eth_on_got(f)
          PROVE  \/ pc'[1] = "aborted"
                 \/ pc' = pc /\ \A t \in SemNames : sems'[t] = sems[t] \/ sems'[t] = "given"
          BY <3>2, GiveFacts DEF eth_on_got
    <3> QED
        BY <1>6, <3>1, <3>2 DEF EthEvents
  <2> QED
      BY <2>1, <2>2
<1>7. CASE ThreadEvents /\ UNCHANGED <<pppVars, wifi, shutdownHandlers, restarting>>
  <2>1. UNCHANGED <<build, netifs, handlers, otTask, group>>
        BY <1>7 DEF ThreadEvents, thread_event_handler, Give
  <2>2. \/ pc'[1] = "aborted"
        \/ pc' = pc /\ \A t \in SemNames : sems'[t] = sems[t] \/ sems'[t] = "given"
    <3>1. PICK s \in ThreadSems : thread_event_handler(s)
          BY <1>7 DEF ThreadEvents
    <3>2. Give("thread", s)
          BY <3>1 DEF thread_event_handler
    <3> QED
        BY <3>2, GiveFacts
  <2> QED
      BY <2>1, <2>2
<1>8. CASE PppEvents /\ UNCHANGED <<otTask, wifi, shutdownHandlers, restarting>>
      BY <1>8 DEF PppEvents, pppGotAddress, pppLost, actionConnected, SetBit
<1>9. CASE wifiGotAddress \/ wifiAborts
      BY <1>9 DEF wifiGotAddress, wifiAborts, WifiUnchanged
<1>10. CASE Tasks
      BY <1>10 DEF Tasks, otTaskStarts, otTaskEnds, PppTask, pppTaskReceives,
         pppTaskFeeds
<1>11. CASE boots
      BY <1>11 DEF boots
<1>12. CASE Sequence /\ ~boots
  <2>1. UNCHANGED <<build, handlers, netifs, sems, otTask, group>>
        BY <1>12, ShutdownOrder DEF Sequence, example_connect,
           registerShutdownHandler, connectFailed, example_disconnect,
           unregisterShutdownHandler, esp_restart
  <2>2. /\ pc[1] = "error" => pc'[1] = "aborted"
        /\ pc[1] \notin {"aborted", "stop"}
        /\ pc'[1] # "delay"
        BY <1>12, ShutdownOrder DEF Sequence, example_connect,
           registerShutdownHandler, connectFailed, example_disconnect,
           unregisterShutdownHandler, esp_restart, GoesThrough
  <2> QED
      BY <2>1, <2>2
<1> QED
    BY <1>1, <1>2, <1>3, <1>4, <1>5, <1>6, <1>7, <1>8, <1>9, <1>10, <1>11,
       <1>12, StepKinds DEF Background, EventLoop

(* The retries over PPP.                                                   *)
LEMMA RetriedStep ==
    ASSUME TypeOK, Placed, Retried, Next
    PROVE  Retried'
<1> USE PppMaxRetryAssumption
<1> USE DEF TypeOK, Retried, Goes, Abort, netVars, pppVars
<1>1. CASE EthStep
      BY <1>1 DEF EthStep, EthMain, example_ethernet_connect, ethernetNoMemory,
         assertNetif, takeEthernet, example_ethernet_shutdown, eth_stop
<1>2. CASE ThreadStep
      BY <1>2 DEF ThreadStep, ThreadMain, example_thread_connect, threadFails,
         takeAttached, takeDnsServer, example_thread_shutdown
<1>3. CASE PppStep
      BY <1>3 DEF PppStep, PppMain, example_ppp_connect, pppNoTask, assertNetif,
         waitBits, pppStopsTask, pppDestroys, Placed, Connecting, Stopping,
         Disconnects
<1>4. CASE WifiStep
      BY <1>4 DEF WifiStep, example_wifi_connect, example_wifi_shutdown,
         WifiUnchanged
<1>5. CASE Checks
      BY <1>5 DEF Checks, checkFails
<1>6. CASE EthEvents /\ UNCHANGED <<otTask, pppVars, wifi, shutdownHandlers, restarting>>
      BY <1>6 DEF EthEvents, eth_on_got, on_eth_event
<1>7. CASE ThreadEvents /\ UNCHANGED <<pppVars, wifi, shutdownHandlers, restarting>>
      BY <1>7 DEF ThreadEvents, thread_event_handler
<1>8. CASE PppEvents /\ UNCHANGED <<otTask, wifi, shutdownHandlers, restarting>>
      BY <1>8 DEF PppEvents, pppGotAddress, pppLost, actionConnected
<1>9. CASE wifiGotAddress \/ wifiAborts
      BY <1>9 DEF wifiGotAddress, wifiAborts, WifiUnchanged
<1>10. CASE Tasks
      BY <1>10 DEF Tasks, otTaskStarts, otTaskEnds, PppTask, pppTaskReceives,
         pppTaskFeeds
<1>11. CASE boots
      BY <1>11 DEF boots
<1>12. CASE Sequence /\ ~boots
  <2>1. UNCHANGED <<netifs, retryNum, link>> /\ (restarting => restarting')
        BY <1>12, ShutdownOrder DEF Sequence, example_connect,
           registerShutdownHandler, connectFailed, example_disconnect,
           unregisterShutdownHandler, esp_restart
  <2> QED
      BY <2>1
<1> QED
    BY <1>1, <1>2, <1>3, <1>4, <1>5, <1>6, <1>7, <1>8, <1>9, <1>10, <1>11,
       <1>12, StepKinds DEF Background, EventLoop

(* What runs is registered, until a restart has come by it.                *)
LEMMA RunningStep ==
    ASSUME TypeOK, Placed, SignalsTell, Handled, Running, Next
    PROVE  Running'
<1> USE BuildFacts, RankFacts
<1> USE DEF TypeOK, Placed, Running, Runs, Doomed, Connecting, Stopping, Goes,
            Abort, Chosen, Disconnects, Families, Names, netVars, pppVars
<1>1. CASE EthStep
      BY <1>1 DEF EthStep, EthMain, example_ethernet_connect, ethernetNoMemory,
         assertNetif, takeEthernet, TakePc, EthWaits, example_ethernet_shutdown,
         eth_stop, SignalsTell, Handled, HandlersMeetSemaphores, EthSems, EthSem
<1>2. CASE ThreadStep
      BY <1>2 DEF ThreadStep, ThreadMain, example_thread_connect, threadFails,
         takeAttached, takeDnsServer, example_thread_shutdown
<1>3. CASE PppStep
      BY <1>3 DEF PppStep, PppMain, example_ppp_connect, pppNoTask, assertNetif,
         waitBits, pppStopsTask, pppDestroys
<1>4. CASE WifiStep
      BY <1>4 DEF WifiStep, example_wifi_connect, example_wifi_shutdown,
         WifiUnchanged, Wifi!Connect, Wifi!Succeed, Wifi!Fail, Wifi!Shutdown
<1>5. CASE Checks
      BY <1>5 DEF Checks, checkFails
<1>6. CASE Background
      BY <1>6, BackgroundFacts
<1>7. CASE boots
      BY <1>7 DEF boots
<1>8. CASE example_connect \/ example_disconnect \/ connectFailed
      BY <1>8 DEF example_connect, example_disconnect, connectFailed,
         GoesThrough
<1>9. CASE \E i \in Chosen : registerShutdownHandler(i)
      BY <1>9 DEF registerShutdownHandler, GoesThrough, Later
<1>10. CASE \E i \in Chosen : unregisterShutdownHandler(i)
      BY <1>10 DEF unregisterShutdownHandler, GoesThrough, Later
<1>11. CASE esp_restart
      BY <1>11 DEF esp_restart, Latest
<1>12. CASE \E i \in Chosen : nextShutdownHandler(i)
  <2>1. PICK i \in Chosen : nextShutdownHandler(i)
        BY <1>12
  <2> QED
      BY <2>1, ShutdownOrder
<1> QED
    BY <1>1, <1>2, <1>3, <1>4, <1>5, <1>6, <1>7, <1>8, <1>9, <1>10, <1>11,
       <1>12, StepKinds DEF Sequence

-----------------------------------------------------------------------------
(* The invariant holds when the chip starts for the first time.            *)
LEMMA InitIInv == ASSUME Init PROVE IInv
<1> USE DEF Init, NetInit, PppInit
<1>1. TypeOK
  <2>1. pc \in Steps \X (Names \cup {"none"})
        BY DEF Steps
  <2>2. sems \in [SemNames -> {"null", "empty", "given", "deleted"}]
        BY DEF SemNames
  <2>3. stopTask \in BOOLEAN /\ restarting \in BOOLEAN
        BY Zenon
  <2>4. retryNum \in 0..(PppMaxRetry + 1)
        BY PppMaxRetryAssumption
  <2> QED
      BY <2>1, <2>2, <2>3, <2>4 DEF TypeOK
<1>2. Placed /\ Retried /\ Unregistered
      BY DEF Placed, Retried, Unregistered, Connecting, Stopping
<1>3. SignalsTell
      BY DEF SignalsTell, SemNames
<1>4. Waited
      BY DEF Waited, Connecting
<1>5. Handled /\ Running
      BY DEF Handled, HandlersMeetSemaphores, Running, Runs, Names
<1> QED
    BY <1>1, <1>2, <1>3, <1>4, <1>5 DEF IInv

(* A step that changes nothing.                                            *)
LEMMA IdleStep == ASSUME IInv, UNCHANGED vars PROVE IInv'
<1> USE DEF IInv, vars, netVars, pppVars
<1>1. TypeOK'
      BY DEF TypeOK, Chosen, PppBits
<1>2. Placed' /\ Retried'
      BY DEF Placed, Retried, Chosen, Disconnects
<1>3. SignalsTell'
      BY DEF SignalsTell, Families, Chosen
<1>4. Waited'
      BY DEF Waited, Promise, Families, Chosen
<1>5. Unregistered'
      BY DEF Unregistered, Disconnects, Chosen
<1>6. Handled'
      BY DEF Handled, HandlersMeetSemaphores, Doomed, EthSems, Families, Chosen
<1>7. Running'
      BY DEF Running, Runs, Doomed, Families, Chosen
<1> QED
    BY <1>1, <1>2, <1>3, <1>4, <1>5, <1>6, <1>7

(* The eight parts together are inductive.                                 *)
THEOREM Inductive == Spec => []IInv
<1>1. Init => IInv
      BY InitIInv
<1>2. IInv /\ [Next]_vars => IInv'
  <2>1. ASSUME IInv, Next PROVE IInv'
        BY <2>1, TypeStep, PlacedStep, RetriedStep, SignalsStep, WaitedStep,
           UnregisteredStep, HandledStep, RunningStep DEF IInv
  <2> QED
      BY <2>1, IdleStep
<1> QED
    BY <1>1, <1>2, PTL DEF Spec

(* Type correctness of connect.c and the start-ups of the interfaces.      *)
THEOREM TypeCorrect == Spec => []TypeOK
<1>1. IInv => TypeOK
      BY DEF IInv
<1> QED
    BY <1>1, Inductive, PTL

(* example_connect returns ESP_OK only after every chosen interface has    *)
(* what its start-up waits for.                                            *)
THEOREM SuccessMeansReady == Spec => []ConnectedMeansReady
<1>1. IInv => ConnectedMeansReady
      BY DEF IInv, Waited, ConnectedMeansReady
<1> QED
    BY <1>1, Inductive, PTL

(* The event handlers run only while their semaphores, or their event      *)
(* group, exist, but for the three places that the property names.         *)
THEOREM SemaphoresOutlive == Spec => []HandlersMeetSemaphores
<1>1. IInv => HandlersMeetSemaphores
      BY DEF IInv, Handled
<1> QED
    BY <1>1, Inductive, PTL

(* esp_register_shutdown_handler is not called for what is registered,     *)
(* also when example_connect is called again after example_disconnect.     *)
THEOREM RegistersOnce == Spec => []RegisteredOnce
<1>1. ASSUME IInv PROVE RegisteredOnce
  <2>1. ASSUME NEW i \in Chosen \ {"thread"}, pc = <<"ok", i>>
        PROVE  i \notin shutdownHandlers
    <3>1. i \in {"eth", "wifi", "ppp"}
          BY <1>1, BuildFacts DEF IInv, TypeOK, Names
    <3>2. CASE i = "ppp"
          BY <1>1, <2>1, <3>2 DEF IInv, Unregistered
    <3>3. CASE i \in {"eth", "wifi"}
      <4>1. i \in Disconnects /\ Rank[i] \in 1..4
            BY <3>3, RankFacts DEF Disconnects, Names
      <4> QED
          BY <1>1, <2>1, <4>1 DEF IInv, Unregistered, Connecting
    <3> QED
        BY <3>1, <3>2, <3>3
  <2> QED
      BY <2>1 DEF RegisteredOnce
<1> QED
    BY <1>1, Inductive, PTL

(* esp_restart leaves no interface running that its shutdown handler would *)
(* have stopped, whatever was disconnected and connected before it.        *)
THEOREM EndsOrderly == Spec => []OrderlyRestart
<1>1. ASSUME IInv PROVE OrderlyRestart
  <2>1. ASSUME pc[1] = "halted" PROVE \A i \in Names : ~Runs(i)
        BY <1>1, <2>1 DEF IInv, Running, Doomed
  <2> QED
      BY <1>1, <2>1 DEF IInv, TypeOK, OrderlyRestart, Runs, Names
<1> QED
    BY <1>1, Inductive, PTL
=============================================================================
