------------------------------ MODULE FotaApp -------------------------------
(***************************************************************************)
(* The application of the SDK: Query with what makes it check for a patch. *)
(* On one platform that is the service of the network (sm_event_handler in *)
(* sm_main.c); on the other it is the task of sm_thread.c, which asks the  *)
(* modem for an attach and an active context, waits for its confirmations, *)
(* and checks again and again.                                             *)
(***************************************************************************)
EXTENDS Query

CONSTANTS Platforms,   \* the platforms of the instance
          MaxChecks    \* checks that do not wait until the last one is over

ASSUME AppAssumption == Platforms \subseteq {"mtk", "spreadtrum"} /\ MaxChecks \in Nat

VARIABLES
  platform,  \* chosen once
  waiting,   \* sm_wait_network_active_mag
  netTimer,  \* SM_NETWORK_CHECK_TIMER
  periodic,  \* SM_AUTO_CHECK_UPDATA
  checks,
  (* the modem *)
  ppp,       \* "off", "attached", "active"
  jobs,      \* what it has been asked for
  confirmed  \* confirmations still to be dispatched: <<kind, success>>

net  == <<waiting, netTimer, periodic, ppp, jobs, confirmed>>
vars == <<qvars, platform, checks, net>>

Init ==
  /\ QueryInit
  /\ platform \in Platforms /\ checks = 0
  /\ waiting = FALSE /\ netTimer = FALSE /\ periodic = FALSE
  /\ ppp = "off" /\ jobs = {} /\ confirmed = {}

NoCheck  == UNCHANGED qvars
NetFault == Fault /\ UNCHANGED ours

-----------------------------------------------------------------------------
(* sm_event_handler                                                          *)

\* The service is full again, at any moment.
ServiceFull ==
  /\ platform = "mtk" /\ checks < MaxChecks /\ checks' = checks + 1
  /\ AutoCheck
  /\ UNCHANGED <<platform, net>>

\* A time that is long against every timer, and against what a server keeps a
\* connection open for, has passed.
Settled ==
  /\ Idle /\ events = {} /\ ~retryTimer /\ ~restart
  /\ \A n \in Nodes : timer[n] = Nobody
  /\ \A s \in Sockets : conn[s] # "served"

ServiceFullLater ==
  /\ platform = "mtk" /\ Settled
  /\ AutoCheck
  /\ UNCHANGED <<platform, checks, net>>

-----------------------------------------------------------------------------
(* sm_thread.c                                                               *)

\* APP_MN_PS_POWER_ON_CNF: the first check in a minute.
PowerOn ==
  /\ platform = "spreadtrum" /\ ~periodic
  /\ periodic' = TRUE
  /\ NoCheck /\ UNCHANGED <<platform, checks, waiting, netTimer, ppp, jobs, confirmed>>

\* sm_system_ppp_attach, sm_system_ppp_active: the modem is asked, and the
\* answer awaited; or it refuses.
Ask(job) ==
  \/ jobs' = jobs \cup {job} /\ waiting' = TRUE /\ netTimer' = TRUE /\ NoCheck
  \/ NetFault /\ UNCHANGED <<jobs, waiting, netTimer>>

\* sm_auto_check_updata, every 12 hours: all that had been asked of the modem
\* before has been confirmed by then.
AutoCheckUpdata ==
  /\ periodic /\ Settled
  /\ jobs = {} /\ confirmed = {} /\ ~netTimer
  /\ CASE ppp = "active"   -> AutoCheck /\ UNCHANGED <<jobs, waiting, netTimer>>
       [] ppp = "attached" -> Ask("activate")
       [] OTHER            -> Ask("attach")
  /\ UNCHANGED <<platform, checks, periodic, ppp, confirmed>>

Heard == waiting' = FALSE /\ netTimer' = FALSE

\* APP_MN_ACTIVATE_PDP_CONTEXT_CNF.  Its case falls through into that of the
\* attach, which finds that nothing is awaited.
Activated ==
  /\ Idle
  /\ \E success \in BOOLEAN :
       /\ <<"activate", success>> \in confirmed
       /\ confirmed' = confirmed \ {<<"activate", success>>}
       /\ \/ waiting /\ Heard /\ success  /\ AutoCheck
          \/ waiting /\ Heard /\ ~success /\ NoCheck
          \/ ~waiting /\ UNCHANGED <<waiting, netTimer>> /\ NoCheck
  /\ UNCHANGED <<platform, checks, periodic, ppp, jobs>>

\* APP_MN_GPRS_ATTACH_RESULT: the context is asked for, with 30 s to come.
Attached ==
  /\ Idle
  /\ \E success \in BOOLEAN :
       /\ <<"attach", success>> \in confirmed
       /\ confirmed' = confirmed \ {<<"attach", success>>}
       /\ \/ waiting /\ success /\ jobs' = jobs \cup {"activate"} /\ UNCHANGED <<waiting, netTimer>> /\ NoCheck
          \/ waiting /\ success /\ Heard /\ UNCHANGED jobs /\ NetFault
          \/ waiting /\ ~success /\ Heard /\ UNCHANGED jobs /\ NoCheck
          \/ ~waiting /\ UNCHANGED <<waiting, netTimer, jobs>> /\ NoCheck
  /\ UNCHANGED <<platform, checks, periodic, ppp>>

\* sm_active_pdp_timeout: the modem is too slow.  What was asked for is given up;
\* it may be confirmed all the same.
ActivePdpTimeout ==
  /\ Idle /\ netTimer
  /\ waiting' = FALSE /\ netTimer' = FALSE
  /\ ppp' = "off"
  /\ NetFault /\ UNCHANGED <<platform, checks, periodic, jobs, confirmed>>

\* The modem does what it was asked for, or fails.
Modem ==
  /\ \E job \in jobs :
       /\ jobs' = jobs \ {job}
       /\ \/ /\ confirmed' = confirmed \cup {<<job, TRUE>>} /\ NoCheck
             /\ ppp' = IF job = "attach" THEN "attached" ELSE "active"
          \/ /\ confirmed' = confirmed \cup {<<job, FALSE>>} /\ NetFault
             /\ UNCHANGED ppp
  /\ UNCHANGED <<platform, checks, waiting, netTimer, periodic>>

\* The network takes the context away.
Detached ==
  /\ ppp # "off" /\ ppp' = "off"
  /\ NetFault
  /\ UNCHANGED <<platform, checks, waiting, netTimer, periodic, jobs, confirmed>>

rest   == <<platform, checks, net>>
Within == QueryNext /\ UNCHANGED rest

Next == \/ ServiceFull \/ ServiceFullLater
        \/ PowerOn \/ AutoCheckUpdata \/ Activated \/ Attached \/ ActivePdpTimeout \/ Modem \/ Detached
        \/ Within

Spec == Init /\ [][Next]_vars

\* What happens on the platform with a task.
Phone == PowerOn \/ AutoCheckUpdata \/ Activated \/ Attached \/ ActivePdpTimeout \/ Modem

(***************************************************************************)
(* Timers go off, the task dispatches, the modem confirms, and the network *)
(* moves: what connects does so, requests are answered, answers arrive, and*)
(* a connection that is idle is closed some day.  Failures are not fair,   *)
(* nor is the service of the network: ServiceFull and ServiceFullLater may *)
(* never happen (the timers of sm_main.c that checked again are commented  *)
(* out).                                                                   *)
(***************************************************************************)
Fairness ==
  /\ WF_vars(Phone)
  /\ WF_vars((TaskStep \/ Dispatch) /\ UNCHANGED rest)
  /\ WF_vars(Timers /\ UNCHANGED rest)
  /\ WF_vars((Moves \/ Ends) /\ UNCHANGED rest) /\ WF_vars(Delivers /\ UNCHANGED rest)

FairSpec == Spec /\ Fairness

-----------------------------------------------------------------------------

(***************************************************************************)
(* SOC_NodeList holds the two nodes exactly while they have a socket, and  *)
(* can be walked both ways: an event finds its node, and never another one;*)
(* and a timeout closes the connection it was started for, never a later   *)
(* one that has been given the same number.                                *)
(***************************************************************************)
Open == {n \in Nodes : list.soc_id[n] # Invalid}

ListMatches ==
  /\ Holds(list, Open)
  /\ \A n \in Open : GetNode(list, list.soc_id[n]) = n
  /\ \A n \in Nodes : timer[n] \in {Nobody, list.soc_id[n]}

(***************************************************************************)
(* Until the connection is made there is a request in the buffer, and a    *)
(* timer, whatever events of earlier sockets arrive meanwhile.             *)
(***************************************************************************)
ConnectingHasRequest ==
  \A s \in Sockets :
     s = list.soc_id["query"] /\ conn[s] = "connecting" =>
        /\ buffer \in {"query", "report"}
        /\ timer["query"] = s \/ todo # <<>>

(***************************************************************************)
(* Query and report on one buffer and one socket come to rest: whoever asks*)
(* is answered, and no connection of p_sm_soc stays for ever, although a   *)
(* report may replace the query in the buffer, a request may be lost or    *)
(* sent twice, and the timer is stopped when an answer is read.            *)
(* A query that went wrong is only mended by a later check.  With the task *)
(* of sm_thread.c a timer of 12 hours makes it.  In sm_event_handler it    *)
(* takes a service that is lost and found again, which nothing in the code *)
(* brings about: there the promise is for a service that does return.      *)
(* And it is for downloads that end, which is promised by DownloadEnds of  *)
(* Download: each failure of a download is a report in the same buffer.    *)
(***************************************************************************)
ServiceReturns == WF_vars(ServiceFullLater)
DownloadsEnd   == []<>~busy

Connected   == list.soc_id["query"] # Invalid
ComesToRest ==
  ServiceReturns /\ DownloadsEnd => (asked \/ Connected ~> ~asked /\ ~Connected)
=============================================================================
