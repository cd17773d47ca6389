------------------------------- MODULE EventFeed -------------------------------
(***************************************************************************)
(* From the event bus to the console: EventBus.emitEvent, the websocket    *)
(* feed of the server (events/websocket-feed.service.ts) and the client of *)
(* the browser (client/src/utils/events-ws-client.ts, used by App.tsx).    *)
(* A restricted user follows the events of one camera, which an            *)
(* administrator grants and takes away, over a network that fails without  *)
(* telling either end.                                                     *)
(***************************************************************************)
EXTENDS Naturals, FiniteSets

CONSTANTS
    Sockets,        \* numbers of the connections that exist at a time, from 1
    MaxBuffer,      \* maxBufferSize, in events
    MaxFaults,      \* bound: network failures and failing lookups
    MaxGrants       \* bound: changes of the grant

VARIABLES
    granted,        \* whether the user may see the camera
    client,         \* EventsWsClient: signedIn, ws, reconnectTimer, isConnected
    peer,           \* per socket, the browser's end: "none", "connecting", "open", "closed"
    feed,           \* per socket, the server's end
    loads,          \* per socket, answers of the access resolver under way
    network,
    faults, grants

feedVars == <<granted, client, peer, feed, loads, network, faults, grants>>

NoSocket == 0
Answers == {"yes", "no", "error"}
Absent == [at |-> "none", alive |-> FALSE, visible |-> FALSE, buffered |-> 0]

FeedInit ==
    /\ granted = TRUE
    /\ client = [signedIn |-> FALSE, ws |-> NoSocket, timer |-> FALSE, connected |-> FALSE]
    /\ peer = [s \in Sockets |-> "none"]
    /\ feed = [s \in Sockets |-> Absent]
    /\ loads = [s \in Sockets |-> {}]
    /\ network = "up" /\ faults = 0 /\ grants = 0

Free(s) == peer[s] \in {"none", "closed"} /\ feed[s].at = "none"

-------------------------------------------------------------------------------
(* The browser *)

Env == <<granted, network, faults, grants>>

(* connect: nothing while a socket is open or connecting. *)
Connect(c) ==
    IF c.ws # NoSocket /\ peer[c.ws] \in {"connecting", "open"}
    THEN client' = [c EXCEPT !.timer = FALSE] /\ UNCHANGED peer
    ELSE \E s \in Sockets :
           /\ Free(s) /\ \A r \in Sockets : r < s => ~Free(r)
           /\ peer' = [peer EXCEPT ![s] = "connecting"]
           /\ client' = [c EXCEPT !.timer = FALSE, !.ws = s]

SignIn ==
    /\ ~client.signedIn
    /\ Connect([client EXCEPT !.signedIn = TRUE])
    /\ UNCHANGED <<feed, loads, Env>>

(* disconnect *)
SignOut ==
    /\ client.signedIn
    /\ peer' = IF client.ws = NoSocket THEN peer ELSE [peer EXCEPT ![client.ws] = "closed"]
    /\ client' = [signedIn |-> FALSE, ws |-> NoSocket, timer |-> FALSE, connected |-> FALSE]
    /\ UNCHANGED <<feed, loads, Env>>

OnOpen(s) ==
    /\ network = "up" /\ peer[s] = "connecting" /\ feed[s].at = "open"
    /\ peer' = [peer EXCEPT ![s] = "open"]
    /\ client' = [client EXCEPT !.connected = TRUE]
    /\ UNCHANGED <<feed, loads, Env>>

(* The socket closes: it was refused, the server has closed it, or the browser *)
(* notices a network that is down.                                             *)
Lost(s) ==
    \/ network = "down"
    \/ peer[s] = "open" /\ feed[s].at # "open"
    \/ peer[s] = "connecting" /\ feed[s].at = "refused"

ScheduleReconnect == [client EXCEPT !.connected = FALSE, !.timer = TRUE]

OnClose(s) ==
    /\ peer[s] \in {"connecting", "open"} /\ Lost(s)
    /\ peer' = [peer EXCEPT ![s] = "closed"]
    /\ feed' = IF feed[s].at = "refused" THEN [feed EXCEPT ![s] = Absent] ELSE feed
    /\ client' = ScheduleReconnect
    /\ UNCHANGED <<loads, Env>>

ReconnectTimer ==
    /\ client.timer
    /\ Connect(client)
    /\ UNCHANGED <<feed, loads, Env>>

-------------------------------------------------------------------------------
(* The server *)

Sees(answer) == answer = "yes"
AccessNow == IF granted THEN "yes" ELSE "no"

Refused == [Absent EXCEPT !.at = "refused"]
Terminated(s) == IF peer[s] = "connecting" THEN Refused ELSE Absent

(* An upgrade whose token is not accepted is refused; another one reads        *)
(* what the user may see, and completes some time after.                       *)
Upgrade(s) ==
    /\ network = "up" /\ peer[s] = "connecting" /\ feed[s].at = "none"
    /\ \E answer \in {AccessNow, "error", "refused"} :
         /\ answer # AccessNow => faults < MaxFaults
         /\ faults' = IF answer # AccessNow THEN faults + 1 ELSE faults
         /\ feed' = [feed EXCEPT ![s] =
                       IF answer = "refused" THEN Refused
                       ELSE [Absent EXCEPT !.at = "upgrading", !.visible = Sees(answer)]]
    /\ UNCHANGED <<granted, client, peer, loads, network, grants>>

HandleUpgrade(s) ==
    /\ feed[s].at = "upgrading"
    /\ feed' = [feed EXCEPT ![s] =
                  IF peer[s] = "connecting" THEN [@ EXCEPT !.at = "open", !.alive = TRUE] ELSE Absent]
    /\ UNCHANGED <<client, peer, loads, Env>>

(* canSee answers from what is known; past ACCESS_REFRESH_MS it also asks.     *)
AfterCanSee(s) ==
    LET f == feed[s] IN
    CASE f.at # "open" \/ ~f.visible -> f
      [] f.buffered > MaxBuffer -> Terminated(s)
      [] OTHER -> [f EXCEPT !.buffered = @ + 1]

(* emitEvent ends in one synchronous broadcast, persisted or not; the refresh  *)
(* of some sockets is due.  A browser that can be reached and still is too     *)
(* slow counts as a fault.                                                     *)
TooSlow(s) ==
    network = "up" /\ feed[s].at = "open" /\ feed[s].visible /\ feed[s].buffered > MaxBuffer

Broadcast(due) ==
    /\ (\E s \in Sockets : TooSlow(s)) => faults < MaxFaults
    /\ faults' = IF \E s \in Sockets : TooSlow(s) THEN faults + 1 ELSE faults
    /\ feed' = [s \in Sockets |-> AfterCanSee(s)]
    /\ loads' = [s \in Sockets |->
                   CASE feed'[s].at # "open" -> {}
                     [] s \in due -> loads[s] \cup {"asked"}
                     [] OTHER -> loads[s]]
    /\ UNCHANGED <<granted, client, peer, network, grants>>

ResolverReads(s) ==
    /\ "asked" \in loads[s]
    /\ \E answer \in {AccessNow, "error"} :
         /\ answer = "error" => faults < MaxFaults
         /\ faults' = IF answer = "error" THEN faults + 1 ELSE faults
         /\ loads' = [loads EXCEPT ![s] = (@ \ {"asked"}) \cup {answer}]
    /\ UNCHANGED <<granted, client, peer, feed, network, grants>>

(* Answers may overtake each other; an error leaves what was known.  Those for a *)
(* socket that is gone change nothing: loads drops them.                         *)
ResolverAnswers(s) ==
    /\ \E answer \in loads[s] \cap Answers :
         /\ loads' = [loads EXCEPT ![s] = @ \ {answer}]
         /\ feed' = IF feed[s].at = "open" /\ answer # "error"
                    THEN [feed EXCEPT ![s].visible = Sees(answer)] ELSE feed
    /\ UNCHANGED <<client, peer, Env>>

Deliver(s) ==
    /\ network = "up" /\ feed[s].at = "open" /\ feed[s].buffered > 0 /\ peer[s] = "open"
    /\ feed' = [feed EXCEPT ![s].buffered = @ - 1]
    /\ UNCHANGED <<client, peer, loads, Env>>

(* The interval is long enough for the pong of whoever can be reached. *)
PongIsUnderWay(s) ==
    feed[s].at = "open" /\ ~feed[s].alive /\ network = "up" /\ peer[s] \in {"connecting", "open"}

(* Mutant: a socket that did not answer the last ping is pinged again. *)
CheckHeartbeatsKindly ==
    /\ \E s \in Sockets : feed[s].at = "open"
    /\ \A s \in Sockets : ~PongIsUnderWay(s)
    /\ feed' = [s \in Sockets |->
                  IF feed[s].at = "open" THEN [feed[s] EXCEPT !.alive = FALSE] ELSE feed[s]]
    /\ UNCHANGED <<client, peer, loads, Env>>

CheckHeartbeats ==
    /\ \E s \in Sockets : feed[s].at = "open"
    /\ \A s \in Sockets : ~PongIsUnderWay(s)
    /\ feed' = [s \in Sockets |->
                  CASE feed[s].at # "open" -> feed[s]
                    [] ~feed[s].alive -> Terminated(s)
                    [] OTHER -> [feed[s] EXCEPT !.alive = FALSE]]
    /\ loads' = [s \in Sockets |-> IF feed'[s].at = "open" THEN loads[s] ELSE {}]
    /\ UNCHANGED <<client, peer, Env>>

Pong(s) ==
    /\ PongIsUnderWay(s) /\ peer[s] = "open"
    /\ feed' = [feed EXCEPT ![s].alive = TRUE]
    /\ UNCHANGED <<client, peer, loads, Env>>

(* The close of the browser reaches the server. *)
PeerClosed(s) ==
    /\ network = "up" /\ peer[s] = "closed" /\ feed[s].at = "open"
    /\ feed' = [feed EXCEPT ![s] = Absent] /\ loads' = [loads EXCEPT ![s] = {}]
    /\ UNCHANGED <<client, peer, Env>>

-------------------------------------------------------------------------------
(* Surroundings *)

GrantChanges ==
    /\ grants < MaxGrants
    /\ granted' = ~granted /\ grants' = grants + 1
    /\ UNCHANGED <<client, peer, feed, loads, network, faults>>

NetworkFails ==
    /\ network = "up" /\ faults < MaxFaults
    /\ network' = "down" /\ faults' = faults + 1
    /\ UNCHANGED <<granted, client, peer, feed, loads, grants>>

NetworkReturns ==
    /\ network = "down" /\ network' = "up"
    /\ UNCHANGED <<granted, client, peer, feed, loads, faults, grants>>

BrowserStep ==
    ReconnectTimer \/ \E s \in Sockets : OnOpen(s) \/ OnClose(s)
ServerStep(s) ==
    \/ Upgrade(s) \/ HandleUpgrade(s) \/ ResolverReads(s)
    \/ ResolverAnswers(s) \/ Deliver(s) \/ Pong(s) \/ PeerClosed(s)

FeedNext ==
    \/ SignIn \/ SignOut \/ BrowserStep
    \/ \E s \in Sockets : ServerStep(s)
    \/ \E due \in SUBSET {s \in Sockets : feed[s].at = "open"} : Broadcast(due)
    \/ CheckHeartbeats
    \/ GrantChanges \/ NetworkFails \/ NetworkReturns

(* Timers fire, calls answer, networks come back and events keep coming. *)
FeedFairness ==
    /\ WF_feedVars(ReconnectTimer) /\ WF_feedVars(CheckHeartbeats) /\ SF_feedVars(Broadcast(Sockets))
    /\ WF_feedVars(NetworkReturns)
    /\ \A s \in Sockets :
         /\ WF_feedVars(OnOpen(s) \/ OnClose(s)) /\ WF_feedVars(Upgrade(s) \/ HandleUpgrade(s))
         /\ WF_feedVars(ResolverReads(s))
         /\ WF_feedVars(ResolverAnswers(s)) /\ WF_feedVars(Deliver(s)) /\ WF_feedVars(Pong(s))

FeedSpec == FeedInit /\ [][FeedNext]_feedVars /\ FeedFairness

-------------------------------------------------------------------------------
(* Properties *)

Reached(s) == client.ws = s /\ peer[s] = "open" /\ feed[s].at = "open"

(***************************************************************************)
(* The console knows when it is cut off: while it shows the feed as        *)
(* connected its socket is open, and one that waits for nothing has a      *)
(* timer that will bring it back.                                          *)
(***************************************************************************)
ClientIsLive ==
    /\ client.connected => client.ws # NoSocket /\ peer[client.ws] = "open"
    /\ client.signedIn => client.timer \/ peer[client.ws] \in {"connecting", "open"}

(***************************************************************************)
(* A signed-in console gets back to the feed after every failure, also     *)
(* when it was dropped as too slow; and on a connection that lasts, what   *)
(* the feed lets the user see becomes what the user may see, while lookups *)
(* fail, answers overtake each other and grants change.  A socket whose    *)
(* browser is gone does not stay open for ever: heartbeats find it.        *)
(***************************************************************************)
FeedConverges ==
    /\ \A s \in Sockets : []<>(feed[s].at # "open" \/ peer[s] # "closed")
    /\ <>[](client.signedIn) => []<>(\E s \in Sockets : Reached(s))
    /\ \A s \in Sockets : <>[]Reached(s) => <>[](feed[s].visible = granted)

===============================================================================
