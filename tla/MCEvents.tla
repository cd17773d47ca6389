-------------------------------- MODULE MCEvents --------------------------------
(***************************************************************************)
(* Events from outside and to the outside: the ONVIF subscription of a     *)
(* camera, and the deliveries of the webhooks.  The parts share no state;  *)
(* a behaviour is one of one part (see MCServer), with the fairness its    *)
(* module states.                                                          *)
(***************************************************************************)
EXTENDS Naturals, FiniteSets

CONSTANTS Endpoints, Events, Secrets, Subscriptions, MAX_QUEUE_DEPTH, MAX_CONCURRENT_DELIVERIES,
          MaxAttempts, Managed, MaxEdits

VARIABLES
    part,
    row, handler, listing, watched, subs, made, timer, cycle, reachable, onvifFaults,
    endpoint, edit, edits, event, svc, started, posts, outcome

Onvif == INSTANCE OnvifEvents WITH Cycles <- {"c1", "c2"}, MaxSubs <- 2, MaxFaults <- 2
Hooks == INSTANCE Webhooks WITH row <- endpoint

ASSUME HooksAssumption ==
    /\ IsFiniteSet(Endpoints)
    /\ MAX_QUEUE_DEPTH \in Nat \ {0} /\ MAX_CONCURRENT_DELIVERIES \in Nat \ {0}
    /\ MaxAttempts \in Nat \ {0}

onvifVars == <<row, handler, listing, watched, subs, made, timer, cycle, reachable, onvifFaults>>
hookVars == <<endpoint, edit, edits, event, svc, started, posts, outcome>>
vars == <<part, onvifVars, hookVars>>

(* A part that is not chosen stays in one of its initial states. *)
Init ==
    /\ part \in {"onvif", "hooks"}
    /\ Onvif!OnvifInit /\ Hooks!Init
    /\ part # "onvif" => row = "none" /\ reachable
    /\ part # "hooks" => \A p \in Endpoints : endpoint[p].state = "present"

Next ==
    /\ UNCHANGED part
    /\ IF part = "onvif" THEN Onvif!OnvifNext ELSE UNCHANGED onvifVars
    /\ IF part = "hooks" THEN Hooks!Next ELSE UNCHANGED hookVars

OnvifFairness ==
    /\ \A c \in {"c1", "c2"} : WF_onvifVars(part = "onvif" /\ Onvif!CycleStep(c))
    /\ WF_onvifVars(part = "onvif" /\ \E c \in {"c1", "c2"} : Onvif!PollOnce(c))

HookFairness ==
    /\ WF_hookVars(part = "hooks" /\ \E j \in svc.inFlight, r \in {"ok", "refused", "failed"} :
                                        Hooks!Answer(j, r))
    /\ WF_hookVars(part = "hooks" /\ Hooks!Finally)
    /\ WF_hookVars(part = "hooks" /\ \E i \in DOMAIN svc.queue : Hooks!BackoffEnds(i))
    /\ WF_hookVars(part = "hooks" /\ Hooks!Timer)

Spec == Init /\ [][Next]_vars /\ OnvifFairness /\ HookFairness

(* What is announced: OnvifEvents. *)
EventsResume == part = "onvif" => Onvif!EventsResume

(* What is delivered: Webhooks. *)
DeliveriesAreKept == Hooks!DeliveryIsAccounted /\ Hooks!QueueIsBounded /\ Hooks!FreshNeverWaits
EverythingSettles == part = "hooks" => Hooks!EverythingSettles
=================================================================================
