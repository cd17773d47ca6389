---------------------------- MODULE OnboardingWizard ----------------------------
(***************************************************************************)
(* The wizard that onboards a camera                                       *)
(* (client/src/components/CameraOnboardingWizardModal.tsx) and the routes  *)
(* behind it (cameras/camera.service.ts).  The modal is never unmounted:   *)
(* it is closed and opened again, its state is reset when it opens, and an *)
(* answer writes into whatever the modal shows by then.                    *)
(*                                                                         *)
(* A device stands for its address, its profiles and their streams; the    *)
(* name, the site and the check of port 554 guard nothing.                 *)
(***************************************************************************)
EXTENDS Naturals, Sequences, FiniteSets

CONSTANTS Devices,
          Slots,        \* bound: requests in flight
          MaxOpens,     \* bound: times the wizard is opened
          MaxPreviews,  \* bound: preview paths that are asked for
          MaxWizardFaults,  \* bound: requests that fail or whose answer is lost
          None

VARIABLES isOpen, opens,
          currentStep,
          discovered,      \* the devices of the last scan
          cameraIp,        \* the device whose address is in the form
          selectedMain,    \* the device whose stream is selected
          previewPath,     \* the preview the wizard knows
          isBusy,          \* isScanning, isProbingAuth, isCommitting
          request,         \* what each slot has asked, and the answer
          paths, nextPath, \* previews in MediaMTX
          cameras,         \* the rows that were committed: address and stream
          lost, wizardFaults

wizardVars == <<isOpen, opens, currentStep, discovered, cameraIp, selectedMain, previewPath,
                isBusy, request, paths, nextPath, cameras, lost, wizardFaults>>
formVars == <<currentStep, discovered, cameraIp, selectedMain, previewPath>>
serverVars == <<paths, nextPath, cameras, lost, wizardFaults>>

OrNone(S) == S \union {None}
Flags == {"scan", "auth", "commit"}
Request == [kind : {"scan", "auth", "preview", "teardown", "commit"}, device : OrNone(Devices),
            ip : OrNone(Devices), path : OrNone(1..MaxPreviews),
            answer : {"asked", "ok", "error"}]

WizardTypeOK ==
    /\ isOpen \in BOOLEAN /\ opens \in 0..MaxOpens /\ currentStep \in 1..6
    /\ discovered \subseteq Devices
    /\ cameraIp \in OrNone(Devices) /\ selectedMain \in OrNone(Devices)
    /\ previewPath \in OrNone(1..MaxPreviews)
    /\ isBusy \subseteq Flags
    /\ request \in [Slots -> OrNone(Request)]
    /\ paths \subseteq 1..MaxPreviews /\ nextPath \in 1..MaxPreviews + 1
    /\ cameras \in Seq([ip : OrNone(Devices), stream : Devices])
    /\ lost \in 0..MaxWizardFaults /\ wizardFaults \in 0..MaxWizardFaults

WizardInit ==
    /\ isOpen = FALSE /\ opens = 0 /\ currentStep = 1 /\ discovered = {}
    /\ cameraIp = None /\ selectedMain = None /\ previewPath = None /\ isBusy = {}
    /\ request = [s \in Slots |-> None]
    /\ paths = {} /\ nextPath = 1 /\ cameras = <<>> /\ lost = 0 /\ wizardFaults = 0

Asks(kind) ==
    LET free == {s \in Slots : request[s] = None}
    IN  /\ free # {}
        /\ request' = [request EXCEPT ![CHOOSE s \in free : TRUE] =
              [kind |-> kind, device |-> selectedMain, ip |-> cameraIp, path |-> previewPath,
               answer |-> "asked"]]

(* The effect of opening: everything is reset but the flags of requests in flight. *)
Open ==
    /\ ~isOpen /\ opens < MaxOpens
    /\ isOpen' = TRUE /\ opens' = opens + 1
    /\ currentStep' = 1 /\ discovered' = {} /\ cameraIp' = None /\ selectedMain' = None
    /\ previewPath' = None
    /\ UNCHANGED <<isBusy, request, serverVars>>

(* handleClose tears the preview down first and waits for the answer. *)
HandleClose ==
    /\ isOpen
    /\ IF previewPath = None THEN isOpen' = FALSE /\ UNCHANGED request
       ELSE Asks("teardown") /\ UNCHANGED isOpen
    /\ UNCHANGED <<opens, formVars, isBusy, serverVars>>

GoTo(step) == currentStep' = step
InForm(step) == isOpen /\ currentStep \in step

RunSubnetScan ==
    /\ InForm({1}) /\ "scan" \notin isBusy
    /\ Asks("scan") /\ isBusy' = isBusy \union {"scan"}
    /\ UNCHANGED <<isOpen, opens, formVars, serverVars>>

(* A device of the list, or an address typed by hand. *)
HandleSelectDiscovered(d) ==
    /\ InForm({1}) /\ d \in discovered
    /\ cameraIp' = d /\ GoTo(2)
    /\ UNCHANGED <<isOpen, opens, discovered, selectedMain, previewPath, isBusy, request, serverVars>>

ManualEntry(d) ==
    /\ InForm({1})
    /\ cameraIp' = d /\ GoTo(2)
    /\ UNCHANGED <<isOpen, opens, discovered, selectedMain, previewPath, isBusy, request, serverVars>>

HandleProbeAuth ==
    /\ InForm({2}) /\ "auth" \notin isBusy /\ cameraIp # None
    /\ Asks("auth") /\ isBusy' = isBusy \union {"auth"}
    /\ UNCHANGED <<isOpen, opens, formVars, serverVars>>

(* Next to the check of the network, which the buttons do not wait for. *)
ToNetworkCheck ==
    /\ InForm({2}) /\ selectedMain # None
    /\ GoTo(3)
    /\ UNCHANGED <<isOpen, opens, discovered, cameraIp, selectedMain, previewPath, isBusy, request,
                   serverVars>>

(* Next to the preview, and its retry: a second request may join the first, and without
   a stream none is sent. *)
HandleProvisionPreview ==
    /\ InForm({3, 4}) /\ GoTo(4)
    /\ IF selectedMain = None THEN UNCHANGED request ELSE Asks("preview")
    /\ UNCHANGED <<isOpen, opens, discovered, cameraIp, selectedMain, previewPath, isBusy, serverVars>>

Proceed ==
    /\ InForm({4, 5}) /\ GoTo(6)
    /\ UNCHANGED <<isOpen, opens, discovered, cameraIp, selectedMain, previewPath, isBusy, request,
                   serverVars>>

Back ==
    /\ InForm({2, 3, 4, 5, 6})
    /\ GoTo(IF currentStep = 5 THEN 3 ELSE currentStep - 1)
    /\ UNCHANGED <<isOpen, opens, discovered, cameraIp, selectedMain, previewPath, isBusy, request,
                   serverVars>>

(* Mutant: the button of the form is not disabled. *)
CanSubmitAgain == InForm({6}) /\ selectedMain # None

(* The form submits with a stream, and not while a commit is in flight. *)
CanSubmit == InForm({6}) /\ selectedMain # None /\ "commit" \notin isBusy

HandleCommitCamera ==
    /\ CanSubmit
    /\ Asks("commit") /\ isBusy' = isBusy \union {"commit"}
    /\ UNCHANGED <<isOpen, opens, formVars, serverVars>>

Asked(s) == request[s] # None /\ request[s].answer = "asked"
Answers(s, answer) == request' = [request EXCEPT ![s].answer = answer]

(* What the server does for a request. *)
ServePreview(s) ==
    /\ request[s].kind = "preview" /\ nextPath <= MaxPreviews
    /\ paths' = paths \union {nextPath} /\ nextPath' = nextPath + 1
    /\ request' = [request EXCEPT ![s] = [@ EXCEPT !.answer = "ok", !.path = nextPath]]
    /\ UNCHANGED cameras

ServeTeardown(s) ==
    /\ request[s].kind = "teardown"
    /\ paths' = paths \ {request[s].path}
    /\ Answers(s, "ok") /\ UNCHANGED <<nextPath, cameras>>

ServeCommit(s) ==
    /\ request[s].kind = "commit"
    /\ cameras' = Append(cameras, [ip |-> request[s].ip, stream |-> request[s].device])
    /\ paths' = paths \ {request[s].path}
    /\ Answers(s, "ok") /\ UNCHANGED nextPath

Serve(s) ==
    /\ Asked(s)
    /\ \/ ServePreview(s) \/ ServeTeardown(s) \/ ServeCommit(s)
       \/ request[s].kind \in {"scan", "auth"} /\ Answers(s, "ok") /\ UNCHANGED <<paths, nextPath, cameras>>
    /\ UNCHANGED <<isOpen, opens, formVars, isBusy, lost, wizardFaults>>

(* The server refuses, or does what it is asked and the answer is lost. *)
Fails(s) ==
    /\ wizardFaults < MaxWizardFaults /\ wizardFaults' = wizardFaults + 1
    /\ request[s] # None /\ request[s].answer \in {"asked", "ok"}
    /\ lost' = IF request[s].kind = "commit" /\ request[s].answer = "ok" THEN lost + 1 ELSE lost
    /\ Answers(s, "error")
    /\ UNCHANGED <<isOpen, opens, formVars, isBusy, paths, nextPath, cameras>>

(* The handler goes on: with what its request held, in the form as it is now. *)
Result(r) ==
    CASE r.kind = "scan" -> /\ discovered' \in IF r.answer = "ok" THEN SUBSET Devices ELSE {discovered}
                            /\ UNCHANGED <<isOpen, currentStep, cameraIp, selectedMain, previewPath>>
      [] r.kind = "auth" -> /\ selectedMain' = IF r.answer = "ok" THEN r.ip ELSE selectedMain
                            /\ UNCHANGED <<isOpen, currentStep, discovered, cameraIp, previewPath>>
      [] r.kind = "preview" -> /\ previewPath' = IF r.answer = "ok" THEN r.path ELSE previewPath
                               /\ GoTo(IF r.answer = "ok" THEN 5 ELSE currentStep)
                               /\ UNCHANGED <<isOpen, discovered, cameraIp, selectedMain>>
      [] r.kind = "teardown" -> isOpen' = FALSE /\ UNCHANGED formVars
      [] r.kind = "commit" -> /\ isOpen' = (isOpen /\ r.answer # "ok")
                              /\ UNCHANGED formVars

Receive(s) ==
    /\ request[s] # None /\ request[s].answer # "asked"
    /\ Result(request[s])
    /\ isBusy' = isBusy \ {request[s].kind}
    /\ request' = [request EXCEPT ![s] = None]
    /\ UNCHANGED <<opens, serverVars>>

WizardNext ==
    \/ Open \/ HandleClose \/ RunSubnetScan \/ HandleProbeAuth \/ ToNetworkCheck
    \/ HandleProvisionPreview \/ Proceed \/ Back \/ HandleCommitCamera
    \/ \E d \in Devices : HandleSelectDiscovered(d) \/ ManualEntry(d)
    \/ \E s \in Slots : Serve(s) \/ Fails(s) \/ Receive(s)

WizardSpec == WizardInit /\ [][WizardNext]_wizardVars

(* One opening of the wizard adds at most one camera, unless the answer to a commit is
   lost: a commit in flight keeps its button disabled even when the wizard is closed and
   opened again, and its answer closes the wizard it finds. *)
OneCameraPerOpening == Len(cameras) <= opens + lost

(* The inductive invariant behind it: there is one commit at most, flagged while it lasts;
   and unless it has been done, an opening that goes on, or was left with its commit under
   way, has not added its camera. *)
CommitAt(s, answer) == request[s] # None /\ request[s].kind = "commit" /\ request[s].answer = answer
Committing(s) == request[s] # None /\ request[s].kind = "commit"
WizardShape ==
    /\ request \in [Slots -> OrNone(Request)]
    /\ cameras \in Seq([ip : OrNone(Devices), stream : OrNone(Devices)])
    /\ cameraIp \in OrNone(Devices) /\ selectedMain \in OrNone(Devices)
    /\ previewPath \in OrNone(1..MaxPreviews) /\ nextPath \in Nat \ {0}
    /\ opens \in Nat /\ lost \in Nat /\ isOpen \in BOOLEAN
OneCommit ==
    /\ \A s \in Slots : Committing(s) => "commit" \in isBusy
    /\ \A s, t \in Slots : Committing(s) /\ Committing(t) => s = t
OpeningIsOwed ==
    /\ isOpen \/ (\E s \in Slots : CommitAt(s, "asked"))
    /\ ~\E s \in Slots : CommitAt(s, "ok")
    => Len(cameras) < opens + lost
WizardInv == WizardShape /\ OneCommit /\ OpeningIsOwed /\ OneCameraPerOpening

(* By hand: a camera is saved with the stream of its own address; every preview path is
   one the wizard knows or has asked about; an answer of one opening does not write into
   the next; a camera is committed after its preview. *)
AddressIsOfStream == \A i \in DOMAIN cameras : cameras[i].ip = cameras[i].stream
PreviewsAreKnown ==
    \A p \in paths : p = previewPath \/ \E s \in Slots : request[s] # None /\ request[s].path = p
CommitFollowsPreview == [][HandleCommitCamera => previewPath # None]_wizardVars
================================================================================
